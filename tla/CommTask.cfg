CONSTANTS
  rank0 = rank0  rank1 = rank1
  large = large  huge = huge  reply = reply
  NoPackage = NoPackage
  Rank = {rank0, rank1}
  Package = {large, huge, reply}
  Src <- From
  Dest <- To
  TypeOf <- Types
  Rendezvous = {large, huge}
  NodeTypes = {{1}, {0, 1}}
SPECIFICATION FairSpec
INVARIANT Conserved
PROPERTY Delivered
PROPERTY DestroyReturns
