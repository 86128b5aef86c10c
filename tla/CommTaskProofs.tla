--------------------------- MODULE CommTaskProofs ---------------------------
(***************************************************************************)
(* For any number of ranks and packages: a package is in one place at a    *)
(* time on its way from tu_comm_send to the rank that executes it, and     *)
(* only the type of a rendezvous can fail the assertion.                   *)
(***************************************************************************)
EXTENDS CommTask, FiniteSetTheorems, TLAPS

USE DEF WGoto, PGoto, worker, network, progress

-----------------------------------------------------------------------------
(* The invariant                                                           *)

Item == [rank : Rank, pkg : Package, type : Nat]
Call == [at : {"none", "push", "release"}, pkg : Package \cup {NoPackage}, type : Nat]
WorkerPC == {"acquire", "received", "push", "signal"}
ProgressPC == {"top", "check", "wait", "send", "sendWait", "receiveWait", "exited"}

CtTypeOK ==
  /\ unsent \subseteq Package
  /\ inputs \in NodeTypes /\ aborted \in BOOLEAN
  /\ received \in [Rank -> [inputs -> Seq(Package)]]
  /\ token \in [Rank -> Nat]
  /\ wpc \in [Rank -> WorkerPC]
  /\ hold \in [Rank -> Package \cup {NoPackage}]
  /\ packageQueue \in [Rank -> Seq(Package)]
  /\ signalled \in [Rank -> BOOLEAN]
  /\ canTerminate \in [Rank -> BOOLEAN]
  /\ ppc \in [Rank -> ProgressPC]
  /\ sending \in [Rank -> Package \cup {NoPackage}]
  /\ result \in [Rank -> Call]
  /\ rndvQueue \in [Rank -> Seq(Package)]
  /\ wire \in [Rank -> SUBSET Package]
  /\ fetched \subseteq Package
  /\ executed \subseteq Item
  /\ dpc \in [Rank -> {"running", "signal", "join", "end"}]

(* A thread has a package in its hands exactly where the code uses it.     *)
HandsInv ==
  \A r \in Rank :
    /\ wpc[r] = "push" <=> hold[r] # NoPackage
    /\ result[r].at = "push" <=> result[r].pkg # NoPackage
    /\ ppc[r] = "receiveWait" => rndvQueue[r] # <<>>

(* No package twice in a queue, in the inputs of a rank, nor in what has   *)
(* been executed.                                                          *)
OnceInv ==
  /\ \A r \in Rank :
       /\ IsInjective(packageQueue[r]) /\ IsInjective(rndvQueue[r])
       /\ \A t \in inputs : IsInjective(received[r][t])
       /\ \A t, u \in inputs : \A p \in Range(received[r][t]) :
            p \in Range(received[r][u]) => t = u
  /\ \A x, y \in executed : x.pkg = y.pkg => x = y

(* Messages are where they were sent to; the type of an eager package is   *)
(* its own.                                                                *)
Sound(r, p, ty) == Dest[p] = r /\ (p \notin Rendezvous => ty = TypeOf[p])

SoundInv ==
  /\ \A r \in Rank :
       /\ \A p \in wire[r] : Dest[p] = r
       /\ \A p \in Range(rndvQueue[r]) : Dest[p] = r /\ p \in Rendezvous
       /\ result[r].pkg # NoPackage => Sound(r, result[r].pkg, result[r].type)
       /\ \A t \in inputs : \A p \in Range(received[r][t]) : Sound(r, p, t)
  /\ \A x \in executed : Sound(x.rank, x.pkg, x.type)

(* The places a package can be in. *)
Kind == {"unsent", "hold", "queue", "wire", "rndv", "result", "received", "executed"}

In(k, r, p) ==
  \/ k = "unsent" /\ r = Src[p] /\ p \in unsent
  \/ k = "hold" /\ hold[r] = p
  \/ k = "queue" /\ p \in Range(packageQueue[r])
  \/ k = "wire" /\ p \in wire[r]
  \/ k = "rndv" /\ p \in Range(rndvQueue[r])
  \/ k = "result" /\ result[r].pkg = p
  \/ k = "received" /\ \E t \in inputs : p \in Range(received[r][t])
  \/ k = "executed" /\ \E x \in executed : x.pkg = p /\ x.rank = r

OnePlace(p) ==
  /\ \E k \in Kind, r \in Rank : In(k, r, p)
  /\ \A k, l \in Kind, r, s \in Rank : In(k, r, p) /\ In(l, s, p) => k = l /\ r = s

PlaceInv == \A p \in Package : OnePlace(p)

CtInv == CtTypeOK /\ HandsInv /\ OnceInv /\ SoundInv /\ PlaceInv

-----------------------------------------------------------------------------
(* Sequences without repetitions *)

LEMMA AppendOnce ==
  ASSUME NEW S, NEW s \in Seq(S), NEW e \in S
  PROVE  /\ Append(s, e) \in Seq(S) /\ Append(s, e) # <<>>
         /\ Range(Append(s, e)) = Range(s) \cup {e}
         /\ IsInjective(s) /\ e \notin Range(s) => IsInjective(Append(s, e))
<1>1. /\ DOMAIN Append(s, e) = 1 .. Len(s) + 1 /\ DOMAIN s = 1 .. Len(s)
      /\ \A i \in 1 .. Len(s) : Append(s, e)[i] = s[i]
      /\ Append(s, e)[Len(s) + 1] = e
      /\ Len(s) \in Nat
  OBVIOUS
<1>2. Range(Append(s, e)) = Range(s) \cup {e}
  BY <1>1 DEF Range
<1>3. IsInjective(s) /\ e \notin Range(s) => IsInjective(Append(s, e))
  BY <1>1 DEF Range, IsInjective
<1> QED BY <1>1, <1>2, <1>3

LEMMA TailOnce ==
  ASSUME NEW S, NEW s \in Seq(S), s # <<>>, IsInjective(s)
  PROVE  /\ Head(s) \in S /\ Head(s) \in Range(s)
         /\ Tail(s) \in Seq(S) /\ IsInjective(Tail(s))
         /\ Range(Tail(s)) = Range(s) \ {Head(s)}
<1>1. /\ DOMAIN s = 1 .. Len(s) /\ Len(s) \in Nat /\ Len(s) >= 1
      /\ DOMAIN Tail(s) = 1 .. Len(s) - 1
      /\ \A i \in 1 .. Len(s) - 1 : Tail(s)[i] = s[i + 1]
      /\ Head(s) = s[1] /\ Head(s) \in S /\ Tail(s) \in Seq(S)
  OBVIOUS
<1>2. Head(s) \in Range(s)
  BY <1>1 DEF Range
<1>3. ASSUME NEW x \in Range(s), x # Head(s)
      PROVE  x \in Range(Tail(s))
  <2>1. PICK i \in 1 .. Len(s) : s[i] = x
    BY <1>1 DEF Range
  <2>2. i - 1 \in 1 .. Len(s) - 1 /\ Tail(s)[i - 1] = x
    BY <1>1, <1>3, <2>1
  <2> QED BY <1>1, <2>2 DEF Range
<1>4. ASSUME NEW x \in Range(Tail(s))
      PROVE  x \in Range(s) /\ x # Head(s)
  <2>1. PICK i \in 1 .. Len(s) - 1 : Tail(s)[i] = x
    BY <1>1 DEF Range
  <2>2. i + 1 \in 1 .. Len(s) /\ s[i + 1] = x /\ i + 1 # 1
    BY <1>1, <2>1
  <2> QED BY <1>1, <2>2 DEF Range, IsInjective
<1>5. IsInjective(Tail(s))
  <2> SUFFICES ASSUME NEW i \in 1 .. Len(s) - 1, NEW j \in 1 .. Len(s) - 1,
                      Tail(s)[i] = Tail(s)[j]
               PROVE  i = j
    BY <1>1 DEF IsInjective
  <2>1. s[i + 1] = s[j + 1] /\ i + 1 \in DOMAIN s /\ j + 1 \in DOMAIN s
    BY <1>1
  <2> QED BY <2>1 DEF IsInjective
<1>6. Range(Tail(s)) = Range(s) \ {Head(s)}
  BY <1>2, <1>3, <1>4
<1> QED BY <1>1, <1>2, <1>5, <1>6

-----------------------------------------------------------------------------
(* A package moves from one place to another                               *)

LEMMA OnlyPlace ==
  ASSUME PlaceInv, NEW p \in Package, NEW k \in Kind, NEW r \in Rank, In(k, r, p)
  PROVE  \A l \in Kind, s \in Rank : In(l, s, p) => l = k /\ s = r
BY DEF PlaceInv, OnePlace

LEMMA MovePlace ==
  ASSUME PlaceInv, NEW p \in Package, NEW k \in Kind, NEW r \in Rank,
         \A x \in Package : x # p =>
           \A l \in Kind, s \in Rank : In(l, s, x)' <=> In(l, s, x),
         \A l \in Kind, s \in Rank : In(l, s, p)' <=> (l = k /\ s = r)
  PROVE  PlaceInv'
<1> SUFFICES ASSUME NEW x \in Package PROVE OnePlace(x)'
  BY DEF PlaceInv
<1>1. CASE x = p
  BY <1>1 DEF OnePlace
<1>2. CASE x # p
  BY <1>2 DEF PlaceInv, OnePlace
<1> QED BY <1>1, <1>2

(* A node has an input for the type of every package.                      *)
LEMMA Typed ==
  ASSUME inputs \in NodeTypes
  PROVE  /\ inputs \subseteq Nat
         /\ \A p \in Package : TypeOf[p] \in inputs /\ TypeOf[p] \in Nat
BY CtAssumption

(* The steps that move no package.                                         *)
LEMMA StayInv ==
  ASSUME CtInv, CtTypeOK', HandsInv',
         UNCHANGED <<unsent, inputs, hold, packageQueue, wire, rndvQueue, received,
                     executed>>,
         \A r \in Rank : \/ result'[r] = result[r]
                         \/ result'[r].pkg = NoPackage /\ result[r].pkg = NoPackage
  PROVE  CtInv'
<1>0. CtTypeOK /\ HandsInv /\ OnceInv /\ SoundInv /\ PlaceInv
  BY DEF CtInv
<1>1. OnceInv'
  BY <1>0 DEF OnceInv
<1>2. SoundInv'
  BY <1>0 DEF SoundInv
<1>3. ASSUME NEW k \in Kind, NEW r \in Rank, NEW p \in Package
      PROVE  In(k, r, p)' <=> In(k, r, p)
  BY CtAssumption DEF In
<1>4. PlaceInv'
  BY <1>0, <1>3 DEF PlaceInv, OnePlace
<1> QED BY <1>1, <1>2, <1>4 DEF CtInv

LEMMA StayStep ==
  ASSUME CtInv, NEW r \in Rank,
         \/ Acquire(r) \/ ReceivedEmpty(r) \/ CommSignal(r) \/ ResultRelease(r)
         \/ Leave(r) \/ NetworkWait(r) \/ SendDone(r) \/ DestroyStep(r)
         \/ Progress(r) /\ wire[r] = {}
         \/ SendNext(r) /\ packageQueue[r] = <<>>
         \/ ResultAbort(r)
  PROVE  CtInv'
<1>0. CtTypeOK /\ HandsInv
  BY DEF CtInv
<1>1. CASE Acquire(r) \/ ReceivedEmpty(r) \/ CommSignal(r) \/ DestroyStep(r)
  <2>1. /\ UNCHANGED <<unsent, inputs, aborted, hold, packageQueue, progress, network,
                       received, executed>>
        /\ wpc' = wpc \/ (wpc[r] # "push" /\
                          \E l \in WorkerPC \ {"push"} : wpc' = [wpc EXCEPT ![r] = l])
    BY <1>1 DEF Acquire, ReceivedEmpty, CommSignal, DestroyStep, Destroy, DestroySignal, Join,
       WorkerPC, Running
  <2>2. CtTypeOK'
    <3>1. /\ token' \in [Rank -> Nat] /\ signalled' \in [Rank -> BOOLEAN]
          /\ canTerminate' \in [Rank -> BOOLEAN]
          /\ dpc' \in [Rank -> {"running", "signal", "join", "end"}]
      <4>0. /\ token \in [Rank -> Nat] /\ signalled \in [Rank -> BOOLEAN]
            /\ canTerminate \in [Rank -> BOOLEAN]
            /\ dpc \in [Rank -> {"running", "signal", "join", "end"}]
        BY <1>0 DEF CtTypeOK
      <4>1. CASE Acquire(r)
        BY <4>0, <4>1 DEF Acquire
      <4>2. CASE ReceivedEmpty(r) \/ CommSignal(r)
        BY <4>0, <4>2 DEF ReceivedEmpty, CommSignal
      <4>3. CASE DestroyStep(r)
        BY <4>0, <4>3 DEF DestroyStep, Destroy, DestroySignal, Join
      <4> QED BY <1>1, <4>1, <4>2, <4>3
    <3>2. wpc' \in [Rank -> WorkerPC]
      BY <1>0, <2>1 DEF CtTypeOK
    <3> QED BY <1>0, <2>1, <3>1, <3>2 DEF CtTypeOK
  <2>3. HandsInv'
    BY <1>0, <2>1 DEF HandsInv, CtTypeOK
  <2> QED BY <2>1, <2>2, <2>3, StayInv
<1>2. CASE ResultRelease(r)
  <2>1. /\ result[r].at = "release" /\ result' = [result EXCEPT ![r] = Idle]
        /\ token' = [token EXCEPT ![r] = @ + 1]
        /\ UNCHANGED <<unsent, inputs, aborted, received, worker, packageQueue, signalled,
                       canTerminate, ppc, sending, rndvQueue, network, executed, dpc>>
    BY <1>2 DEF ResultRelease, Running
  <2>2. Idle \in Call /\ Idle.pkg = NoPackage /\ Idle.at # "push"
    BY DEF Idle, Call
  <2>3. CtTypeOK'
    BY <1>0, <2>1, <2>2 DEF CtTypeOK
  <2>4. HandsInv'
    BY <1>0, <2>1, <2>2 DEF HandsInv, CtTypeOK
  <2>5. result[r].pkg = NoPackage /\ result'[r].pkg = NoPackage
    BY <1>0, <2>1, <2>2 DEF HandsInv, CtTypeOK
  <2>6. \A s \in Rank : s # r => result'[s] = result[s]
    BY <1>0, <2>1 DEF CtTypeOK
  <2> QED BY <2>1, <2>3, <2>4, <2>5, <2>6, StayInv
<1>3. CASE \/ Leave(r) \/ NetworkWait(r) \/ SendDone(r)
           \/ Progress(r) /\ wire[r] = {}
           \/ SendNext(r) /\ packageQueue[r] = <<>>
  <2>1. /\ UNCHANGED <<unsent, inputs, aborted, received, token, worker, packageQueue,
                       canTerminate, result, rndvQueue, network, executed, dpc>>
        /\ signalled' = signalled \/ signalled' = [signalled EXCEPT ![r] = FALSE]
        /\ sending' = sending \/ sending' = [sending EXCEPT ![r] = NoPackage]
        /\ \E l \in ProgressPC : /\ ppc' = [ppc EXCEPT ![r] = l]
                                 /\ l = "receiveWait" => rndvQueue[r] # <<>>
    <3>1. CASE SendNext(r) /\ packageQueue[r] = <<>>
      BY <3>1 DEF SendNext, Receiving, ProgressPC, Running
    <3>2. CASE Progress(r) /\ wire[r] = {}
      BY <3>2 DEF Progress, Handle, ProgressPC, Running
    <3> QED BY <1>3, <3>1, <3>2 DEF Leave, NetworkWait, SendDone, ProgressPC, Running
  <2>2. CtTypeOK'
    <3>1. ppc' \in [Rank -> ProgressPC]
      BY <1>0, <2>1 DEF CtTypeOK
    <3>2. signalled' \in [Rank -> BOOLEAN]
      BY <1>0, <2>1 DEF CtTypeOK
    <3>3. sending' \in [Rank -> Package \cup {NoPackage}]
      BY <1>0, <2>1 DEF CtTypeOK
    <3> QED BY <1>0, <2>1, <3>1, <3>2, <3>3 DEF CtTypeOK
  <2>3. HandsInv'
    BY <1>0, <2>1 DEF HandsInv, CtTypeOK
  <2> QED BY <2>1, <2>2, <2>3, StayInv
<1>4. CASE ResultAbort(r)
  <2>1. /\ aborted' = TRUE
        /\ UNCHANGED <<unsent, inputs, received, token, worker, packageQueue, signalled,
                       canTerminate, progress, network, executed, dpc>>
    BY <1>4 DEF ResultAbort
  <2>2. CtTypeOK' /\ HandsInv'
    BY <1>0, <2>1 DEF CtTypeOK, HandsInv
  <2> QED BY <2>1, <2>2, StayInv
<1> QED BY <1>1, <1>2, <1>3, <1>4

(* ExecSend: from the program to the worker.                                 *)
LEMMA ExecSendStep ==
  ASSUME CtInv, NEW r \in Rank, ExecSend(r)
  PROVE  CtInv'
<1>0. CtTypeOK /\ HandsInv /\ OnceInv /\ SoundInv /\ PlaceInv
  BY DEF CtInv
<1>1. PICK p \in unsent : Src[p] = r /\ hold' = [hold EXCEPT ![r] = p] /\ unsent' = unsent \ {p}
  BY DEF ExecSend
<1>2. /\ wpc[r] = "acquire" /\ wpc' = [wpc EXCEPT ![r] = "push"]
      /\ UNCHANGED <<inputs, aborted, received, token, packageQueue, signalled,
                     canTerminate, progress, network, executed, dpc>>
  BY DEF ExecSend, Running
<1>3. p \in Package /\ p # NoPackage
  BY <1>0, CtAssumption DEF CtTypeOK
<1>4. CtTypeOK'
  BY <1>0, <1>1, <1>2, <1>3 DEF CtTypeOK, WorkerPC
<1>5. /\ hold[r] = NoPackage /\ hold'[r] = p
      /\ \A s \in Rank : s # r => hold'[s] = hold[s]
  BY <1>0, <1>1, <1>2 DEF HandsInv, CtTypeOK
<1>6. HandsInv'
  BY <1>0, <1>2, <1>3, <1>5 DEF HandsInv, CtTypeOK
<1>7. OnceInv' /\ SoundInv'
  BY <1>0, <1>2 DEF OnceInv, SoundInv
<1>8. \A l \in Kind, s \in Rank : In(l, s, p) => l = "unsent" /\ s = r
  <2>1. In("unsent", r, p) /\ "unsent" \in Kind
    BY <1>1 DEF In, Kind
  <2> QED BY <1>0, <1>3, <2>1, OnlyPlace
<1>9. PlaceInv'
  <2>1. ASSUME NEW x \in Package, x # p, NEW l \in Kind, NEW s \in Rank
        PROVE  In(l, s, x)' <=> In(l, s, x)
    BY <1>1, <1>2, <1>5, <2>1, CtAssumption DEF In
  <2>2. ASSUME NEW l \in Kind, NEW s \in Rank
        PROVE  In(l, s, p)' <=> (l = "hold" /\ s = r)
    BY <1>1, <1>2, <1>5, <1>8 DEF In
  <2>3. "hold" \in Kind
    BY DEF Kind
  <2> QED BY <1>0, <1>3, <2>1, <2>2, <2>3, MovePlace
<1> QED BY <1>4, <1>6, <1>7, <1>9 DEF CtInv

(* CommSend: from the worker to the queue of the progress thread.            *)
LEMMA CommSendStep ==
  ASSUME CtInv, NEW r \in Rank, CommSend(r)
  PROVE  CtInv'
<1>0. CtTypeOK /\ HandsInv /\ OnceInv /\ SoundInv /\ PlaceInv
  BY DEF CtInv
<1>1. PICK p \in Package : p = hold[r]
  BY <1>0 DEF CtTypeOK, HandsInv, CommSend
<1>2. /\ wpc[r] = "push" /\ wpc' = [wpc EXCEPT ![r] = "signal"]
      /\ packageQueue' = [packageQueue EXCEPT ![r] = Append(@, p)]
      /\ hold' = [hold EXCEPT ![r] = NoPackage]
      /\ UNCHANGED <<unsent, inputs, aborted, received, token, signalled,
                     canTerminate, progress, network, executed, dpc>>
  BY <1>1 DEF CommSend, Running
<1>3. \A l \in Kind, s \in Rank : In(l, s, p) => l = "hold" /\ s = r
  <2>1. In("hold", r, p) /\ "hold" \in Kind
    BY <1>1 DEF In, Kind
  <2> QED BY <1>0, <1>1, <2>1, OnlyPlace
<1>4. PICK q \in Seq(Package) : q = packageQueue[r]
  BY <1>0 DEF CtTypeOK
<1>5. p \notin Range(q)
  BY <1>3, <1>4 DEF In, Kind
<1>6. /\ Append(q, p) \in Seq(Package) /\ Range(Append(q, p)) = Range(q) \cup {p}
      /\ IsInjective(Append(q, p))
  BY <1>0, <1>1, <1>4, <1>5, AppendOnce DEF OnceInv
<1>7. /\ packageQueue'[r] = Append(q, p) /\ hold'[r] = NoPackage
      /\ \A s \in Rank : s # r => packageQueue'[s] = packageQueue[s] /\ hold'[s] = hold[s]
  BY <1>0, <1>2, <1>4 DEF CtTypeOK
<1>8. CtTypeOK'
  BY <1>0, <1>2, <1>4, <1>6 DEF CtTypeOK, WorkerPC
<1>9. HandsInv'
  BY <1>0, <1>2, <1>7 DEF HandsInv, CtTypeOK
<1>10. OnceInv'
  BY <1>0, <1>2, <1>6, <1>7 DEF OnceInv
<1>11. SoundInv'
  BY <1>0, <1>2 DEF SoundInv
<1>12. PlaceInv'
  <2>1. ASSUME NEW x \in Package, x # p, NEW l \in Kind, NEW s \in Rank
        PROVE  In(l, s, x)' <=> In(l, s, x)
    BY <1>1, <1>2, <1>4, <1>6, <1>7, <2>1, CtAssumption DEF In
  <2>2. ASSUME NEW l \in Kind, NEW s \in Rank
        PROVE  In(l, s, p)' <=> (l = "queue" /\ s = r)
    <3>1. p \notin Range(packageQueue[s])
      BY <1>3 DEF In, Kind
    <3>2. p \in Range(packageQueue'[s]) <=> s = r
      BY <1>6, <1>7, <3>1
    <3>3. hold'[s] # p
      <4>1. hold[s] = p => s = r
        BY <1>3 DEF In, Kind
      <4> QED BY <1>1, <1>7, <4>1, CtAssumption
    <3>4. l \notin {"queue", "hold"} => ~ In(l, s, p)'
      <4>1. l \notin {"queue", "hold"} => (In(l, s, p)' <=> In(l, s, p))
        BY <1>2 DEF In
      <4> QED BY <1>3, <4>1
    <3> QED BY <3>2, <3>3, <3>4 DEF In
  <2>3. "queue" \in Kind
    BY DEF Kind
  <2> QED BY <1>0, <1>1, <2>1, <2>2, <2>3, MovePlace
<1> QED BY <1>8, <1>9, <1>10, <1>11, <1>12 DEF CtInv

(* SendNext: from that queue to the network.                                 *)
LEMMA SendStep ==
  ASSUME CtInv, NEW r \in Rank, SendNext(r), packageQueue[r] # <<>>
  PROVE  CtInv'
<1>0. CtTypeOK /\ HandsInv /\ OnceInv /\ SoundInv /\ PlaceInv
  BY DEF CtInv
<1>1. PICK q \in Seq(Package) : q = packageQueue[r]
  BY <1>0 DEF CtTypeOK
<1>2. /\ Head(q) \in Package /\ Head(q) \in Range(q) /\ Tail(q) \in Seq(Package)
      /\ IsInjective(Tail(q)) /\ Range(Tail(q)) = Range(q) \ {Head(q)}
  BY <1>0, <1>1, TailOnce DEF OnceInv
<1>3. PICK p \in Package : p = Head(q)
  BY <1>2
<1>4. PICK d \in Rank : d = Dest[p]
  BY CtAssumption
<1>5. /\ packageQueue' = [packageQueue EXCEPT ![r] = Tail(q)]
      /\ sending' = [sending EXCEPT ![r] = p]
      /\ wire' = [wire EXCEPT ![d] = @ \cup {p}]
      /\ ppc' = [ppc EXCEPT ![r] = "sendWait"]
      /\ UNCHANGED <<unsent, inputs, aborted, received, token, worker, signalled,
                     canTerminate, result, rndvQueue, fetched, executed, dpc>>
  BY <1>1, <1>3, <1>4 DEF SendNext, Running
<1>6. \A l \in Kind, s \in Rank : In(l, s, p) => l = "queue" /\ s = r
  <2>1. In("queue", r, p) /\ "queue" \in Kind
    BY <1>1, <1>2, <1>3 DEF In, Kind
  <2> QED BY <1>0, <2>1, OnlyPlace
<1>7. /\ packageQueue'[r] = Tail(q) /\ wire'[d] = wire[d] \cup {p}
      /\ \A s \in Rank : s # r => packageQueue'[s] = packageQueue[s]
      /\ \A s \in Rank : s # d => wire'[s] = wire[s]
  BY <1>0, <1>5 DEF CtTypeOK
<1>8. CtTypeOK'
  <2>1. wire' \in [Rank -> SUBSET Package]
    BY <1>0, <1>5 DEF CtTypeOK
  <2> QED BY <1>0, <1>2, <1>5, <2>1 DEF CtTypeOK, ProgressPC
<1>9. HandsInv'
  BY <1>0, <1>5 DEF HandsInv, CtTypeOK
<1>10. OnceInv'
  BY <1>0, <1>2, <1>5, <1>7 DEF OnceInv
<1>11. SoundInv'
  BY <1>0, <1>4, <1>5, <1>7 DEF SoundInv
<1>12. PlaceInv'
  <2>1. ASSUME NEW x \in Package, x # p, NEW l \in Kind, NEW s \in Rank
        PROVE  In(l, s, x)' <=> In(l, s, x)
    BY <1>1, <1>2, <1>3, <1>5, <1>7, <2>1 DEF In
  <2>2. ASSUME NEW l \in Kind, NEW s \in Rank
        PROVE  In(l, s, p)' <=> (l = "wire" /\ s = d)
    <3>1. p \notin wire[s] /\ (p \in Range(packageQueue[s]) => s = r)
      BY <1>6 DEF In, Kind
    <3>2. p \in wire'[s] <=> s = d
      BY <1>7, <3>1
    <3>3. p \notin Range(packageQueue'[s])
      BY <1>2, <1>3, <1>7, <3>1
    <3>4. l \notin {"queue", "wire"} => ~ In(l, s, p)'
      <4>1. l \notin {"queue", "wire"} => (In(l, s, p)' <=> In(l, s, p))
        BY <1>5 DEF In
      <4> QED BY <1>6, <4>1
    <3> QED BY <3>2, <3>3, <3>4 DEF In
  <2>3. "wire" \in Kind
    BY DEF Kind
  <2> QED BY <1>0, <2>1, <2>2, <2>3, MovePlace
<1> QED BY <1>8, <1>9, <1>10, <1>11, <1>12 DEF CtInv

(* comm_am_handler: from the network to the node, or to the queue of the     *)
(* rendezvous.                                                               *)
LEMMA HandleStep ==
  ASSUME CtInv, NEW r \in Rank, NEW p \in wire[r], Handle(r, p), result[r] = Idle,
         \/ ppc' = ppc
         \/ ppc[r] = "top" /\ ppc' = [ppc EXCEPT ![r] = "check"],
         UNCHANGED <<unsent, inputs, aborted, received, token, worker, packageQueue,
                     signalled, canTerminate, sending, fetched, executed, dpc>>
  PROVE  CtInv'
<1>0. CtTypeOK /\ HandsInv /\ OnceInv /\ SoundInv /\ PlaceInv
  BY DEF CtInv
<1>1. p \in Package /\ Dest[p] = r /\ p # NoPackage
  BY <1>0, CtAssumption DEF CtTypeOK, SoundInv
<1>2. result[r].pkg = NoPackage /\ result[r].at = "none"
  BY DEF Idle
<1>3. \A l \in Kind, s \in Rank : In(l, s, p) => l = "wire" /\ s = r
  <2>1. In("wire", r, p) /\ "wire" \in Kind
    BY DEF In, Kind
  <2> QED BY <1>0, <1>1, <2>1, OnlyPlace
<1>4. /\ wire' = [wire EXCEPT ![r] = @ \ {p}] /\ wire'[r] = wire[r] \ {p}
      /\ \A s \in Rank : s # r => wire'[s] = wire[s]
      /\ wire' \in [Rank -> SUBSET Package]
  BY <1>0 DEF Handle, CtTypeOK
<1>5. ppc' \in [Rank -> ProgressPC] /\ \A s \in Rank : ppc'[s] = "receiveWait" => ppc[s] = "receiveWait"
  BY <1>0 DEF CtTypeOK, ProgressPC
<1>6. CASE p \in Rendezvous
  <2>1. PICK q \in Seq(Package) : q = rndvQueue[r]
    BY <1>0 DEF CtTypeOK
  <2>2. rndvQueue' = [rndvQueue EXCEPT ![r] = Append(q, p)] /\ result' = result
    BY <1>6, <2>1 DEF Handle
  <2>3. p \notin Range(q)
    BY <1>3, <2>1 DEF In, Kind
  <2>4. /\ Append(q, p) \in Seq(Package) /\ Range(Append(q, p)) = Range(q) \cup {p}
        /\ IsInjective(Append(q, p)) /\ Append(q, p) # <<>>
    BY <1>0, <1>1, <2>1, <2>3, AppendOnce DEF OnceInv
  <2>5. /\ rndvQueue'[r] = Append(q, p)
        /\ \A s \in Rank : s # r => rndvQueue'[s] = rndvQueue[s]
    BY <1>0, <2>2 DEF CtTypeOK
  <2>6. CtTypeOK'
    BY <1>0, <1>4, <1>5, <2>2, <2>4 DEF CtTypeOK
  <2>7. HandsInv'
    BY <1>0, <1>5, <2>2, <2>4, <2>5 DEF HandsInv
  <2>8. OnceInv'
    BY <1>0, <2>4, <2>5 DEF OnceInv
  <2>9. SoundInv'
    BY <1>0, <1>1, <1>4, <1>6, <2>1, <2>2, <2>4, <2>5 DEF SoundInv
  <2>10. PlaceInv'
    <3>1. ASSUME NEW x \in Package, x # p, NEW l \in Kind, NEW s \in Rank
          PROVE  In(l, s, x)' <=> In(l, s, x)
      BY <1>4, <2>1, <2>2, <2>4, <2>5, <3>1 DEF In
    <3>2. ASSUME NEW l \in Kind, NEW s \in Rank
          PROVE  In(l, s, p)' <=> (l = "rndv" /\ s = r)
      BY <1>3, <1>4, <2>2, <2>4, <2>5 DEF In
    <3>3. "rndv" \in Kind
      BY DEF Kind
    <3> QED BY <1>0, <1>1, <3>1, <3>2, <3>3, MovePlace
  <2> QED BY <2>6, <2>7, <2>8, <2>9, <2>10 DEF CtInv
<1>7. CASE p \notin Rendezvous
  <2>1. PICK c \in Call : c = [at |-> "push", pkg |-> p, type |-> TypeOf[p]]
    BY <1>0, <1>1, Typed DEF Call, CtTypeOK
  <2>2. result' = [result EXCEPT ![r] = c] /\ rndvQueue' = rndvQueue
    BY <1>7, <2>1 DEF Handle
  <2>3. /\ result'[r] = c /\ \A s \in Rank : s # r => result'[s] = result[s]
        /\ c.pkg = p /\ c.at = "push" /\ c.type = TypeOf[p]
    BY <1>0, <2>1, <2>2 DEF CtTypeOK
  <2>4. CtTypeOK'
    BY <1>0, <1>4, <1>5, <2>2 DEF CtTypeOK
  <2>5. HandsInv'
    BY <1>0, <1>1, <1>5, <2>2, <2>3 DEF HandsInv
  <2>6. OnceInv'
    BY <1>0, <2>2 DEF OnceInv
  <2>7. SoundInv'
    BY <1>0, <1>1, <1>4, <1>7, <2>2, <2>3 DEF SoundInv, Sound
  <2>8. PlaceInv'
    <3>1. ASSUME NEW x \in Package, x # p, NEW l \in Kind, NEW s \in Rank
          PROVE  In(l, s, x)' <=> In(l, s, x)
      <4>1. x # NoPackage
        BY CtAssumption
      <4> QED BY <1>2, <1>4, <2>2, <2>3, <3>1, <4>1 DEF In
    <3>2. ASSUME NEW l \in Kind, NEW s \in Rank
          PROVE  In(l, s, p)' <=> (l = "result" /\ s = r)
      BY <1>3, <1>4, <2>2, <2>3 DEF In
    <3>3. "result" \in Kind
      BY DEF Kind
    <3> QED BY <1>0, <1>1, <3>1, <3>2, <3>3, MovePlace
  <2> QED BY <2>4, <2>5, <2>6, <2>7, <2>8 DEF CtInv
<1> QED BY <1>6, <1>7

(* process_recv_ops: the data of a rendezvous.                               *)
LEMMA ReceiveStep ==
  ASSUME CtInv, NEW r \in Rank, Receive(r)
  PROVE  CtInv'
<1>0. CtTypeOK /\ HandsInv /\ OnceInv /\ SoundInv /\ PlaceInv
  BY DEF CtInv
<1>1. PICK q \in Seq(Package) : q = rndvQueue[r]
  BY <1>0 DEF CtTypeOK
<1>2. q # <<>> /\ result[r] = Idle
  BY <1>0, <1>1 DEF HandsInv, Receive, At
<1>3. /\ Head(q) \in Package /\ Head(q) \in Range(q) /\ Tail(q) \in Seq(Package)
      /\ IsInjective(Tail(q)) /\ Range(Tail(q)) = Range(q) \ {Head(q)}
  BY <1>0, <1>1, <1>2, TailOnce DEF OnceInv
<1>4. PICK p \in Package : p = Head(q)
  BY <1>3
<1>5. p # NoPackage /\ Dest[p] = r /\ p \in Rendezvous
  BY <1>0, <1>1, <1>3, <1>4, CtAssumption DEF SoundInv
<1>6. NextType(q) \in Nat
  <2>1. Len(q) > 1 => q[2] \in Package
    BY <1>1
  <2> QED BY <1>0, <2>1, Typed DEF NextType, CtTypeOK
<1>7. PICK c \in Call : c = [at |-> "push", pkg |-> p, type |-> NextType(q)]
  BY <1>6 DEF Call
<1>8. /\ fetched' = fetched \cup {p} /\ result' = [result EXCEPT ![r] = c]
      /\ rndvQueue' = [rndvQueue EXCEPT ![r] = Tail(q)]
      /\ ppc' = [ppc EXCEPT ![r] = Receiving(Tail(q))]
      /\ UNCHANGED <<unsent, inputs, aborted, received, token, worker, packageQueue,
                     signalled, canTerminate, sending, wire, executed, dpc>>
  BY <1>1, <1>4, <1>7 DEF Receive, Running
<1>9. /\ result'[r] = c /\ \A s \in Rank : s # r => result'[s] = result[s]
      /\ c.pkg = p /\ c.at = "push"
      /\ rndvQueue'[r] = Tail(q) /\ \A s \in Rank : s # r => rndvQueue'[s] = rndvQueue[s]
  BY <1>0, <1>7, <1>8 DEF CtTypeOK
<1>10. Receiving(Tail(q)) \in ProgressPC /\ (Receiving(Tail(q)) = "receiveWait" => Tail(q) # <<>>)
  BY DEF Receiving, ProgressPC
<1>11. CtTypeOK'
  BY <1>0, <1>3, <1>8, <1>10 DEF CtTypeOK
<1>12. HandsInv'
  BY <1>0, <1>5, <1>8, <1>9, <1>10 DEF HandsInv, CtTypeOK
<1>13. OnceInv'
  BY <1>0, <1>3, <1>8, <1>9 DEF OnceInv
<1>14. SoundInv'
  BY <1>0, <1>1, <1>3, <1>5, <1>8, <1>9 DEF SoundInv, Sound
<1>15. \A l \in Kind, s \in Rank : In(l, s, p) => l = "rndv" /\ s = r
  <2>1. In("rndv", r, p) /\ "rndv" \in Kind
    BY <1>1, <1>3, <1>4 DEF In, Kind
  <2> QED BY <1>0, <2>1, OnlyPlace
<1>16. result[r].pkg = NoPackage
  BY <1>2 DEF Idle
<1>17. PlaceInv'
  <2>1. ASSUME NEW x \in Package, x # p, NEW l \in Kind, NEW s \in Rank
        PROVE  In(l, s, x)' <=> In(l, s, x)
    <3>1. x # NoPackage
      BY CtAssumption
    <3> QED BY <1>1, <1>3, <1>4, <1>8, <1>9, <1>16, <2>1, <3>1 DEF In
  <2>2. ASSUME NEW l \in Kind, NEW s \in Rank
        PROVE  In(l, s, p)' <=> (l = "result" /\ s = r)
    <3>1. result[s].pkg # p /\ (p \in Range(rndvQueue[s]) => s = r)
      BY <1>15 DEF In, Kind
    <3>2. result'[s].pkg = p <=> s = r
      BY <1>9, <3>1
    <3>3. p \notin Range(rndvQueue'[s])
      BY <1>3, <1>4, <1>9, <3>1
    <3>4. l \notin {"rndv", "result"} => ~ In(l, s, p)'
      <4>1. l \notin {"rndv", "result"} => (In(l, s, p)' <=> In(l, s, p))
        BY <1>8 DEF In
      <4> QED BY <1>15, <4>1
    <3> QED BY <3>2, <3>3, <3>4 DEF In
  <2>3. "result" \in Kind
    BY DEF Kind
  <2> QED BY <1>0, <2>1, <2>2, <2>3, MovePlace
<1> QED BY <1>11, <1>12, <1>13, <1>14, <1>17 DEF CtInv

(* comm_progress_result: to the input of the node.                           *)
LEMMA ResultPushStep ==
  ASSUME CtInv, NEW r \in Rank, ResultPush(r)
  PROVE  CtInv'
<1>0. CtTypeOK /\ HandsInv /\ OnceInv /\ SoundInv /\ PlaceInv
  BY DEF CtInv
<1>1. PICK p \in Package : p = result[r].pkg
  BY <1>0 DEF CtTypeOK, HandsInv, Call, ResultPush
<1>2. PICK t \in inputs : t = result[r].type
  BY DEF ResultPush
<1>3. p # NoPackage /\ Sound(r, p, t)
  BY <1>0, <1>1, <1>2, CtAssumption DEF SoundInv
<1>4. PICK c \in Call : c = [Idle EXCEPT !.at = "release"]
  BY DEF Idle, Call
<1>5. c.pkg = NoPackage /\ c.at = "release"
  BY <1>4 DEF Idle
<1>6. PICK q \in Seq(Package) : q = received[r][t]
  BY <1>0 DEF CtTypeOK
<1>7. /\ received' = [received EXCEPT ![r][t] = Append(q, p)]
      /\ result' = [result EXCEPT ![r] = c]
      /\ UNCHANGED <<unsent, inputs, aborted, token, worker, packageQueue, signalled,
                     canTerminate, ppc, sending, rndvQueue, network, executed, dpc>>
  BY <1>1, <1>2, <1>4, <1>6 DEF ResultPush, Running
<1>8. \A l \in Kind, s \in Rank : In(l, s, p) => l = "result" /\ s = r
  <2>1. In("result", r, p) /\ "result" \in Kind
    BY <1>1 DEF In, Kind
  <2> QED BY <1>0, <1>1, <2>1, OnlyPlace
<1>9. \A s \in Rank, u \in inputs : p \notin Range(received[s][u])
  BY <1>8 DEF In, Kind
<1>10. /\ Append(q, p) \in Seq(Package) /\ Range(Append(q, p)) = Range(q) \cup {p}
       /\ IsInjective(Append(q, p))
  BY <1>0, <1>6, <1>9, AppendOnce DEF OnceInv
<1>11. /\ received'[r][t] = Append(q, p)
       /\ \A u \in inputs : u # t => received'[r][u] = received[r][u]
       /\ \A s \in Rank : s # r => received'[s] = received[s]
       /\ received' \in [Rank -> [inputs -> Seq(Package)]]
  BY <1>0, <1>7, <1>10 DEF CtTypeOK
<1>12. result'[r] = c /\ \A s \in Rank : s # r => result'[s] = result[s]
  BY <1>0, <1>7 DEF CtTypeOK
<1>13. CtTypeOK'
  BY <1>0, <1>7, <1>11 DEF CtTypeOK
<1>14. HandsInv'
  BY <1>0, <1>5, <1>7, <1>12 DEF HandsInv
<1>15. ASSUME NEW s \in Rank, NEW u \in inputs
       PROVE  /\ IsInjective(received'[s][u])
              /\ Range(received'[s][u]) =
                   IF s = r /\ u = t THEN Range(received[s][u]) \cup {p}
                                     ELSE Range(received[s][u])
  <2>1. CASE s = r /\ u = t
    BY <1>6, <1>10, <1>11, <2>1
  <2>2. CASE s # r \/ u # t
    <3>1. received'[s][u] = received[s][u]
      BY <1>11, <2>2
    <3> QED BY <1>0, <2>2, <3>1 DEF OnceInv
  <2> QED BY <2>1, <2>2
<1>16. OnceInv'
  <2>1. ASSUME NEW s \in Rank, NEW u \in inputs, NEW v \in inputs,
               NEW x \in Range(received'[s][u]), x \in Range(received'[s][v])
        PROVE  u = v
    <3>1. CASE x = p
      BY <1>9, <1>15, <2>1, <3>1
    <3>2. CASE x # p
      <4>1. x \in Range(received[s][u]) /\ x \in Range(received[s][v])
        BY <1>15, <2>1, <3>2
      <4> QED BY <1>0, <4>1 DEF OnceInv
    <3> QED BY <3>1, <3>2
  <2>2. \A s \in Rank, u \in inputs : IsInjective(received'[s][u])
    BY <1>15
  <2> QED BY <1>0, <1>7, <2>1, <2>2 DEF OnceInv
<1>17. SoundInv'
  <2>1. ASSUME NEW s \in Rank, NEW u \in inputs, NEW x \in Range(received'[s][u])
        PROVE  Sound(s, x, u)
    <3>1. CASE x \in Range(received[s][u])
      BY <1>0, <3>1 DEF SoundInv
    <3>2. CASE x \notin Range(received[s][u])
      BY <1>3, <1>15, <2>1, <3>2
    <3> QED BY <3>1, <3>2
  <2>2. \A s \in Rank : result'[s].pkg # NoPackage =>
          Sound(s, result'[s].pkg, result'[s].type)
    BY <1>0, <1>5, <1>12 DEF SoundInv
  <2> QED BY <1>0, <1>7, <2>1, <2>2 DEF SoundInv, Sound
<1>18. PlaceInv'
  <2>1. ASSUME NEW x \in Package, x # p, NEW l \in Kind, NEW s \in Rank
        PROVE  In(l, s, x)' <=> In(l, s, x)
    <3>1. x # NoPackage
      BY CtAssumption
    <3>2. (\E u \in inputs : x \in Range(received'[s][u]))
            <=> (\E u \in inputs : x \in Range(received[s][u]))
      BY <1>15, <2>1
    <3>3. result'[s].pkg = x <=> result[s].pkg = x
      BY <1>1, <1>5, <1>12, <2>1, <3>1
    <3> QED BY <1>7, <3>2, <3>3 DEF In
  <2>2. ASSUME NEW l \in Kind, NEW s \in Rank
        PROVE  In(l, s, p)' <=> (l = "received" /\ s = r)
    <3>1. (\E u \in inputs : p \in Range(received'[s][u])) <=> s = r
      BY <1>9, <1>15
    <3>2. result'[s].pkg # p
      <4>1. result[s].pkg = p => s = r
        BY <1>8 DEF In, Kind
      <4> QED BY <1>3, <1>5, <1>12, <4>1
    <3>3. l \notin {"received", "result"} => ~ In(l, s, p)'
      <4>1. l \notin {"received", "result"} => (In(l, s, p)' <=> In(l, s, p))
        BY <1>7 DEF In
      <4> QED BY <1>8, <4>1
    <3> QED BY <1>7, <3>1, <3>2, <3>3 DEF In
  <2>3. "received" \in Kind
    BY DEF Kind
  <2> QED BY <1>0, <1>1, <2>1, <2>2, <2>3, MovePlace
<1> QED BY <1>13, <1>14, <1>16, <1>17, <1>18 DEF CtInv

(* The execution of what has been received.                                  *)
LEMMA ExecReceivedStep ==
  ASSUME CtInv, NEW r \in Rank, ExecReceived(r)
  PROVE  CtInv'
<1>0. CtTypeOK /\ HandsInv /\ OnceInv /\ SoundInv /\ PlaceInv
  BY DEF CtInv
<1>1. PICK t \in inputs :
        /\ received[r][t] # <<>>
        /\ received' = [received EXCEPT ![r][t] = Tail(@)]
        /\ executed' = executed \cup
             {[rank |-> r, pkg |-> Head(received[r][t]), type |-> t]}
  BY DEF ExecReceived
<1>2. PICK q \in Seq(Package) : q = received[r][t]
  BY <1>0 DEF CtTypeOK
<1>3. /\ Head(q) \in Package /\ Head(q) \in Range(q) /\ Tail(q) \in Seq(Package)
      /\ IsInjective(Tail(q)) /\ Range(Tail(q)) = Range(q) \ {Head(q)}
  BY <1>0, <1>1, <1>2, TailOnce DEF OnceInv
<1>4. PICK p \in Package : p = Head(q)
  BY <1>3
<1>5. PICK e \in Item : e = [rank |-> r, pkg |-> p, type |-> t]
  BY <1>0, Typed DEF Item, CtTypeOK
<1>6. e.rank = r /\ e.pkg = p /\ e.type = t /\ Sound(r, p, t)
  BY <1>0, <1>2, <1>3, <1>4, <1>5 DEF SoundInv
<1>7. /\ received' = [received EXCEPT ![r][t] = Tail(q)]
      /\ executed' = executed \cup {e}
      /\ UNCHANGED <<unsent, inputs, aborted, token, worker, packageQueue, signalled,
                     canTerminate, progress, network, dpc>>
  BY <1>1, <1>2, <1>4, <1>5 DEF ExecReceived, Running
<1>8. \A l \in Kind, s \in Rank : In(l, s, p) => l = "received" /\ s = r
  <2>1. In("received", r, p) /\ "received" \in Kind
    BY <1>2, <1>3, <1>4 DEF In, Kind
  <2> QED BY <1>0, <2>1, OnlyPlace
<1>9. \A x \in executed : x.pkg # p
  <2>1. ASSUME NEW x \in executed, x.pkg = p
        PROVE  FALSE
    <3>1. x.rank \in Rank
      BY <1>0 DEF CtTypeOK, Item
    <3>2. In("executed", x.rank, p) /\ "executed" \in Kind
      BY <2>1 DEF In, Kind
    <3> QED BY <1>8, <3>1, <3>2
  <2> QED BY <2>1
<1>10. /\ received'[r][t] = Tail(q)
       /\ \A u \in inputs : u # t => received'[r][u] = received[r][u]
       /\ \A s \in Rank : s # r => received'[s] = received[s]
       /\ received' \in [Rank -> [inputs -> Seq(Package)]]
  BY <1>0, <1>3, <1>7 DEF CtTypeOK
<1>11. CtTypeOK'
  BY <1>0, <1>7, <1>10 DEF CtTypeOK
<1>12. HandsInv'
  BY <1>0, <1>7 DEF HandsInv
<1>13. ASSUME NEW s \in Rank, NEW u \in inputs
       PROVE  /\ IsInjective(received'[s][u])
              /\ Range(received'[s][u]) =
                   IF s = r /\ u = t THEN Range(received[s][u]) \ {p}
                                     ELSE Range(received[s][u])
  BY <1>0, <1>2, <1>3, <1>4, <1>10 DEF OnceInv
<1>14. \A s \in Rank, u \in inputs : p \notin Range(received'[s][u])
  <2>1. \A s \in Rank, u \in inputs : p \in Range(received[s][u]) => s = r
    BY <1>8 DEF In, Kind
  <2>2. \A u \in inputs : p \in Range(received[r][u]) => u = t
    BY <1>0, <1>2, <1>3, <1>4 DEF OnceInv
  <2> QED BY <1>13, <2>1, <2>2
<1>15. OnceInv'
  <2>1. \A x, y \in executed' : x.pkg = y.pkg => x = y
    BY <1>0, <1>6, <1>7, <1>9 DEF OnceInv
  <2>2. ASSUME NEW s \in Rank, NEW u \in inputs, NEW v \in inputs,
               NEW x \in Range(received'[s][u]), x \in Range(received'[s][v])
        PROVE  u = v
    <3>1. x \in Range(received[s][u]) /\ x \in Range(received[s][v])
      BY <1>13, <2>2
    <3> QED BY <1>0, <3>1 DEF OnceInv
  <2>3. \A s \in Rank, u \in inputs : IsInjective(received'[s][u])
    BY <1>13
  <2> QED BY <1>0, <1>7, <2>1, <2>2, <2>3 DEF OnceInv
<1>16. SoundInv'
  <2>1. ASSUME NEW s \in Rank, NEW u \in inputs, NEW x \in Range(received'[s][u])
        PROVE  Sound(s, x, u)
    <3>1. x \in Range(received[s][u])
      BY <1>13, <2>1
    <3> QED BY <1>0, <3>1 DEF SoundInv
  <2>2. \A x \in executed' : Sound(x.rank, x.pkg, x.type)
    BY <1>0, <1>6, <1>7 DEF SoundInv
  <2> QED BY <1>0, <1>7, <2>1, <2>2 DEF SoundInv, Sound
<1>17. PlaceInv'
  <2>1. ASSUME NEW x \in Package, x # p, NEW l \in Kind, NEW s \in Rank
        PROVE  In(l, s, x)' <=> In(l, s, x)
    <3>1. (\E u \in inputs : x \in Range(received'[s][u]))
            <=> (\E u \in inputs : x \in Range(received[s][u]))
      BY <1>13, <2>1
    <3>2. (\E y \in executed' : y.pkg = x /\ y.rank = s)
            <=> (\E y \in executed : y.pkg = x /\ y.rank = s)
      BY <1>6, <1>7, <2>1
    <3> QED BY <1>7, <3>1, <3>2 DEF In
  <2>2. ASSUME NEW l \in Kind, NEW s \in Rank
        PROVE  In(l, s, p)' <=> (l = "executed" /\ s = r)
    <3>1. (\E y \in executed' : y.pkg = p /\ y.rank = s) <=> s = r
      BY <1>6, <1>7, <1>9
    <3>2. l \notin {"received", "executed"} => ~ In(l, s, p)'
      <4>1. l \notin {"received", "executed"} => (In(l, s, p)' <=> In(l, s, p))
        BY <1>7 DEF In
      <4> QED BY <1>8, <4>1
    <3> QED BY <1>7, <1>14, <3>1, <3>2 DEF In
  <2>3. "executed" \in Kind
    BY DEF Kind
  <2> QED BY <1>0, <2>1, <2>2, <2>3, MovePlace
<1> QED BY <1>11, <1>12, <1>15, <1>16, <1>17 DEF CtInv

-----------------------------------------------------------------------------
(* The number of copies of a package *)

LEMMA OneCopy ==
  ASSUME CtInv, NEW p \in Package
  PROVE  Copies(p) = 1
<1>0. OnceInv /\ OnePlace(p) /\ CtTypeOK
  BY DEF CtInv, PlaceInv
<1>1. PICK k \in Kind, r \in Rank :
        In(k, r, p) /\ \A l \in Kind, s \in Rank : In(l, s, p) => l = k /\ s = r
  BY <1>0 DEF OnePlace
<1>2. Cardinality({r}) = 1 /\ Cardinality({}) = 0
  BY FS_Singleton, FS_EmptySet
<1>3. (IF p \in unsent THEN 1 ELSE 0) = IF k = "unsent" THEN 1 ELSE 0
  <2>1. p \in unsent => k = "unsent"
    BY <1>1, CtAssumption DEF In, Kind
  <2>2. k = "unsent" => p \in unsent
    BY <1>1 DEF In
  <2> QED BY <2>1, <2>2
<1>4. Cardinality({s \in Rank : hold[s] = p}) = IF k = "hold" THEN 1 ELSE 0
  <2>1. {s \in Rank : hold[s] = p} = IF k = "hold" THEN {r} ELSE {}
    BY <1>1 DEF In, Kind
  <2> QED BY <1>2, <2>1
<1>5. Cardinality({s \in Rank : p \in Range(packageQueue[s])}) = IF k = "queue" THEN 1 ELSE 0
  <2>1. {s \in Rank : p \in Range(packageQueue[s])} = IF k = "queue" THEN {r} ELSE {}
    BY <1>1 DEF In, Kind
  <2> QED BY <1>2, <2>1
<1>6. Cardinality({s \in Rank : p \in wire[s]}) = IF k = "wire" THEN 1 ELSE 0
  <2>1. {s \in Rank : p \in wire[s]} = IF k = "wire" THEN {r} ELSE {}
    BY <1>1 DEF In, Kind
  <2> QED BY <1>2, <2>1
<1>7. Cardinality({s \in Rank : p \in Range(rndvQueue[s])}) = IF k = "rndv" THEN 1 ELSE 0
  <2>1. {s \in Rank : p \in Range(rndvQueue[s])} = IF k = "rndv" THEN {r} ELSE {}
    BY <1>1 DEF In, Kind
  <2> QED BY <1>2, <2>1
<1>8. Cardinality({s \in Rank : result[s].pkg = p}) = IF k = "result" THEN 1 ELSE 0
  <2>1. {s \in Rank : result[s].pkg = p} = IF k = "result" THEN {r} ELSE {}
    BY <1>1 DEF In, Kind
  <2> QED BY <1>2, <2>1
<1> DEFINE Slots(s, t) ==
      {<<s, t, i>> : i \in {j \in DOMAIN received[s][t] : received[s][t][j] = p}}
<1> DEFINE All == UNION {Slots(s, t) : s \in Rank, t \in inputs}
<1>9. Cardinality(All) = IF k = "received" THEN 1 ELSE 0
  <2>1. \A s \in Rank, t \in inputs : \A i \in DOMAIN received[s][t] :
          received[s][t][i] = p => k = "received" /\ s = r
    BY <1>1 DEF In, Kind, Range
  <2>2. CASE k = "received"
    <3>1. PICK t \in inputs : p \in Range(received[r][t])
      BY <1>1, <2>2 DEF In
    <3>2. PICK i \in DOMAIN received[r][t] : received[r][t][i] = p
      BY <3>1 DEF Range
    <3>3. <<r, t, i>> \in Slots(r, t)
      BY <3>2
    <3>4. \A s \in Rank, u \in inputs : \A x \in Slots(s, u) : x = <<r, t, i>>
      <4>1. \A u \in inputs : u # t => p \notin Range(received[r][u])
        BY <1>0, <3>1 DEF OnceInv
      <4>2. \A s \in Rank, u \in inputs : (s # r \/ u # t) => Slots(s, u) = {}
        BY <2>1, <4>1 DEF Range
      <4>3. \A j \in DOMAIN received[r][t] : received[r][t][j] = p => j = i
        BY <1>0, <3>2 DEF OnceInv, IsInjective
      <4>4. \A x \in Slots(r, t) : x = <<r, t, i>>
        BY <4>3
      <4> HIDE DEF Slots
      <4> QED BY <4>2, <4>4
    <3> HIDE DEF Slots
    <3>5. <<r, t, i>> \in All
      BY <3>3
    <3>6. \A x \in All : x = <<r, t, i>>
      BY <3>4
    <3> HIDE DEF All
    <3>7. All = {<<r, t, i>>}
      BY <3>5, <3>6
    <3> QED BY <2>2, <3>7, FS_Singleton
  <2>3. CASE k # "received"
    <3>1. \A s \in Rank, t \in inputs : Slots(s, t) = {}
      BY <2>1, <2>3
    <3> HIDE DEF Slots
    <3>2. All = {}
      BY <3>1
    <3> QED BY <1>2, <2>3, <3>2
  <2> QED BY <2>2, <2>3
<1>10. Cardinality({x \in executed : x.pkg = p}) = IF k = "executed" THEN 1 ELSE 0
  <2>1. \A x \in executed : x.pkg = p => k = "executed"
    <3>1. \A x \in executed : x.rank \in Rank
      BY <1>0 DEF CtTypeOK, Item
    <3> QED BY <1>1, <3>1 DEF In, Kind
  <2>2. CASE k = "executed"
    <3>1. PICK x \in executed : x.pkg = p
      BY <1>1, <2>2 DEF In
    <3>2. {y \in executed : y.pkg = p} = {x}
      BY <1>0, <3>1 DEF OnceInv
    <3> QED BY <2>2, <3>2, FS_Singleton
  <2>3. CASE k # "executed"
    <3>1. {y \in executed : y.pkg = p} = {}
      BY <2>1, <2>3
    <3> QED BY <1>2, <2>3, <3>1
  <2> QED BY <2>2, <2>3
<1>11. Copies(p) = (IF k = "unsent" THEN 1 ELSE 0) + (IF k = "hold" THEN 1 ELSE 0)
                     + (IF k = "queue" THEN 1 ELSE 0) + (IF k = "wire" THEN 1 ELSE 0)
                     + (IF k = "rndv" THEN 1 ELSE 0) + (IF k = "result" THEN 1 ELSE 0)
                     + (IF k = "received" THEN 1 ELSE 0)
                     + (IF k = "executed" THEN 1 ELSE 0)
  BY <1>3, <1>4, <1>5, <1>6, <1>7, <1>8, <1>9, <1>10 DEF Copies
<1> QED BY <1>11 DEF Kind

-----------------------------------------------------------------------------
(* The theorems *)

(* The invariant: types, what each thread holds, no repetitions, and one     *)
(* place for each package, for any number of ranks and packages.             *)
THEOREM CtInvariance == Spec => []CtInv
<1>1. Init => CtInv
  <2> SUFFICES ASSUME Init PROVE CtInv
    OBVIOUS
  <2>0. /\ Idle \in Call /\ Idle.pkg = NoPackage /\ Idle.at = "none"
        /\ \A S : <<>> \in Seq(S)
        /\ Range(<<>>) = {} /\ IsInjective(<<>>)
    BY DEF Idle, Call, Range, IsInjective
  <2>1. CtTypeOK
    BY <2>0 DEF Init, CtTypeOK, WorkerPC, ProgressPC
  <2>2. HandsInv
    BY <2>0 DEF Init, HandsInv
  <2>3. OnceInv
    BY <2>0 DEF Init, OnceInv
  <2>4. SoundInv
    BY <2>0 DEF Init, SoundInv
  <2>5. ASSUME NEW p \in Package
        PROVE  OnePlace(p)
    <3>1. \A k \in Kind, r \in Rank : In(k, r, p) <=> (k = "unsent" /\ r = Src[p])
      BY <2>0, CtAssumption DEF Init, In
    <3>2. "unsent" \in Kind /\ Src[p] \in Rank
      BY CtAssumption DEF Kind
    <3> QED BY <3>1, <3>2 DEF OnePlace
  <2> QED BY <2>1, <2>2, <2>3, <2>4, <2>5 DEF CtInv, PlaceInv
<1>2. CtInv /\ [Next]_vars => CtInv'
  <2> SUFFICES ASSUME CtInv, [Next]_vars PROVE CtInv'
    OBVIOUS
  <2>1. ASSUME NEW r \in Rank, ExecSend(r) \/ WorkerStep(r)
        PROVE  CtInv'
    BY <2>1, ExecSendStep, CommSendStep, ExecReceivedStep, StayStep DEF WorkerStep
  <2>2. ASSUME NEW r \in Rank, DestroyStep(r)
        PROVE  CtInv'
    BY <2>2, StayStep
  <2>3. ASSUME NEW r \in Rank, ProgressStep(r)
        PROVE  CtInv'
    <3>1. CASE Progress(r) /\ wire[r] # {}
      <4>1. PICK p \in wire[r] : Handle(r, p)
        BY <3>1 DEF Progress, Handle
      <4>2. /\ result[r] = Idle /\ ppc[r] = "top" /\ ppc' = [ppc EXCEPT ![r] = "check"]
            /\ UNCHANGED <<unsent, inputs, aborted, received, token, worker,
                           packageQueue, signalled, canTerminate, sending, fetched,
                           executed, dpc>>
        BY <3>1 DEF Progress, At, Running
      <4> QED BY <4>1, <4>2, HandleStep
    <3>2. CASE WaitProgress(r)
      <4>1. PICK p \in wire[r] : Handle(r, p)
        BY <3>2 DEF WaitProgress, Handle
      <4>2. /\ result[r] = Idle /\ ppc' = ppc
            /\ UNCHANGED <<unsent, inputs, aborted, received, token, worker,
                           packageQueue, signalled, canTerminate, sending, fetched,
                           executed, dpc>>
        BY <3>2 DEF WaitProgress, At, Running
      <4> QED BY <4>1, <4>2, HandleStep
    <3>3. CASE SendNext(r)
      BY <3>3, SendStep, StayStep
    <3>4. CASE ResultPush(r) \/ Receive(r)
      BY <3>4, ResultPushStep, ReceiveStep
    <3>5. CASE \/ ResultRelease(r) \/ NetworkWait(r) \/ Leave(r) \/ SendDone(r)
               \/ ResultAbort(r)
               \/ Progress(r) /\ wire[r] = {}
      BY <3>5, StayStep
    <3> QED BY <2>3, <3>1, <3>2, <3>3, <3>4, <3>5 DEF ProgressStep
  <2>4. CASE UNCHANGED vars
    <3>1. CtTypeOK'
      BY <2>4 DEF CtInv, CtTypeOK, vars
    <3>2. HandsInv'
      BY <2>4 DEF CtInv, HandsInv, vars
    <3> QED BY <2>4, <3>1, <3>2, StayInv DEF vars
  <2> QED BY <2>1, <2>2, <2>3, <2>4 DEF Next, Ended
<1> QED BY <1>1, <1>2, PTL DEF Spec

(* A package is never lost nor doubled between tu_comm_send and its          *)
(* execution, it is executed on the rank it was sent to, and an eager one    *)
(* with its own type.                                                        *)
THEOREM PackagesAreConserved == Spec => []Conserved
<1>1. CtInv => Conserved
  <2> SUFFICES ASSUME CtInv PROVE Conserved
    OBVIOUS
  <2>1. \A p \in Package : Copies(p) = 1
    BY OneCopy
  <2>2. \A x \in executed : Dest[x.pkg] = x.rank
                            /\ (x.pkg \notin Rendezvous => x.type = TypeOf[x.pkg])
    BY DEF CtInv, SoundInv, Sound
  <2> QED BY <2>1, <2>2 DEF Conserved
<1> QED BY <1>1, CtInvariance, PTL

-----------------------------------------------------------------------------
(* The failing assertion                                                   *)

(* A result of a type the node does not have is that of the rendezvous     *)
(* that was the last of its queue; only it ends the program.               *)
Foreign(r) == result[r].pkg # NoPackage /\ result[r].type \notin inputs

CauseInv ==
  /\ \A r \in Rank : Foreign(r) =>
       result[r].type = 0 /\ result[r].pkg \in Rendezvous /\ rndvQueue[r] = <<>>
  /\ aborted => \E r \in Rank : Foreign(r)

(* The steps after which a rank has the result it had, or none of another  *)
(* type than its inputs.                                                   *)
LEMMA CauseKept ==
  ASSUME CauseInv, UNCHANGED inputs, aborted' = FALSE,
         \A r \in Rank : \/ result'[r] = result[r] /\ rndvQueue'[r] = rndvQueue[r]
                         \/ ~ Foreign(r)'
  PROVE  CauseInv'
BY DEF CauseInv, Foreign

LEMMA CauseHandle ==
  ASSUME CtInv, CauseInv, NEW r \in Rank, NEW p \in wire[r], Handle(r, p),
         result[r] = Idle, UNCHANGED inputs, aborted' = FALSE
  PROVE  CauseInv'
<1>0. CtTypeOK
  BY DEF CtInv
<1>1. TypeOf[p] \in inputs /\ Idle.pkg = NoPackage
  BY <1>0, Typed DEF CtTypeOK, Idle
<1>2. CASE p \in Rendezvous
  <2>1. result' = result /\ \A s \in Rank : s # r => rndvQueue'[s] = rndvQueue[s]
    BY <1>0, <1>2 DEF Handle, CtTypeOK
  <2>2. ~ Foreign(r)'
    BY <1>1, <2>1 DEF Foreign
  <2> QED BY <2>1, <2>2, CauseKept
<1>3. CASE p \notin Rendezvous
  <2>1. rndvQueue' = rndvQueue /\ \A s \in Rank : s # r => result'[s] = result[s]
    BY <1>0, <1>3 DEF Handle, CtTypeOK
  <2>2. result'[r].type = TypeOf[p]
    BY <1>0, <1>3 DEF Handle, CtTypeOK
  <2>3. ~ Foreign(r)'
    BY <1>1, <2>2 DEF Foreign
  <2> QED BY <2>1, <2>3, CauseKept
<1> QED BY <1>2, <1>3

LEMMA CauseReceive ==
  ASSUME CtInv, CauseInv, NEW r \in Rank, Receive(r)
  PROVE  CauseInv'
<1>0. CtTypeOK /\ HandsInv /\ SoundInv
  BY DEF CtInv
<1>1. PICK q \in Seq(Package) : q = rndvQueue[r]
  BY <1>0 DEF CtTypeOK
<1>2. q # <<>> /\ UNCHANGED <<inputs, aborted>> /\ ~ aborted
  BY <1>0, <1>1 DEF HandsInv, Receive, At, Running
<1>3. /\ rndvQueue'[r] = Tail(q) /\ \A s \in Rank : s # r => rndvQueue'[s] = rndvQueue[s]
      /\ result'[r].pkg = Head(q) /\ result'[r].type = NextType(q)
      /\ \A s \in Rank : s # r => result'[s] = result[s]
  BY <1>0, <1>1 DEF Receive, CtTypeOK
<1>4. Head(q) \in Rendezvous
  <2>1. Head(q) \in Range(q)
    BY <1>1, <1>2 DEF Range
  <2> QED BY <1>0, <1>1, <2>1 DEF SoundInv
<1>5. NextType(q) \notin inputs => NextType(q) = 0 /\ Tail(q) = <<>>
  <2>1. CASE Len(q) > 1
    <3>1. q[2] \in Package
      BY <1>1, <2>1
    <3>2. NextType(q) \in inputs
      BY <1>0, <2>1, <3>1, Typed DEF NextType, CtTypeOK
    <3> QED BY <3>2
  <2>2. CASE ~ (Len(q) > 1)
    <3>1. Tail(q) = <<>>
      BY <1>1, <1>2, <2>2
    <3> QED BY <2>2, <3>1 DEF NextType
  <2> QED BY <2>1, <2>2
<1> QED BY <1>2, <1>3, <1>4, <1>5 DEF CauseInv, Foreign

LEMMA CauseStep ==
  ASSUME CtInv, CauseInv, [Next]_vars
  PROVE  CauseInv'
<1>0. CtTypeOK /\ HandsInv
  BY DEF CtInv
<1>1. ASSUME NEW r \in Rank, ResultPush(r) \/ ResultRelease(r)
      PROVE  CauseInv'
  <2>1. /\ UNCHANGED <<inputs, rndvQueue>> /\ aborted' = FALSE
        /\ \A s \in Rank : s # r => result'[s] = result[s]
    BY <1>0, <1>1 DEF ResultPush, ResultRelease, Running, CtTypeOK
  <2>2. result'[r].pkg = NoPackage
    BY <1>0, <1>1 DEF ResultPush, ResultRelease, CtTypeOK, Idle
  <2>3. ~ Foreign(r)'
    BY <2>2 DEF Foreign
  <2> QED BY <2>1, <2>3, CauseKept
<1>2. ASSUME NEW r \in Rank, ResultAbort(r)
      PROVE  CauseInv'
  <2>1. Foreign(r)
    BY <1>0, <1>2 DEF ResultAbort, HandsInv, Foreign
  <2>2. UNCHANGED <<inputs, result, rndvQueue>>
    BY <1>2 DEF ResultAbort
  <2> QED BY <2>1, <2>2 DEF CauseInv, Foreign
<1>3. ASSUME NEW r \in Rank, NEW p \in wire[r], Handle(r, p),
             Progress(r) \/ WaitProgress(r)
      PROVE  CauseInv'
  <2>1. result[r] = Idle /\ UNCHANGED inputs /\ aborted' = FALSE
    BY <1>0, <1>3 DEF Progress, WaitProgress, At, Running, CtTypeOK
  <2> QED BY <1>3, <2>1, CauseHandle
<1>4. ASSUME NEW r \in Rank,
             \/ ExecSend(r) \/ WorkerStep(r) \/ DestroyStep(r)
             \/ Progress(r) /\ wire[r] = {}
             \/ NetworkWait(r) \/ Leave(r) \/ SendNext(r) \/ SendDone(r)
      PROVE  CauseInv'
  <2>1. UNCHANGED <<inputs, result, rndvQueue>> /\ aborted' = FALSE
    <3>1. CASE ExecSend(r) \/ WorkerStep(r)
      BY <1>0, <3>1 DEF ExecSend, WorkerStep, Acquire, ExecReceived, ReceivedEmpty,
         CommSend, CommSignal, Running, CtTypeOK
    <3>2. CASE DestroyStep(r)
      BY <1>0, <3>2 DEF DestroyStep, Destroy, DestroySignal, Join, Running, CtTypeOK
    <3>3. CASE Progress(r) /\ wire[r] = {}
      BY <1>0, <3>3 DEF Progress, Handle, Running, CtTypeOK
    <3>4. CASE NetworkWait(r) \/ Leave(r) \/ SendNext(r) \/ SendDone(r)
      BY <1>0, <3>4 DEF NetworkWait, Leave, SendNext, SendDone, Running, CtTypeOK
    <3> QED BY <1>4, <3>1, <3>2, <3>3, <3>4
  <2> QED BY <2>1, CauseKept
<1>5. CASE UNCHANGED vars
  BY <1>5 DEF CauseInv, Foreign, vars
<1>6. ASSUME NEW r \in Rank, ProgressStep(r)
      PROVE  CauseInv'
  <2>1. CASE Progress(r) /\ wire[r] # {}
    <3>1. PICK p \in wire[r] : Handle(r, p)
      BY <2>1 DEF Progress, Handle
    <3> QED BY <1>3, <2>1, <3>1
  <2>2. CASE WaitProgress(r)
    <3>1. PICK p \in wire[r] : Handle(r, p)
      BY <2>2 DEF WaitProgress, Handle
    <3> QED BY <1>3, <2>2, <3>1
  <2> QED BY <1>1, <1>2, <1>4, <1>6, <2>1, <2>2, CauseReceive DEF ProgressStep
<1> QED BY <1>4, <1>5, <1>6 DEF Next, Ended

(* Nothing but the type of the last rendezvous of a queue makes the          *)
(* assertion of comm_progress_result fail: a package that was sent eagerly,  *)
(* or a rendezvous with another behind it, has an input on every rank.       *)
THEOREM OnlyLastTypeAborts == Spec => [](aborted => LastLostType)
<1>1. Init => CauseInv
  BY DEF Init, CauseInv, Foreign, Idle
<1>2. CtInv /\ CauseInv /\ [Next]_vars => CauseInv'
  BY CauseStep
<1>3. CauseInv => (aborted => LastLostType)
  <2> SUFFICES ASSUME CauseInv, aborted PROVE LastLostType
    OBVIOUS
  <2>1. PICK r \in Rank : Foreign(r)
    BY DEF CauseInv
  <2> QED BY <2>1 DEF CauseInv, Foreign, LastLostType
<1> QED BY <1>1, <1>2, <1>3, CtInvariance, PTL DEF Spec
=============================================================================
