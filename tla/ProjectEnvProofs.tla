-------------------------- MODULE ProjectEnvProofs ---------------------------
(***************************************************************************)
(* Theorems about ProjectEnv, for any number of daemons, connections and   *)
(* calls.                                                                  *)
(***************************************************************************)
EXTENDS ProjectEnv, FiniteSetTheorems, SequenceTheorems, TLAPS

USE PeersAssumption, ProjectEnvAssumption, NoneAssumption

N == Cardinality(PeerIDs)

LEMMA NIsNat == N \in Nat
BY FS_CardinalityType DEF N

LEMMA ListFacts ==
  ASSUME NEW q \in Lists
  PROVE  /\ q \in Seq(PeerIDs) /\ Len(q) \in 0..N /\ DOMAIN q = 1..Len(q)
         /\ \A i \in 1..Len(q) : q[i] \in PeerIDs
         /\ \A i, j \in 1..Len(q) : q[i] = q[j] => i = j
<1>1. PICK n \in 0..N : q \in [1..n -> PeerIDs] /\ IsInjective(q)
  BY DEF Lists, N
<1>2. q \in Seq(PeerIDs) /\ Len(q) = n
  BY <1>1, NIsNat
<1>3. QED
  BY <1>1, <1>2, NIsNat DEF IsInjective

LEMMA SeqIsList ==
  ASSUME NEW q \in Seq(PeerIDs), Len(q) <= N, \A i, j \in 1..Len(q) : q[i] = q[j] => i = j
  PROVE  q \in Lists
<1>1. Len(q) \in 0..N /\ q \in [1..Len(q) -> PeerIDs] /\ DOMAIN q = 1..Len(q)
  BY NIsNat
<1>2. IsInjective(q)
  BY <1>1 DEF IsInjective
<1>3. QED
  BY <1>1, <1>2 DEF Lists, N

LEMMA EmptyList == <<>> \in Lists /\ Len(<<>>) = 0
<1>1. <<>> \in Seq(PeerIDs) /\ Len(<<>>) = 0
  BY EmptySeq
<1>2. Len(<<>>) <= N /\ \A i, j \in 1..Len(<<>>) : <<>>[i] = <<>>[j] => i = j
  BY <1>1, NIsNat
<1>3. QED
  BY <1>1, <1>2, SeqIsList

(* A list grows by an element that is not in it.                           *)
LEMMA AppendFacts ==
  ASSUME NEW q \in Lists, NEW p \in PeerIDs, Len(q) < N, \A i \in 1..Len(q) : q[i] # p
  PROVE  /\ Append(q, p) \in Lists /\ Len(Append(q, p)) = Len(q) + 1
         /\ \A i \in 1..Len(q) : Append(q, p)[i] = q[i]
         /\ Append(q, p)[Len(q) + 1] = p
<1>1. q \in Seq(PeerIDs) /\ Len(q) \in Nat /\ \A i, j \in 1..Len(q) : q[i] = q[j] => i = j
  BY ListFacts, NIsNat
<1>2. /\ Append(q, p) \in Seq(PeerIDs) /\ Len(Append(q, p)) = Len(q) + 1
      /\ \A i \in 1..Len(q) : Append(q, p)[i] = q[i]
      /\ Append(q, p)[Len(q) + 1] = p
  BY <1>1, AppendProperties
<1>3. \A i \in 1..Len(q) + 1 : i \in 1..Len(q) \/ i = Len(q) + 1
  BY <1>1
<1>4. \A i, j \in 1..Len(Append(q, p)) : Append(q, p)[i] = Append(q, p)[j] => i = j
  BY <1>1, <1>2, <1>3
<1>5. Len(Append(q, p)) <= N
  BY <1>1, <1>2, NIsNat
<1>6. Append(q, p) \in Lists
  BY <1>2, <1>4, <1>5, SeqIsList
<1>7. QED
  BY <1>2, <1>6

-----------------------------------------------------------------------------
(* The active peers.                                                       *)

LEMMA PeersStepFacts ==
  ASSUME PeersTypeOK, NoGhosts, PeersNext \/ UNCHANGED peerVars
  PROVE  PeersTypeOK' /\ NoGhosts'
<1>1. CASE UNCHANGED peerVars
  BY <1>1 DEF peerVars, PeersTypeOK, NoGhosts
<1>2. ASSUME NEW n \in Conns, Connected(n) PROVE PeersTypeOK' /\ NoGhosts'
  BY <1>2 DEF Connected, PeersTypeOK, NoGhosts
<1>3. ASSUME NEW n \in Conns, CloseConn(n) PROVE PeersTypeOK' /\ NoGhosts'
  BY <1>3 DEF CloseConn, PeersTypeOK, NoGhosts
<1>4. ASSUME NEW n \in Conns, Disconnected(n) PROVE PeersTypeOK' /\ NoGhosts'
  BY <1>4 DEF Disconnected, PeersTypeOK, NoGhosts
<1>5. QED
  BY <1>1, <1>2, <1>3, <1>4 DEF PeersNext

-----------------------------------------------------------------------------
(* Types.                                                                  *)

(* A call that has not begun its loop has made no list.                     *)
Fresh == \A a \in Calls : pc[a] \in {"idle", "connecting", "dialing"} => next[a] = 1 /\ ready[a] = <<>>

(* The executors a call counts are different ones of its own, met before.   *)
Listed ==
  \A a \in Calls :
    /\ Len(ready[a]) < next[a]
    /\ \A j \in 1..Len(ready[a]) :
         \E i \in 1..Len(executors[a]) : i < next[a] /\ ready[a][j] = executors[a][i]

TypeInv == TypeOK /\ Fresh /\ Listed

(* Steps of a call that leave its loop alone.                               *)
LEMMA LoopFrame ==
  ASSUME TypeInv, NEW a \in Calls, NEW place, Goto(a, place),
         UNCHANGED <<next, ready>>,
         pc[a] \in {"idle", "connecting", "dialing"} \/ place \notin {"idle", "connecting", "dialing"},
         \A b \in Calls : executors'[b] = executors[b] \/ ready[b] = <<>>
  PROVE  Fresh' /\ Listed'
<1>1. Fresh'
  BY DEF TypeInv, TypeOK, Fresh, Goto
<1>2. ASSUME NEW b \in Calls
      PROVE  /\ Len(ready[b]) < next[b]
             /\ \A j \in 1..Len(ready[b]) :
                  \E i \in 1..Len(executors'[b]) : i < next[b] /\ ready[b][j] = executors'[b][i]
  <2>1. CASE executors'[b] = executors[b]
    BY <1>2, <2>1 DEF TypeInv, Listed
  <2>2. CASE ready[b] = <<>>
    BY <1>2, <2>2, EmptyList DEF TypeInv, Listed
  <2>3. QED
    BY <2>1, <2>2
<1>3. Listed'
  BY <1>2 DEF Listed
<1>4. QED
  BY <1>1, <1>3

LEMMA PrepareStep ==
  ASSUME TypeInv, NEW a \in Inits, PrepareEnvironments(a)
  PROVE  TypeInv'
<1> DEFINE i == next[a]
           p == conns[a][i]
<1> USE DEF Calls
<1>1. /\ conns[a] \in Lists /\ executors[a] \in Lists /\ ready[a] \in Lists
      /\ i \in 1..N + 1 /\ i <= Len(conns[a]) /\ Len(conns[a]) \in 0..N /\ p \in PeerIDs
      /\ Len(executors[a]) \in 0..N /\ pc[a] = "calling" /\ Len(ready[a]) < i
      /\ Len(ready[a]) \in Nat
  BY ListFacts, NIsNat DEF TypeInv, TypeOK, Listed, PrepareEnvironments, N
<1>2. /\ env' \in [PeerIDs -> {"none", "bare", "ready", "stuck"}]
      /\ daemon' \in {"up", "panicked", "fatal"}
  <2>1. PICK outcome \in {"ok"} \cup (Faulty \ {"umount"}) :
          env' = IF outcome \in DOMAIN Prepared THEN [env EXCEPT ![p] = Prepared[outcome]] ELSE env
    BY DEF PrepareEnvironments
  <2>2. outcome \in DOMAIN Prepared => Prepared[outcome] \in {"ready", "bare"}
    BY DEF Prepared
  <2>3. env' \in [PeerIDs -> {"none", "bare", "ready", "stuck"}]
    BY <2>1, <2>2 DEF TypeInv, TypeOK
  <2>4. QED
    BY <2>3 DEF PrepareEnvironments, TypeInv, TypeOK, Die
<1>3. UNCHANGED <<peerVars, projectToExecutors, grpcClients, pc, executors, conns, sent>>
  BY DEF PrepareEnvironments, Handles
<1>4. CASE UNCHANGED <<next, ready>>
  BY <1>2, <1>3, <1>4
  DEF TypeInv, TypeOK, Fresh, Listed, peerVars, PeersTypeOK
<1>5. CASE i <= Len(executors[a]) /\ next' = [next EXCEPT ![a] = i + 1] /\ ready' \in {ready, ReadyWith(a, i)}
  <2>1. next' \in [Calls -> 1..N + 1]
    <3>1. next \in [Calls -> 1..N + 1]
      BY DEF TypeInv, TypeOK, N
    <3>2. i + 1 \in 1..N + 1
      BY <1>1, <1>5, NIsNat
    <3>3. QED
      BY <1>5, <3>1, <3>2
  <2>2. Fresh'
    BY <1>1, <1>3, <1>5 DEF TypeInv, TypeOK, Fresh, ReadyWith
  <2>3. /\ ready'[a] \in Lists
        /\ Len(ready'[a]) < next'[a]
        /\ \A j \in 1..Len(ready'[a]) :
             \E k \in 1..Len(executors[a]) : k < next'[a] /\ ready'[a][j] = executors[a][k]
    <3>1. next'[a] = i + 1
      BY <1>5 DEF TypeInv, TypeOK
    <3>2. CASE ready' = ready
      <4>1. \A j \in 1..Len(ready[a]) :
              \E k \in 1..Len(executors[a]) : k < i /\ ready[a][j] = executors[a][k]
        BY DEF TypeInv, Listed
      <4>2. i < i + 1 /\ \A k \in 1..Len(executors[a]) : k < i => k < i + 1
        BY <1>1
      <4>3. Len(ready[a]) < i + 1 /\ ready[a] \in Lists
        BY <1>1
      <4>4. QED
        BY <3>1, <3>2, <4>1, <4>2, <4>3
    <3>3. CASE ready' = ReadyWith(a, i)
      <4> DEFINE e == executors[a][i]
      <4>1. ready'[a] = Append(ready[a], e)
        BY <3>3 DEF ReadyWith, TypeInv, TypeOK
      <4>2. e \in PeerIDs /\ Len(ready[a]) < N /\ i \in 1..Len(executors[a])
        BY <1>1, <1>5, ListFacts, NIsNat
      <4>3. \A j \in 1..Len(ready[a]) :
              \E k \in 1..Len(executors[a]) : k < i /\ ready[a][j] = executors[a][k]
        BY DEF TypeInv, Listed
      <4>4. \A j \in 1..Len(ready[a]) : ready[a][j] # e
        BY <4>2, <4>3, <1>1, ListFacts
      <4>5. /\ Append(ready[a], e) \in Lists /\ Len(Append(ready[a], e)) = Len(ready[a]) + 1
            /\ \A j \in 1..Len(ready[a]) : Append(ready[a], e)[j] = ready[a][j]
            /\ Append(ready[a], e)[Len(ready[a]) + 1] = e
        BY <4>2, <4>4, <1>1, AppendFacts
      <4>6. \A j \in 1..Len(ready[a]) + 1 : j \in 1..Len(ready[a]) \/ j = Len(ready[a]) + 1
        BY <1>1
      <4>7. \A k \in 1..Len(executors[a]) : k < i => k < i + 1
        BY <1>1
      <4>8. i < i + 1 /\ Len(ready[a]) + 1 < i + 1
        BY <1>1
      <4>9. ready'[a] \in Lists /\ Len(ready'[a]) < next'[a]
        BY <4>1, <4>5, <4>8, <3>1
      <4>10. ASSUME NEW j \in 1..Len(ready'[a])
             PROVE  \E k \in 1..Len(executors[a]) : k < next'[a] /\ ready'[a][j] = executors[a][k]
        <5>1. CASE j \in 1..Len(ready[a])
          BY <5>1, <4>1, <4>3, <4>5, <4>7, <3>1
        <5>2. CASE j = Len(ready[a]) + 1
          BY <5>2, <4>1, <4>2, <4>5, <4>8, <3>1
        <5>3. QED
          BY <5>1, <5>2, <4>1, <4>5, <4>6
      <4>11. QED
        BY <4>9, <4>10
    <3>4. QED
      BY <3>2, <3>3, <1>5
  <2>4. \A b \in Calls : b # a => ready'[b] = ready[b] /\ next'[b] = next[b]
    BY <1>5 DEF ReadyWith, TypeInv, TypeOK
  <2>5. Listed'
    BY <1>3, <2>3, <2>4 DEF TypeInv, Listed
  <2>6. ready' \in [Calls -> Lists]
    BY <1>5, <2>3 DEF ReadyWith, TypeInv, TypeOK
  <2>7. QED
    BY <1>2, <1>3, <2>1, <2>2, <2>5, <2>6 DEF TypeInv, TypeOK, N, peerVars, PeersTypeOK
<1>6. QED
  BY <1>1, <1>4, <1>5, NIsNat DEF PrepareEnvironments

LEMMA TypeStep ==
  ASSUME TypeInv, NoGhosts, [Next]_vars
  PROVE  TypeInv' /\ NoGhosts'
<1> USE DEF Calls
<1>1. CASE UNCHANGED vars
  BY <1>1 DEF vars, local, peerVars, TypeInv, TypeOK, Fresh, Listed, PeersTypeOK, NoGhosts
<1>2. CASE PeersStep
  <2>1. PeersTypeOK' /\ NoGhosts'
    BY <1>2, PeersStepFacts DEF PeersStep, TypeInv, TypeOK
  <2>2. QED
    BY <1>2, <2>1 DEF PeersStep, local, TypeInv, TypeOK, Fresh, Listed
<1>3. ASSUME Handles PROVE PeersTypeOK' /\ NoGhosts'
  BY <1>3 DEF Handles, peerVars, TypeInv, TypeOK, PeersTypeOK, NoGhosts
<1>4. ASSUME NEW a \in Calls, LoadConns(a) PROVE TypeInv' /\ NoGhosts'
  <2>1. PICK place \in {"dialing", "calling"} : Goto(a, place)
    BY <1>4 DEF LoadConns
  <2>2. Fresh' /\ Listed'
    BY <1>4, <2>1, LoopFrame DEF LoadConns
  <2>3. TypeOK'
    BY <1>3, <1>4 DEF LoadConns, Goto, TypeInv, TypeOK
  <2>4. QED
    BY <1>3, <1>4, <2>2, <2>3 DEF LoadConns, TypeInv
<1>5. ASSUME NEW a \in Calls, StoreConns(a) PROVE TypeInv' /\ NoGhosts'
  <2>1. Fresh' /\ Listed'
    BY <1>5, LoopFrame DEF StoreConns
  <2>2. TypeOK'
    BY <1>3, <1>5 DEF StoreConns, Goto, TypeInv, TypeOK
  <2>3. QED
    BY <1>3, <1>5, <2>1, <2>2 DEF StoreConns, TypeInv
<1>6. ASSUME NEW a \in Inits, InitializeBuildEnv(a) PROVE TypeInv' /\ NoGhosts'
  <2>1. pc[a] = "idle" /\ ready[a] = <<>>
    BY <1>6 DEF InitializeBuildEnv, MayInitialize, TypeInv, Fresh
  <2>2. PICK picked \in Lists, place \in {"failed", "connecting"} :
          Goto(a, place) /\ executors' \in {executors, [executors EXCEPT ![a] = picked]}
    BY <1>6 DEF InitializeBuildEnv, PickActiveExecutors
  <2>3. \A b \in Calls : executors'[b] = executors[b] \/ ready[b] = <<>>
    BY <2>1, <2>2 DEF TypeInv, TypeOK
  <2>4. Fresh' /\ Listed'
    BY <1>6, <2>1, <2>2, <2>3, LoopFrame DEF InitializeBuildEnv
  <2>5. TypeOK'
    BY <1>3, <1>6, <2>2 DEF InitializeBuildEnv, Goto, TypeInv, TypeOK
  <2>6. QED
    BY <1>3, <1>6, <2>4, <2>5 DEF InitializeBuildEnv, TypeInv
<1>7. ASSUME NEW a \in Inits, PrepareEnvironments(a) PROVE TypeInv' /\ NoGhosts'
  BY <1>3, <1>7, PrepareStep DEF PrepareEnvironments
<1>8. ASSUME NEW a \in Inits, EnvironmentsPrepared(a) PROVE TypeInv' /\ NoGhosts'
  <2>1. PICK place \in {"failed", "ok"} : Goto(a, place)
    BY <1>8 DEF EnvironmentsPrepared
  <2>2. Fresh' /\ Listed'
    BY <1>8, <2>1, LoopFrame DEF EnvironmentsPrepared, local
  <2>3. TypeOK'
    BY <1>3, <1>8 DEF EnvironmentsPrepared, Goto, local, TypeInv, TypeOK
  <2>4. QED
    BY <1>3, <1>8, <2>2, <2>3 DEF EnvironmentsPrepared, TypeInv
<1>9. ASSUME NEW a \in Forwards \cup Clears, Handles, pc[a] = "idle", LoadExecutors(a)
      PROVE  TypeInv' /\ NoGhosts'
  <2>1. ready[a] = <<>>
    BY <1>9 DEF TypeInv, Fresh
  <2>2. PICK place \in {"refused", "connecting"} :
          /\ Goto(a, place)
          /\ \/ executors' = executors
             \/ projectToExecutors # None /\ executors' = [executors EXCEPT ![a] = projectToExecutors]
    BY <1>9 DEF LoadExecutors
  <2>3. \A b \in Calls : executors'[b] = executors[b] \/ ready[b] = <<>>
    BY <2>1, <2>2 DEF TypeInv, TypeOK
  <2>4. Fresh' /\ Listed'
    BY <1>9, <2>2, <2>3, LoopFrame DEF LoadExecutors
  <2>5. TypeOK'
    BY <1>3, <1>9, <2>2 DEF LoadExecutors, Goto, TypeInv, TypeOK
  <2>6. QED
    BY <1>3, <1>9, <2>4, <2>5 DEF TypeInv
<1>10. ASSUME NEW a \in Forwards, TryExecuteWithRetry(a) PROVE TypeInv' /\ NoGhosts'
  <2>1. CASE UNCHANGED <<pc, sent>>
    BY <1>3, <1>10, <2>1
    DEF TryExecuteWithRetry, Die, local, TypeInv, TypeOK, Fresh, Listed
  <2>2. CASE Goto(a, "ok") /\ Len(executors[a]) <= Len(conns[a])
             /\ sent' = sent \cup {<<executors[a][i], conns[a][i]>> : i \in DOMAIN executors[a]}
             /\ UNCHANGED daemon
    <3>1. Fresh' /\ Listed'
      BY <1>10, <2>2, LoopFrame DEF TryExecuteWithRetry, local
    <3>2. executors[a] \in Lists /\ conns[a] \in Lists
      BY DEF TypeInv, TypeOK
    <3>3. \A i \in DOMAIN executors[a] : executors[a][i] \in PeerIDs /\ conns[a][i] \in PeerIDs
      BY <2>2, <3>2, ListFacts, NIsNat
    <3>4. sent' \subseteq PeerIDs \X PeerIDs
      BY <2>2, <3>3 DEF TypeInv, TypeOK
    <3>5. TypeOK'
      BY <1>3, <1>10, <2>2, <3>4 DEF TryExecuteWithRetry, Goto, local, TypeInv, TypeOK
    <3>6. QED
      BY <1>3, <1>10, <3>1, <3>5 DEF TryExecuteWithRetry, TypeInv
  <2>3. QED
    <3>1. Len(executors[a]) \in Nat /\ Len(conns[a]) \in Nat
      BY ListFacts, NIsNat DEF TypeInv, TypeOK
    <3>2. QED
      BY <1>10, <2>1, <2>2, <3>1 DEF TryExecuteWithRetry
<1>11. ASSUME NEW a \in Clears, CleanupEnvironments(a) PROVE TypeInv' /\ NoGhosts'
  <2>1. /\ next[a] \in 1..N + 1 /\ next[a] <= Len(conns[a]) /\ Len(conns[a]) \in 0..N
        /\ pc[a] = "calling" /\ \A b \in Calls : next[b] \in Nat /\ Len(ready[b]) \in Nat
    BY <1>11, ListFacts, NIsNat DEF CleanupEnvironments, TypeInv, TypeOK, N
  <2>2. next' \in {next, [next EXCEPT ![a] = next[a] + 1]}
    BY <1>11 DEF CleanupEnvironments
  <2>3. /\ \A b \in Calls : next'[b] = IF b = a THEN next'[a] ELSE next[b]
        /\ next'[a] \in {next[a], next[a] + 1}
    BY <2>2 DEF TypeInv, TypeOK
  <2>4. next' \in [Calls -> 1..N + 1]
    <3>1. next \in [Calls -> 1..N + 1]
      BY DEF TypeInv, TypeOK, N
    <3>2. next[a] + 1 \in 1..N + 1
      BY <2>1, NIsNat
    <3>3. QED
      BY <2>2, <3>1, <3>2
  <2>5. TypeOK'
    <3>1. /\ env' \in [PeerIDs -> {"none", "bare", "ready", "stuck"}]
          /\ daemon' \in {"up", "panicked", "fatal"}
      BY <1>11 DEF CleanupEnvironments, Die, TypeInv, TypeOK
    <3>2. UNCHANGED <<projectToExecutors, grpcClients, pc, executors, conns, ready, sent>> /\ Handles
      BY <1>11 DEF CleanupEnvironments
    <3>3. QED
      BY <1>3, <2>4, <3>1, <3>2 DEF TypeInv, TypeOK, N
  <2>6. Fresh'
    BY <1>11, <2>1, <2>3 DEF CleanupEnvironments, TypeInv, Fresh
  <2>7. ASSUME NEW b \in Calls
        PROVE  /\ Len(ready[b]) < next'[b]
               /\ \A j \in 1..Len(ready[b]) :
                    \E i \in 1..Len(executors[b]) : i < next'[b] /\ ready[b][j] = executors[b][i]
    <3>1. \A m \in Nat : m < next[b] => m < next'[b]
      BY <2>1, <2>3
    <3>2. Len(executors[b]) \in Nat
      BY ListFacts, NIsNat DEF TypeInv, TypeOK
    <3>3. QED
      BY <2>1, <3>1, <3>2 DEF TypeInv, Listed
  <2>8. Listed'
    BY <1>11, <2>7 DEF CleanupEnvironments, Listed
  <2>9. QED
    BY <1>3, <1>11, <2>5, <2>6, <2>8 DEF CleanupEnvironments, TypeInv
<1>12. ASSUME NEW a \in Clears, EnvironmentsCleaned(a) \/ ForgetExecutors(a) \/ DropConns(a)
       PROVE  TypeInv' /\ NoGhosts'
  <2>1. PICK place \in {"forgetting", "dropping", "ok"} : Goto(a, place)
    BY <1>12 DEF EnvironmentsCleaned, ForgetExecutors, DropConns
  <2>2. Fresh' /\ Listed'
    BY <1>12, <2>1, LoopFrame DEF EnvironmentsCleaned, ForgetExecutors, DropConns, local
  <2>3. TypeOK'
    BY <1>3, <1>12 DEF EnvironmentsCleaned, ForgetExecutors, DropConns, Goto, local, TypeInv, TypeOK
  <2>4. QED
    BY <1>3, <1>12, <2>2, <2>3 DEF EnvironmentsCleaned, ForgetExecutors, DropConns, TypeInv
<1>13. ASSUME NEW a \in Forwards, ForwardAndExecute(a) PROVE TypeInv' /\ NoGhosts'
  BY <1>9, <1>13 DEF ForwardAndExecute, MayForward
<1>14. ASSUME NEW a \in Clears, ClearBuildEnv(a) PROVE TypeInv' /\ NoGhosts'
  BY <1>9, <1>14 DEF ClearBuildEnv, MayClear
<1>15. QED
  BY <1>1, <1>2, <1>4, <1>5, <1>6, <1>7, <1>8, <1>10, <1>11, <1>12, <1>13, <1>14 DEF Next

LEMMA TypeInit == Init => TypeInv /\ NoGhosts
<1> SUFFICES ASSUME Init PROVE TypeInv /\ NoGhosts
  OBVIOUS
<1>1. PeersTypeOK /\ NoGhosts
  BY DEF Init, PeersInit, PeersTypeOK, NoGhosts
<1>2. Fresh
  BY DEF Init, Fresh
<1>3. Listed
  BY EmptyList DEF Init, Listed
<1>4. 1 \in 1..Cardinality(PeerIDs) + 1
  BY NIsNat DEF N
<1>5. TypeOK
  BY <1>1, <1>4, EmptyList DEF Init, TypeOK
<1>6. QED
  BY <1>1, <1>2, <1>3, <1>5 DEF TypeInv

LEMMA TypeInvCorrect == Spec => [](TypeInv /\ NoGhosts)
<1>1. TypeInv /\ NoGhosts /\ [Next]_vars => TypeInv' /\ NoGhosts'
  BY TypeStep
<1>2. QED
  BY TypeInit, <1>1, PTL DEF Spec

(* Every variable keeps its type, whatever fails: the lists hold different  *)
(* daemons, and no loop counts an executor twice.                          *)
THEOREM ProjectTypeCorrect == Spec => []TypeOK
<1>1. TypeInv => TypeOK
  BY DEF TypeInv
<1>2. QED
  BY <1>1, TypeInvCorrect, PTL

(* A peer all of whose connections have closed leaves the active set once   *)
(* the notifications have come, for any number of peers and connections.    *)
THEOREM NoGhostsEver == Spec => []NoGhosts
BY TypeInvCorrect, PTL

-----------------------------------------------------------------------------
(* Sessions.  An executor may fail to prepare only in the way the proxy     *)
(* does not see: after a failure it sees, the two lists differ.             *)

Silent == Faulty \cap {"unreachable", "mount"} = {}

Finished == {"idle", "ok", "failed", "refused"}

(* Initialising and clearing are done alone.                                *)
Alone == \A a \in Inits \cup Clears : a \in Pending => Pending = {a}

(* What an initialisation has made is a prefix of its list.                 *)
Initialising ==
  \A a \in Inits : a \in Pending =>
    /\ pc[a] \in {"connecting", "dialing", "calling"}
    /\ projectToExecutors = None /\ executors[a] # <<>>
    /\ pc[a] # "calling" => grpcClients = None
    /\ pc[a] = "calling" =>
         /\ grpcClients = executors[a] /\ conns[a] = executors[a]
         /\ Len(ready[a]) = next[a] - 1 /\ next[a] <= Len(executors[a]) + 1
         /\ \A j \in 1..Len(ready[a]) : ready[a][j] = executors[a][j]

Forwarding ==
  \A a \in Forwards : a \in Pending =>
    /\ pc[a] \in {"connecting", "calling"}
    /\ projectToExecutors # None /\ executors[a] = projectToExecutors
    /\ pc[a] = "calling" => conns[a] = projectToExecutors

(* A clean-up has cleaned a prefix of the connections.                      *)
Clearing ==
  \A a \in Clears : a \in Pending =>
    /\ pc[a] \in {"connecting", "calling", "forgetting", "dropping"}
    /\ pc[a] = "dropping" => projectToExecutors = None
    /\ pc[a] # "dropping" => projectToExecutors # None /\ executors[a] = projectToExecutors
    /\ pc[a] # "connecting" =>
         /\ grpcClients # None /\ conns[a] = grpcClients
         /\ \A j \in 1..Len(conns[a]) : j < next[a] => env[conns[a][j]] \in {"none", "stuck"}
    /\ pc[a] \in {"forgetting", "dropping"} => next[a] > Len(conns[a])

(* The two maps agree while the project has executors, and are both empty   *)
(* between sessions.                                                       *)
Matched ==
  /\ projectToExecutors # None => grpcClients = projectToExecutors
  /\ Pending = {} /\ projectToExecutors = None => grpcClients = None

(* Whoever holds something of the project can be reached by a connection.   *)
Held ==
  \A p \in PeerIDs : env[p] \in {"bare", "ready"} =>
    grpcClients # None /\ \E i \in 1..Len(grpcClients) : grpcClients[i] = p

SessionInv ==
  /\ Alone /\ Initialising /\ Forwarding /\ Clearing /\ Matched /\ Held
  /\ RoutedByName
  /\ daemon # "panicked"

(* Where the calls are after a step of one of them.                         *)
LEMMA GotoFacts ==
  ASSUME TypeOK, NEW a \in Calls, NEW place, Goto(a, place)
  PROVE  /\ pc'[a] = place
         /\ \A b \in Calls : b # a => pc'[b] = pc[b]
         /\ \A b \in Calls : b \in Pending' <=> pc'[b] \notin Finished
         /\ \A b \in Calls : b \in Pending <=> pc[b] \notin Finished
         /\ Pending' = IF place \in Finished THEN Pending \ {a} ELSE Pending \cup {a}
<1>1. pc'[a] = place /\ \A b \in Calls : b # a => pc'[b] = pc[b]
  BY DEF Goto, TypeOK
<1>2. QED
  BY <1>1 DEF Pending, Finished

(* A call that is alone finds the others finished.                          *)
LEMMA AloneFacts ==
  ASSUME SessionInv, NEW a \in Calls, a \in Pending
  PROVE  /\ a \in Inits \cup Clears => Pending = {a}
         /\ a \in Forwards => Pending \subseteq Forwards
BY DEF SessionInv, Alone, Calls, Pending

LEMMA InitConnecting ==
  ASSUME TypeInv, SessionInv, NEW a \in Inits, LoadConns(a) \/ StoreConns(a)
  PROVE  SessionInv'
<1> USE DEF Calls
<1>1. pc[a] \in {"connecting", "dialing"} /\ a \in Pending
  BY DEF LoadConns, StoreConns, Pending
<1>2. /\ Pending = {a} /\ projectToExecutors = None /\ grpcClients = None
      /\ executors[a] # <<>> /\ executors[a] \in Lists
      /\ next[a] = 1 /\ ready[a] = <<>>
  BY <1>1, AloneFacts DEF SessionInv, Initialising, TypeInv, TypeOK, Fresh
<1>3. UNCHANGED <<projectToExecutors, executors, next, ready, env, sent, daemon>>
  BY DEF LoadConns, StoreConns
<1>4. CASE LoadConns(a)
  <2>1. Goto(a, "dialing") /\ UNCHANGED <<conns, grpcClients>>
    BY <1>2, <1>4 DEF LoadConns
  <2>2. Pending' = {a} /\ pc'[a] = "dialing" /\ \A b \in Calls : b \in Pending' => b = a
    BY <2>1, <1>2, GotoFacts DEF TypeInv, Finished
  <2>3. QED
    BY <1>2, <1>3, <2>1, <2>2
    DEF SessionInv, Alone, Initialising, Forwarding, Clearing, Matched, Held, RoutedByName
<1>5. CASE StoreConns(a)
  <2>1. Goto(a, "calling") /\ grpcClients' = executors[a] /\ conns'[a] = executors[a]
    BY <1>5 DEF StoreConns, TypeInv, TypeOK
  <2>2. Pending' = {a} /\ pc'[a] = "calling" /\ \A b \in Calls : b \in Pending' => b = a
    BY <2>1, <1>2, GotoFacts DEF TypeInv, Finished
  <2>3. Len(ready[a]) = next[a] - 1 /\ next[a] <= Len(executors[a]) + 1
    BY <1>2, ListFacts, EmptyList, NIsNat
  <2>4. \A j \in 1..Len(ready[a]) : ready[a][j] = executors[a][j]
    BY <1>2, EmptyList
  <2>5. QED
    BY <1>2, <1>3, <2>1, <2>2, <2>3, <2>4
    DEF SessionInv, Alone, Initialising, Forwarding, Clearing, Matched, Held, RoutedByName
<1>6. QED
  BY <1>4, <1>5

LEMMA ForwardConnecting ==
  ASSUME TypeInv, SessionInv, NEW a \in Forwards, LoadConns(a) \/ StoreConns(a)
  PROVE  SessionInv'
<1> USE DEF Calls
<1>1. pc[a] \in {"connecting", "dialing"} /\ a \in Pending
  BY DEF LoadConns, StoreConns, Pending
<1>2. /\ Pending \subseteq Forwards /\ projectToExecutors # None /\ grpcClients = projectToExecutors
      /\ pc[a] = "connecting" /\ executors[a] = projectToExecutors
  BY <1>1, AloneFacts DEF SessionInv, Forwarding, Matched
<1>3. /\ Goto(a, "calling") /\ conns'[a] = projectToExecutors
      /\ \A b \in Calls : b # a => conns'[b] = conns[b]
      /\ UNCHANGED <<projectToExecutors, grpcClients, executors, next, ready, env, sent, daemon>>
  BY <1>2 DEF LoadConns, StoreConns, TypeInv, TypeOK
<1>4. /\ pc'[a] = "calling" /\ Pending' = Pending \cup {a}
      /\ \A b \in Calls : b # a => pc'[b] = pc[b]
  BY <1>3, GotoFacts DEF TypeInv, Finished
<1>5. QED
  BY <1>1, <1>2, <1>3, <1>4
  DEF SessionInv, Alone, Initialising, Forwarding, Clearing, Matched, Held, RoutedByName

LEMMA ClearConnecting ==
  ASSUME TypeInv, SessionInv, NEW a \in Clears, LoadConns(a) \/ StoreConns(a)
  PROVE  SessionInv'
<1> USE DEF Calls
<1>1. pc[a] \in {"connecting", "dialing"} /\ a \in Pending
  BY DEF LoadConns, StoreConns, Pending
<1>2. /\ Pending = {a} /\ projectToExecutors # None /\ grpcClients = projectToExecutors
      /\ pc[a] = "connecting" /\ executors[a] = projectToExecutors
      /\ next[a] = 1 /\ grpcClients \in Lists
  BY <1>1, AloneFacts DEF SessionInv, Clearing, Matched, TypeInv, TypeOK, Fresh
<1>3. /\ Goto(a, "calling") /\ conns'[a] = grpcClients
      /\ UNCHANGED <<projectToExecutors, grpcClients, executors, next, ready, env, sent, daemon>>
  BY <1>2 DEF LoadConns, StoreConns, TypeInv, TypeOK
<1>4. pc'[a] = "calling" /\ Pending' = {a} /\ \A b \in Calls : b \in Pending' => b = a
  BY <1>2, <1>3, GotoFacts DEF TypeInv, Finished
<1>5. \A j \in 1..Len(grpcClients) : ~(j < 1)
  BY <1>2, ListFacts, NIsNat
<1>6. QED
  BY <1>2, <1>3, <1>4, <1>5
  DEF SessionInv, Alone, Initialising, Forwarding, Clearing, Matched, Held, RoutedByName

LEMMA InitialiseStep ==
  ASSUME TypeInv, SessionInv, NEW a \in Inits, InitializeBuildEnv(a)
  PROVE  SessionInv'
<1> USE DEF Calls
<1>1. Pending = {} /\ projectToExecutors = None /\ grpcClients = None
  BY DEF InitializeBuildEnv, MayInitialize, SessionInv, Matched
<1>2. UNCHANGED <<projectToExecutors, grpcClients, conns, next, ready, env, sent, daemon>>
  BY DEF InitializeBuildEnv
<1>3. CASE Goto(a, "failed") /\ UNCHANGED executors
  <2>1. Pending' = {}
    BY <1>1, <1>3, GotoFacts DEF TypeInv, Finished
  <2>2. QED
    BY <1>1, <1>2, <1>3, <2>1
    DEF SessionInv, Alone, Initialising, Forwarding, Clearing, Matched, Held, RoutedByName
<1>4. CASE \E picked \in Lists : picked # <<>> /\ Goto(a, "connecting") /\ executors' = [executors EXCEPT ![a] = picked]
  <2>1. Goto(a, "connecting") /\ executors'[a] # <<>>
    BY <1>4 DEF TypeInv, TypeOK
  <2>2. Pending' = {a} /\ pc'[a] = "connecting" /\ \A b \in Calls : b \in Pending' => b = a
    BY <1>1, <2>1, GotoFacts DEF TypeInv, Finished
  <2>3. QED
    BY <1>1, <1>2, <2>1, <2>2
    DEF SessionInv, Alone, Initialising, Forwarding, Clearing, Matched, Held, RoutedByName
<1>5. QED
  BY <1>3, <1>4 DEF InitializeBuildEnv, PickActiveExecutors

LEMMA PreparingStep ==
  ASSUME Silent, TypeInv, SessionInv, NEW a \in Inits, PrepareEnvironments(a)
  PROVE  SessionInv'
<1> DEFINE i == next[a]
           p == conns[a][i]
<1> USE DEF Calls
<1>1. pc[a] = "calling" /\ a \in Pending /\ i <= Len(conns[a])
  BY DEF PrepareEnvironments, Pending
<1>2. /\ Pending = {a} /\ projectToExecutors = None
      /\ grpcClients = executors[a] /\ conns[a] = executors[a] /\ executors[a] \in Lists
      /\ Len(ready[a]) = i - 1
      /\ \A j \in 1..Len(ready[a]) : ready[a][j] = executors[a][j]
  BY <1>1, AloneFacts DEF SessionInv, Initialising, TypeInv, TypeOK
<1>3. /\ i \in 1..Len(executors[a]) /\ p \in PeerIDs /\ grpcClients # None /\ i \in Nat
      /\ ready[a] \in Seq(PeerIDs) /\ Len(ready[a]) \in Nat /\ Len(executors[a]) \in Nat
  BY <1>1, <1>2, ListFacts, NIsNat, NoneAssumption DEF TypeInv, TypeOK
<1>4. PICK outcome \in {"ok", "status"} :
        /\ env' = IF outcome \in DOMAIN Prepared THEN [env EXCEPT ![p] = Prepared[outcome]] ELSE env
        /\ IF i > Len(executors[a])
           THEN Die("panicked") /\ UNCHANGED <<next, ready>>
           ELSE /\ next' = [next EXCEPT ![a] = i + 1]
                /\ ready' = IF outcome \in {"ok", "status"} THEN ReadyWith(a, i) ELSE ready
                /\ UNCHANGED daemon
  BY ProjectEnvAssumption DEF PrepareEnvironments, Silent
<1>5. \A r \in PeerIDs : r # p => env'[r] = env[r]
  BY <1>4 DEF TypeInv, TypeOK
<1>6. /\ next' = [next EXCEPT ![a] = i + 1] /\ ready' = ReadyWith(a, i)
      /\ UNCHANGED <<projectToExecutors, grpcClients, pc, executors, conns, sent, daemon>>
  <2>1. ~(i > Len(executors[a]))
    BY <1>3
  <2>2. next' = [next EXCEPT ![a] = i + 1] /\ ready' = ReadyWith(a, i) /\ UNCHANGED daemon
    BY <1>4, <2>1
  <2>3. QED
    BY <2>2 DEF PrepareEnvironments
<1>7. next'[a] = i + 1 /\ ready'[a] = Append(ready[a], executors[a][i])
  BY <1>6 DEF ReadyWith, TypeInv, TypeOK
<1>8. /\ Len(ready'[a]) = i
      /\ \A j \in 1..i - 1 : ready'[a][j] = ready[a][j]
      /\ ready'[a][i] = executors[a][i]
  BY <1>2, <1>3, <1>7, AppendProperties
<1>9. /\ Len(ready'[a]) = next'[a] - 1 /\ next'[a] <= Len(executors[a]) + 1
      /\ \A j \in 1..Len(ready'[a]) : ready'[a][j] = executors[a][j]
  BY <1>2, <1>3, <1>7, <1>8
<1>10. \A b \in Calls : b \in Pending' <=> b = a
  BY <1>2, <1>6 DEF Pending
<1>11. Pending' = Pending
  BY <1>6 DEF Pending
<1>12. Alone' /\ Initialising' /\ Forwarding' /\ Clearing' /\ Matched'
  BY <1>1, <1>2, <1>6, <1>9, <1>10, <1>11
  DEF SessionInv, Alone, Initialising, Forwarding, Clearing, Matched
<1>13. Held'
  BY <1>2, <1>3, <1>5, <1>6 DEF SessionInv, Held
<1>14. QED
  BY <1>6, <1>12, <1>13 DEF SessionInv, RoutedByName

(* The list of the executors that are ready is the one that was picked.     *)
LEMMA AllPrepared ==
  ASSUME TypeInv, SessionInv, NEW a \in Inits, EnvironmentsPrepared(a)
  PROVE  /\ a \in Pending /\ Pending = {a} /\ projectToExecutors = None
         /\ grpcClients = executors[a] /\ executors[a] \in Lists
         /\ Goto(a, "ok") /\ projectToExecutors' = executors[a]
         /\ UNCHANGED <<grpcClients, executors, conns, next, ready, env, sent, daemon>>
<1> USE DEF Calls
<1>1. pc[a] = "calling" /\ a \in Pending /\ next[a] > Len(conns[a])
  BY DEF EnvironmentsPrepared, Pending
<1>2. /\ Pending = {a} /\ projectToExecutors = None
      /\ grpcClients = executors[a] /\ conns[a] = executors[a] /\ executors[a] \in Lists
      /\ executors[a] # <<>> /\ ready[a] \in Lists /\ next[a] \in Nat
      /\ Len(ready[a]) = next[a] - 1 /\ next[a] <= Len(executors[a]) + 1
      /\ \A j \in 1..Len(ready[a]) : ready[a][j] = executors[a][j]
  BY <1>1, AloneFacts, NIsNat DEF SessionInv, Initialising, TypeInv, TypeOK, N
<1>3. Len(ready[a]) = Len(executors[a])
  BY <1>1, <1>2, ListFacts, NIsNat
<1>4. ready[a] = executors[a]
  BY <1>2, <1>3, ListFacts, SeqEqual
<1>5. QED
  BY <1>1, <1>2, <1>4 DEF EnvironmentsPrepared, local

LEMMA PreparedStep ==
  ASSUME TypeInv, SessionInv, NEW a \in Inits, EnvironmentsPrepared(a)
  PROVE  SessionInv'
<1> USE DEF Calls
<1>1. /\ Pending = {a} /\ grpcClients = executors[a] /\ executors[a] \in Lists
      /\ Goto(a, "ok") /\ projectToExecutors' = grpcClients
      /\ UNCHANGED <<grpcClients, executors, conns, next, ready, env, sent, daemon>>
  BY AllPrepared
<1>2. Pending' = {} /\ \A b \in Calls : b \notin Pending'
  BY <1>1, GotoFacts DEF TypeInv, Finished
<1>3. grpcClients # None
  BY <1>1, NoneAssumption
<1>4. QED
  BY <1>1, <1>2, <1>3
  DEF SessionInv, Alone, Initialising, Forwarding, Clearing, Matched, Held, RoutedByName

LEMMA LoadStep ==
  ASSUME TypeInv, SessionInv, NEW a \in Forwards \cup Clears, LoadExecutors(a), pc[a] = "idle",
         Pending \subseteq Forwards, a \in Clears => Pending = {}
  PROVE  SessionInv'
<1> USE DEF Calls
<1>1. UNCHANGED <<projectToExecutors, grpcClients, conns, next, ready, env, sent, daemon>>
  BY DEF LoadExecutors
<1>2. a \notin Pending
  BY DEF Pending
<1>3. CASE projectToExecutors = None
  <2>1. Goto(a, "refused") /\ UNCHANGED executors
    BY <1>3 DEF LoadExecutors
  <2>2. Pending' = Pending /\ \A b \in Calls : b # a => pc'[b] = pc[b]
    BY <1>2, <2>1, GotoFacts DEF TypeInv, Finished
  <2>3. QED
    BY <1>1, <1>2, <2>1, <2>2
    DEF SessionInv, Alone, Initialising, Forwarding, Clearing, Matched, Held, RoutedByName
<1>4. CASE projectToExecutors # None
  <2>1. /\ Goto(a, "connecting") /\ executors'[a] = projectToExecutors
        /\ \A b \in Calls : b # a => executors'[b] = executors[b]
    BY <1>4 DEF LoadExecutors, TypeInv, TypeOK
  <2>2. /\ Pending' = Pending \cup {a} /\ pc'[a] = "connecting"
        /\ \A b \in Calls : b # a => pc'[b] = pc[b]
    BY <2>1, GotoFacts DEF TypeInv, Finished
  <2>3. QED
    BY <1>1, <1>4, <2>1, <2>2
    DEF SessionInv, Alone, Initialising, Forwarding, Clearing, Matched, Held, RoutedByName
<1>5. QED
  BY <1>3, <1>4

LEMMA ExecuteStep ==
  ASSUME TypeInv, SessionInv, NEW a \in Forwards, TryExecuteWithRetry(a)
  PROVE  SessionInv'
<1> USE DEF Calls
<1>1. pc[a] = "calling" /\ a \in Pending
  BY DEF TryExecuteWithRetry, Pending
<1>2. /\ Pending \subseteq Forwards /\ projectToExecutors # None
      /\ executors[a] = projectToExecutors /\ conns[a] = projectToExecutors
      /\ executors[a] \in Lists
  BY <1>1, AloneFacts DEF SessionInv, Forwarding, TypeInv, TypeOK
<1>3. UNCHANGED <<projectToExecutors, grpcClients, executors, conns, next, ready, env>>
  BY DEF TryExecuteWithRetry, local
<1>4. CASE UNCHANGED <<pc, sent>> /\ daemon' = "fatal"
  <2>1. Pending' = Pending
    BY <1>4 DEF Pending
  <2>2. QED
    BY <1>3, <1>4, <2>1
    DEF SessionInv, Alone, Initialising, Forwarding, Clearing, Matched, Held, RoutedByName
<1>5. CASE /\ Goto(a, "ok") /\ UNCHANGED daemon
           /\ sent' = sent \cup {<<executors[a][i], conns[a][i]>> : i \in DOMAIN executors[a]}
  <2>1. RoutedByName'
    BY <1>2, <1>5 DEF SessionInv, RoutedByName
  <2>2. Pending' = Pending \ {a} /\ \A b \in Calls : b # a => pc'[b] = pc[b]
    BY <1>5, GotoFacts DEF TypeInv, Finished
  <2>3. QED
    BY <1>2, <1>3, <1>5, <2>1, <2>2
    DEF SessionInv, Alone, Initialising, Forwarding, Clearing, Matched, Held
<1>6. QED
  <2>1. ~(Len(conns[a]) < Len(executors[a]))
    BY <1>2, ListFacts, NIsNat
  <2>2. QED
    BY <1>4, <1>5, <2>1 DEF TryExecuteWithRetry, Die

LEMMA CleaningStep ==
  ASSUME TypeInv, SessionInv, NEW a \in Clears, CleanupEnvironments(a)
  PROVE  SessionInv'
<1> DEFINE i == next[a]
           p == conns[a][i]
<1> USE DEF Calls
<1>1. pc[a] = "calling" /\ a \in Pending /\ i <= Len(conns[a])
  BY DEF CleanupEnvironments, Pending
<1>2. /\ Pending = {a} /\ projectToExecutors # None /\ executors[a] = projectToExecutors
      /\ grpcClients = projectToExecutors /\ conns[a] = grpcClients /\ conns[a] \in Lists
      /\ \A j \in 1..Len(conns[a]) : j < i => env[conns[a][j]] \in {"none", "stuck"}
  BY <1>1, AloneFacts DEF SessionInv, Clearing, Matched, TypeInv, TypeOK
<1>3. /\ i \in 1..Len(conns[a]) /\ p \in PeerIDs /\ i \in Nat /\ Len(conns[a]) \in Nat
      /\ \A j \in 1..Len(conns[a]) : conns[a][j] \in PeerIDs
  BY <1>1, <1>2, ListFacts, NIsNat DEF TypeInv, TypeOK
<1>4. env'[p] \in {"none", "stuck"} /\ \A r \in PeerIDs : r # p => env'[r] = env[r]
  BY <1>3 DEF CleanupEnvironments, TypeInv, TypeOK
<1>5. /\ next' = [next EXCEPT ![a] = i + 1]
      /\ UNCHANGED <<projectToExecutors, grpcClients, pc, executors, conns, ready, sent, daemon>>
  BY <1>2, <1>3 DEF CleanupEnvironments
<1>6. next'[a] = i + 1
  BY <1>5 DEF TypeInv, TypeOK
<1>7. \A j \in 1..Len(conns[a]) : j < i + 1 => env'[conns[a][j]] \in {"none", "stuck"}
  <2>1. SUFFICES ASSUME NEW j \in 1..Len(conns[a]), j < i + 1
                 PROVE  env'[conns[a][j]] \in {"none", "stuck"}
    OBVIOUS
  <2>2. conns[a][j] \in PeerIDs
    BY <1>3
  <2>3. CASE conns[a][j] = p
    BY <2>3, <1>4
  <2>4. CASE conns[a][j] # p
    <3>1. j < i
      BY <2>1, <2>4, <1>3
    <3>2. QED
      BY <3>1, <2>2, <2>4, <1>2, <1>4
  <2>5. QED
    BY <2>3, <2>4
<1>8. Pending' = Pending /\ \A b \in Calls : b \in Pending' <=> b = a
  BY <1>2, <1>5 DEF Pending
<1>9. Alone' /\ Initialising' /\ Forwarding' /\ Clearing' /\ Matched'
  BY <1>1, <1>2, <1>5, <1>6, <1>7, <1>8
  DEF SessionInv, Alone, Initialising, Forwarding, Clearing, Matched
<1>10. Held'
  BY <1>2, <1>4, <1>5 DEF SessionInv, Held
<1>11. QED
  BY <1>5, <1>9, <1>10 DEF SessionInv, RoutedByName

LEMMA ClearedStep ==
  ASSUME TypeInv, SessionInv, NEW a \in Clears,
         EnvironmentsCleaned(a) \/ ForgetExecutors(a) \/ DropConns(a)
  PROVE  SessionInv'
<1> USE DEF Calls
<1>1. a \in Pending
  BY DEF EnvironmentsCleaned, ForgetExecutors, DropConns, Pending
<1>2. Pending = {a} /\ pc[a] # "connecting" => conns[a] = grpcClients /\ grpcClients # None
  BY <1>1, AloneFacts DEF SessionInv, Clearing
<1>3. UNCHANGED <<executors, conns, next, ready, env, sent, daemon>>
  BY DEF EnvironmentsCleaned, ForgetExecutors, DropConns, local
<1>4. CASE EnvironmentsCleaned(a)
  <2>1. /\ pc[a] = "calling" /\ next[a] > Len(conns[a]) /\ Goto(a, "forgetting")
        /\ UNCHANGED <<projectToExecutors, grpcClients>>
    BY <1>4 DEF EnvironmentsCleaned
  <2>2. Pending' = {a} /\ pc'[a] = "forgetting" /\ \A b \in Calls : b \in Pending' => b = a
    BY <1>1, <2>1, AloneFacts, GotoFacts DEF TypeInv, Finished
  <2>3. QED
    BY <1>1, <1>3, <2>1, <2>2
    DEF SessionInv, Alone, Initialising, Forwarding, Clearing, Matched, Held, RoutedByName
<1>5. CASE ForgetExecutors(a)
  <2>1. pc[a] = "forgetting" /\ Goto(a, "dropping") /\ projectToExecutors' = None /\ UNCHANGED grpcClients
    BY <1>5 DEF ForgetExecutors
  <2>2. Pending' = {a} /\ pc'[a] = "dropping" /\ \A b \in Calls : b \in Pending' => b = a
    BY <1>1, <2>1, AloneFacts, GotoFacts DEF TypeInv, Finished
  <2>3. QED
    BY <1>1, <1>3, <2>1, <2>2
    DEF SessionInv, Alone, Initialising, Forwarding, Clearing, Matched, Held, RoutedByName
<1>6. CASE DropConns(a)
  <2>1. pc[a] = "dropping" /\ Goto(a, "ok") /\ grpcClients' = None /\ UNCHANGED projectToExecutors
    BY <1>6 DEF DropConns
  <2>2. Pending' = {} /\ \A b \in Calls : b \notin Pending'
    BY <1>1, <2>1, AloneFacts, GotoFacts DEF TypeInv, Finished
  <2>3. /\ projectToExecutors = None /\ grpcClients \in Lists
        /\ \A j \in 1..Len(grpcClients) : j < next[a] => env[grpcClients[j]] \in {"none", "stuck"}
        /\ next[a] > Len(grpcClients)
    BY <1>1, <2>1 DEF SessionInv, Clearing, TypeInv, TypeOK
  <2>4. \A j \in 1..Len(grpcClients) : j < next[a]
    BY <2>3, ListFacts, NIsNat DEF TypeInv, TypeOK
  <2>5. \A p \in PeerIDs : env[p] \notin {"bare", "ready"}
    BY <2>3, <2>4 DEF SessionInv, Held
  <2>6. QED
    BY <1>3, <2>1, <2>2, <2>3, <2>5
    DEF SessionInv, Alone, Initialising, Forwarding, Clearing, Matched, Held, RoutedByName
<1>7. QED
  BY <1>4, <1>5, <1>6

LEMMA SessionStep ==
  ASSUME Silent, TypeInv, SessionInv, [Next]_vars
  PROVE  SessionInv'
<1>1. ASSUME UNCHANGED <<projectToExecutors, grpcClients, pc, local, env, sent, daemon>> PROVE SessionInv'
  <2>1. Pending' = Pending
    BY <1>1 DEF Pending
  <2>2. QED
    BY <1>1, <2>1
    DEF local, SessionInv, Alone, Initialising, Forwarding, Clearing, Matched, Held, RoutedByName
<1>2. ASSUME NEW a \in Calls, LoadConns(a) \/ StoreConns(a) PROVE SessionInv'
  BY <1>2, InitConnecting, ForwardConnecting, ClearConnecting DEF Calls
<1>3. ASSUME NEW a \in Inits,
             InitializeBuildEnv(a) \/ PrepareEnvironments(a) \/ EnvironmentsPrepared(a)
      PROVE  SessionInv'
  BY <1>3, InitialiseStep, PreparingStep, PreparedStep
<1>4. ASSUME NEW a \in Forwards, ForwardAndExecute(a) \/ TryExecuteWithRetry(a) PROVE SessionInv'
  <2>1. a \notin Clears
    BY ProjectEnvAssumption
  <2>2. QED
    BY <1>4, <2>1, LoadStep, ExecuteStep DEF ForwardAndExecute, MayForward
<1>5. ASSUME NEW a \in Clears,
             \/ ClearBuildEnv(a) \/ CleanupEnvironments(a) \/ EnvironmentsCleaned(a)
             \/ ForgetExecutors(a) \/ DropConns(a)
      PROVE  SessionInv'
  BY <1>5, LoadStep, CleaningStep, ClearedStep DEF ClearBuildEnv, MayClear
<1>6. QED
  BY <1>1, <1>2, <1>3, <1>4, <1>5 DEF Next, vars, PeersStep

LEMMA SessionCorrect ==
  ASSUME Silent
  PROVE  Spec => []SessionInv
<1>1. Init => SessionInv
  <2>1. Init => Pending = {}
    BY DEF Init, Pending
  <2>2. QED
    BY <2>1
    DEF Init, SessionInv, Alone, Initialising, Forwarding, Clearing, Matched, Held, RoutedByName
<1>2. TypeInv /\ SessionInv /\ [Next]_vars => SessionInv'
  BY SessionStep
<1>3. QED
  BY <1>1, <1>2, TypeInvCorrect, PTL DEF Spec

-----------------------------------------------------------------------------
(* For any number of daemons, sessions and concurrent commands, every        *)
(* command goes to the executor it is meant for, provided no executor fails *)
(* to prepare in a way the proxy sees.                                      *)
THEOREM AlwaysRoutedByName ==
  ASSUME Silent
  PROVE  Spec => []RoutedByName
<1>1. SessionInv => RoutedByName
  BY DEF SessionInv
<1>2. QED
  BY <1>1, SessionCorrect, PTL

(* Under the same proviso a session leaves nothing behind on any executor   *)
(* that could clean up, however many there are.                             *)
THEOREM AlwaysLeavesNothingBehind ==
  ASSUME Silent
  PROVE  Spec => []LeavesNothingBehind
<1>1. TypeInv /\ SessionInv => LeavesNothingBehind
  BY DEF TypeInv, TypeOK, SessionInv, Matched, Held, LeavesNothingBehind
<1>2. QED
  BY <1>1, TypeInvCorrect, SessionCorrect, PTL

-----------------------------------------------------------------------------
(* The handlers make sessions.                                             *)

(* Where the session is, by the calls that are pending.                     *)
Mapped ==
  /\ \A a \in Inits : a \in Pending => Phase = "preparing" /\ Members = Range(ready[a])
  /\ \A a \in Clears : a \in Pending /\ pc[a] # "dropping" =>
       Phase = "clearing" /\ Members = Uncleaned(a)
  /\ \A a \in Clears : a \in Pending /\ pc[a] = "dropping" => Phase = "closed" /\ Members = {}
  /\ Pending \subseteq Forwards =>
       /\ projectToExecutors = None => Phase = "closed" /\ Members = {}
       /\ projectToExecutors # None => Phase = "open" /\ Members = Range(projectToExecutors)

LEMMA MappedHolds == SessionInv => Mapped
<1> SUFFICES ASSUME SessionInv PROVE Mapped
  OBVIOUS
<1>1. ASSUME NEW a \in Inits, a \in Pending PROVE Phase = "preparing" /\ Members = Range(ready[a])
  <2>1. Preparing = {a} /\ Cleaning = {}
    BY <1>1, AloneFacts, ProjectEnvAssumption DEF Preparing, Cleaning, Calls
  <2>2. Phase = "preparing"
    BY <2>1 DEF Phase
  <2>3. QED
    BY <2>1, <2>2 DEF Members
<1>2. ASSUME NEW a \in Clears, a \in Pending
      PROVE  /\ pc[a] # "dropping" => Phase = "clearing" /\ Members = Uncleaned(a)
             /\ pc[a] = "dropping" => Phase = "closed" /\ Members = {}
  <2>1. Preparing = {} /\ Pending = {a}
    BY <1>2, AloneFacts, ProjectEnvAssumption DEF Preparing, Calls
  <2>2. CASE pc[a] # "dropping"
    <3>1. Cleaning = {a}
      BY <1>2, <2>1, <2>2 DEF Cleaning
    <3>2. Phase = "clearing"
      BY <2>1, <3>1 DEF Phase
    <3>3. QED
      BY <2>2, <3>1, <3>2 DEF Members
  <2>3. CASE pc[a] = "dropping"
    <3>1. Cleaning = {} /\ projectToExecutors = None
      BY <1>2, <2>1, <2>3 DEF Cleaning, SessionInv, Clearing
    <3>2. Phase = "closed"
      BY <2>1, <3>1 DEF Phase
    <3>3. QED
      BY <2>3, <3>2 DEF Members
  <2>4. QED
    BY <2>2, <2>3
<1>3. ASSUME Pending \subseteq Forwards
      PROVE  /\ projectToExecutors = None => Phase = "closed" /\ Members = {}
             /\ projectToExecutors # None => Phase = "open" /\ Members = Range(projectToExecutors)
  <2>1. Preparing = {} /\ Cleaning = {}
    BY <1>3, ProjectEnvAssumption DEF Preparing, Cleaning
  <2>2. Phase = IF projectToExecutors = None THEN "closed" ELSE "open"
    BY <2>1 DEF Phase
  <2>3. QED
    BY <2>2 DEF Members
<1>4. QED
  BY <1>1, <1>2, <1>3 DEF Mapped

(* A preparation begins only between sessions.                             *)
LEMMA SessionBegins ==
  ASSUME TypeInv, SessionInv, Mapped, Mapped', NEW a \in Inits, InitializeBuildEnv(a)
  PROVE  S!Begin \/ UNCHANGED S!vars
<1> USE DEF Calls
<1>1. /\ Pending = {} /\ projectToExecutors = None /\ ready[a] = <<>>
      /\ UNCHANGED <<projectToExecutors, ready, env, sent>>
  BY DEF InitializeBuildEnv, MayInitialize, TypeInv, Fresh
<1>2. Phase = "closed" /\ Members = {}
  BY <1>1 DEF Mapped
<1>3. CASE Goto(a, "failed")
  <2>1. Pending' = {}
    BY <1>1, <1>3, GotoFacts DEF TypeInv, Finished
  <2>2. Phase' = "closed" /\ Members' = {}
    BY <1>1, <2>1 DEF Mapped
  <2>3. QED
    BY <1>1, <1>2, <2>2 DEF S!vars
<1>4. CASE Goto(a, "connecting")
  <2>1. a \in Pending'
    BY <1>4, GotoFacts DEF TypeInv, Finished
  <2>2. Phase' = "preparing" /\ Members' = Range(<<>>)
    BY <1>1, <2>1 DEF Mapped
  <2>3. Range(<<>>) = {}
    BY EmptySeq DEF Range
  <2>4. QED
    BY <1>1, <1>2, <2>2, <2>3 DEF S!Begin
<1>5. QED
  BY <1>3, <1>4 DEF InitializeBuildEnv

(* The connections are looked up in every phase.                            *)
LEMMA SessionConnects ==
  ASSUME TypeInv, SessionInv, SessionInv', Mapped, Mapped',
         NEW a \in Calls, LoadConns(a) \/ StoreConns(a)
  PROVE  UNCHANGED S!vars
<1> USE DEF Calls
<1>1. /\ pc[a] \in {"connecting", "dialing"} /\ a \in Pending
      /\ UNCHANGED <<projectToExecutors, executors, next, ready, env, sent>>
  BY DEF LoadConns, StoreConns, Pending
<1>2. PICK place \in {"dialing", "calling"} : Goto(a, place)
  BY DEF LoadConns, StoreConns
<1>3. Pending' = Pending /\ pc'[a] # "dropping"
  BY <1>1, <1>2, GotoFacts DEF TypeInv, Finished
<1>4. Phase' = Phase /\ Members' = Members
  <2>1. CASE a \in Inits
    BY <1>1, <1>3, <2>1 DEF Mapped
  <2>2. CASE a \in Clears
    <3>1. Uncleaned(a)' = Uncleaned(a)
      BY <1>1 DEF Uncleaned
    <3>2. QED
      BY <1>1, <1>3, <2>2, <3>1 DEF Mapped
  <2>3. CASE a \in Forwards
    BY <1>1, <1>3, <2>3, AloneFacts DEF Mapped
  <2>4. QED
    BY <2>1, <2>2, <2>3
<1>5. QED
  BY <1>1, <1>4 DEF S!vars

(* One executor joins: the loop has met none twice.                         *)
LEMMA SessionPrepares ==
  ASSUME Silent, TypeInv, SessionInv, SessionInv', Mapped, Mapped',
         NEW a \in Inits, PrepareEnvironments(a)
  PROVE  S!Next
<1> DEFINE i == next[a]
           p == executors[a][i]
<1> USE DEF Calls
<1>1. pc[a] = "calling" /\ a \in Pending /\ i <= Len(conns[a])
  BY DEF PrepareEnvironments, Pending
<1>2. /\ conns[a] = executors[a] /\ executors[a] \in Lists /\ ready[a] \in Lists
      /\ Len(ready[a]) = i - 1 /\ i \in Nat
      /\ \A j \in 1..Len(ready[a]) : ready[a][j] = executors[a][j]
  BY <1>1, NIsNat DEF SessionInv, Initialising, TypeInv, TypeOK, N
<1>3. /\ i \in 1..Len(executors[a]) /\ p \in PeerIDs /\ Len(executors[a]) \in 0..N
      /\ ready[a] \in Seq(PeerIDs) /\ \A j \in 1..Len(ready[a]) : ready[a][j] # p
  <2>1. i \in 1..Len(executors[a]) /\ p \in PeerIDs /\ Len(executors[a]) \in 0..N
    BY <1>1, <1>2, ListFacts, NIsNat DEF TypeInv, TypeOK
  <2>2. ASSUME NEW j \in 1..Len(ready[a]) PROVE ready[a][j] # p
    <3>1. j \in 1..Len(executors[a]) /\ j # i /\ ready[a][j] = executors[a][j]
      BY <1>2, <2>1, NIsNat
    <3>2. QED
      BY <1>2, <2>1, <3>1, ListFacts
  <2>3. QED
    BY <1>2, <2>1, <2>2, ListFacts
<1>4. /\ env' \in {env, [env EXCEPT ![p] = "ready"]}
      /\ ready' = ReadyWith(a, i)
      /\ UNCHANGED <<pc, sent>>
  <2>1. ~(i > Len(executors[a]))
    BY <1>3, NIsNat
  <2>2. PICK outcome \in {"ok", "status"} :
          /\ env' = IF outcome \in DOMAIN Prepared THEN [env EXCEPT ![p] = Prepared[outcome]] ELSE env
          /\ ready' = IF outcome \in {"ok", "status"} THEN ReadyWith(a, i) ELSE ready
    BY <1>2, <2>1, ProjectEnvAssumption DEF PrepareEnvironments, Silent
  <2>3. outcome \in DOMAIN Prepared => Prepared[outcome] = "ready"
    BY <2>2 DEF Prepared
  <2>4. QED
    BY <2>2, <2>3 DEF PrepareEnvironments
<1>5. ready'[a] = Append(ready[a], p)
  BY <1>4 DEF ReadyWith, TypeInv, TypeOK
<1>6. Range(Append(ready[a], p)) = Range(ready[a]) \cup {p} /\ p \notin Range(ready[a])
  <2>1. /\ DOMAIN ready[a] = 1..Len(ready[a]) /\ Len(ready[a]) \in Nat
        /\ DOMAIN Append(ready[a], p) = 1..Len(ready[a]) + 1
        /\ \A j \in 1..Len(ready[a]) : Append(ready[a], p)[j] = ready[a][j]
        /\ Append(ready[a], p)[Len(ready[a]) + 1] = p
    BY <1>3, AppendProperties
  <2>2. \A j \in 1..Len(ready[a]) + 1 : j \in 1..Len(ready[a]) \/ j = Len(ready[a]) + 1
    BY <2>1
  <2>3. Len(ready[a]) + 1 \in 1..Len(ready[a]) + 1 /\ 1..Len(ready[a]) \subseteq 1..Len(ready[a]) + 1
    BY <2>1
  <2>4. QED
    BY <1>3, <2>1, <2>2, <2>3 DEF Range
<1>7. Pending' = Pending
  BY <1>4 DEF Pending
<1>8. /\ Phase = "preparing" /\ Members = Range(ready[a])
      /\ Phase' = "preparing" /\ Members' = Range(ready'[a])
  BY <1>1, <1>7 DEF Mapped
<1>9. S!Prepare(p)
  BY <1>4, <1>5, <1>6, <1>8 DEF S!Prepare
<1>10. QED
  BY <1>3, <1>9 DEF S!Next

LEMMA SessionOpens ==
  ASSUME TypeInv, SessionInv, Mapped, Mapped', NEW a \in Inits, EnvironmentsPrepared(a)
  PROVE  S!Open
<1> USE DEF Calls
<1>1. /\ a \in Pending /\ executors[a] \in Lists /\ executors[a] # <<>>
      /\ Goto(a, "ok") /\ projectToExecutors' = executors[a] /\ Pending = {a}
      /\ UNCHANGED <<env, sent>>
  BY AllPrepared DEF SessionInv, Initialising
<1>2. ready[a] = executors[a]
  BY <1>1 DEF EnvironmentsPrepared, SessionInv, Initialising
<1>3. Pending' = {}
  BY <1>1, GotoFacts DEF TypeInv, Finished
<1>4. projectToExecutors' # None
  BY <1>1, NoneAssumption
<1>5. /\ Phase = "preparing" /\ Members = Range(executors[a])
      /\ Phase' = "open" /\ Members' = Range(executors[a])
  BY <1>1, <1>2, <1>3, <1>4 DEF Mapped
<1>6. Range(executors[a]) # {}
  <2>1. executors[a] \in Seq(PeerIDs) /\ DOMAIN executors[a] = 1..Len(executors[a]) /\ Len(executors[a]) \in Nat
    BY <1>1, ListFacts, NIsNat
  <2>2. 1 \in DOMAIN executors[a]
    BY <1>1, <2>1, EmptySeq
  <2>3. executors[a][1] \in Range(executors[a])
    BY <2>2 DEF Range
  <2>4. QED
    BY <2>3
<1>7. QED
  BY <1>1, <1>5, <1>6 DEF S!Open

(* A command meets an open session, and every executor of it.               *)
LEMMA SessionForwards ==
  ASSUME TypeInv, SessionInv, SessionInv', Mapped, Mapped',
         NEW a \in Forwards, TryExecuteWithRetry(a)
  PROVE  S!Forward \/ UNCHANGED S!vars
<1> USE DEF Calls
<1>1. pc[a] = "calling" /\ a \in Pending /\ UNCHANGED <<projectToExecutors, env>>
  BY DEF TryExecuteWithRetry, Pending
<1>2. /\ Pending \subseteq Forwards /\ projectToExecutors # None
      /\ executors[a] = projectToExecutors /\ conns[a] = projectToExecutors
  BY <1>1, AloneFacts DEF SessionInv, Forwarding
<1>3. Phase = "open" /\ Members = Range(projectToExecutors)
  BY <1>2 DEF Mapped
<1>4. Pending' \subseteq Forwards
  <2>1. CASE UNCHANGED pc
    BY <1>2, <2>1 DEF Pending
  <2>2. CASE Goto(a, "ok")
    BY <1>2, <2>2, GotoFacts DEF TypeInv, Finished
  <2>3. QED
    BY <2>1, <2>2 DEF TryExecuteWithRetry
<1>5. Phase' = "open" /\ Members' = Range(projectToExecutors)
  BY <1>1, <1>2, <1>4 DEF Mapped
<1>6. CASE UNCHANGED sent
  BY <1>1, <1>3, <1>5, <1>6 DEF S!vars
<1>7. CASE sent' = sent \cup {<<executors[a][i], conns[a][i]>> : i \in DOMAIN executors[a]}
  <2>1. {<<executors[a][i], conns[a][i]>> : i \in DOMAIN executors[a]} = {<<p, p>> : p \in Members}
    BY <1>2, <1>3 DEF Range
  <2>2. QED
    BY <1>1, <1>3, <1>5, <1>7, <2>1 DEF S!Forward
<1>8. QED
  BY <1>6, <1>7 DEF TryExecuteWithRetry

(* A command finds the session open or is refused; a clean-up of an open    *)
(* session has all its executors to call.                                  *)
LEMMA SessionLoads ==
  ASSUME TypeInv, SessionInv, SessionInv', Mapped, Mapped',
         NEW a \in Forwards \cup Clears, LoadExecutors(a), pc[a] = "idle",
         Pending \subseteq Forwards, a \in Clears => Pending = {}
  PROVE  S!BeginClear \/ UNCHANGED S!vars
<1> USE DEF Calls
<1>1. UNCHANGED <<projectToExecutors, next, env, sent>>
  BY DEF LoadExecutors
<1>2. CASE Pending' \subseteq Forwards
  <2>1. /\ projectToExecutors = None => Phase = "closed" /\ Members = {}
        /\ projectToExecutors # None => Phase = "open" /\ Members = Range(projectToExecutors)
    BY DEF Mapped
  <2>2. /\ projectToExecutors' = None => Phase' = "closed" /\ Members' = {}
        /\ projectToExecutors' # None => Phase' = "open" /\ Members' = Range(projectToExecutors')
    BY <1>2 DEF Mapped
  <2>3. Phase' = Phase /\ Members' = Members
    BY <1>1, <2>1, <2>2
  <2>4. QED
    BY <1>1, <2>3 DEF S!vars
<1>3. CASE a \in Clears /\ projectToExecutors # None
  <2>1. Goto(a, "connecting") /\ executors'[a] = projectToExecutors
    BY <1>3 DEF LoadExecutors, TypeInv, TypeOK
  <2>2. a \in Pending' /\ pc'[a] = "connecting" /\ next[a] = 1
    BY <2>1, GotoFacts DEF TypeInv, Finished, Fresh
  <2>3. Phase' = "clearing" /\ Members' = Uncleaned(a)'
    BY <1>3, <2>2 DEF Mapped
  <2>4. Phase = "open" /\ Members = Range(projectToExecutors)
    BY <1>3 DEF Mapped
  <2>5. Uncleaned(a)' = Range(projectToExecutors)
    <3>1. projectToExecutors \in Lists
      BY <1>3 DEF TypeInv, TypeOK
    <3>2. \A j \in DOMAIN projectToExecutors : j >= 1
      BY <3>1, ListFacts, NIsNat
    <3>3. {j \in DOMAIN projectToExecutors : j >= 1} = DOMAIN projectToExecutors
      BY <3>2
    <3>4. Uncleaned(a)' = {projectToExecutors[i] : i \in {j \in DOMAIN projectToExecutors : j >= 1}}
      BY <1>1, <2>1, <2>2 DEF Uncleaned
    <3>5. QED
      BY <3>3, <3>4 DEF Range
  <2>6. QED
    BY <1>1, <2>3, <2>4, <2>5 DEF S!BeginClear
<1>4. QED
  <2>1. PICK place \in {"refused", "connecting"} :
          Goto(a, place) /\ (place = "refused" <=> projectToExecutors = None)
    BY DEF LoadExecutors
  <2>2. CASE a \in Forwards \/ place = "refused"
    BY <1>2, <2>1, <2>2, GotoFacts DEF TypeInv, Finished
  <2>3. QED
    BY <1>3, <2>1, <2>2

(* One executor leaves: the loop calls none twice.                          *)
LEMMA SessionCleans ==
  ASSUME TypeInv, SessionInv, SessionInv', Mapped, Mapped',
         NEW a \in Clears, CleanupEnvironments(a)
  PROVE  S!Next
<1> DEFINE i == next[a]
           p == executors[a][i]
<1> USE DEF Calls
<1>1. pc[a] = "calling" /\ a \in Pending /\ i <= Len(conns[a]) /\ UNCHANGED <<pc, executors, sent>>
  BY DEF CleanupEnvironments, Pending
<1>2. /\ conns[a] = executors[a] /\ executors[a] \in Lists /\ i \in Nat
  BY <1>1, NIsNat DEF SessionInv, Clearing, Matched, TypeInv, TypeOK, N
<1>3. /\ i \in 1..Len(executors[a]) /\ p \in PeerIDs /\ Len(executors[a]) \in 0..N
      /\ DOMAIN executors[a] = 1..Len(executors[a])
  BY <1>1, <1>2, ListFacts, NIsNat DEF TypeInv, TypeOK
<1>4. next'[a] = i + 1
  BY <1>2, <1>3, NIsNat DEF CleanupEnvironments, TypeInv, TypeOK
<1>5. \E left \in {"none", "stuck"} : env' = [env EXCEPT ![p] = left]
  BY <1>2 DEF CleanupEnvironments
<1>6. Pending' = Pending
  BY <1>1 DEF Pending
<1>7. /\ Phase = "clearing" /\ Members = Uncleaned(a)
      /\ Phase' = "clearing" /\ Members' = Uncleaned(a)'
  BY <1>1, <1>6 DEF Mapped
<1>8. p \in Uncleaned(a) /\ Uncleaned(a)' = Uncleaned(a) \ {p}
  <2>1. i \in {j \in DOMAIN executors[a] : j >= i}
    BY <1>2, <1>3
  <2>2. p \in Uncleaned(a)
    BY <2>1 DEF Uncleaned
  <2>3. {j \in DOMAIN executors[a] : j >= i + 1} = {j \in DOMAIN executors[a] : j >= i} \ {i}
    BY <1>2, <1>3, NIsNat
  <2>4. \A j \in DOMAIN executors[a] : executors[a][j] = p => j = i
    BY <1>2, <1>3, ListFacts
  <2>5. Uncleaned(a)' = {executors[a][j] : j \in {j \in DOMAIN executors[a] : j >= i + 1}}
    BY <1>1, <1>4 DEF Uncleaned
  <2>6. QED
    BY <2>2, <2>3, <2>4, <2>5 DEF Uncleaned
<1>9. S!Clean(p)
  BY <1>1, <1>5, <1>7, <1>8 DEF S!Clean
<1>10. QED
  BY <1>3, <1>9 DEF S!Next

(* The session closes when the executors are forgotten, all cleaned up.     *)
LEMMA SessionCloses ==
  ASSUME TypeInv, SessionInv, SessionInv', Mapped, Mapped', NEW a \in Clears,
         EnvironmentsCleaned(a) \/ ForgetExecutors(a) \/ DropConns(a)
  PROVE  S!Close \/ UNCHANGED S!vars
<1> USE DEF Calls
<1>1. /\ a \in Pending /\ Pending = {a}
      /\ UNCHANGED <<executors, next, env, sent>>
  <2>1. a \in Pending
    BY DEF EnvironmentsCleaned, ForgetExecutors, DropConns, Pending
  <2>2. QED
    BY <2>1, AloneFacts DEF EnvironmentsCleaned, ForgetExecutors, DropConns, local
<1>2. Uncleaned(a)' = Uncleaned(a)
  BY <1>1 DEF Uncleaned
<1>3. CASE EnvironmentsCleaned(a)
  <2>1. pc[a] = "calling" /\ a \in Pending' /\ pc'[a] = "forgetting"
    BY <1>3, GotoFacts DEF EnvironmentsCleaned, TypeInv, Finished
  <2>2. Phase' = Phase /\ Members' = Members
    BY <1>1, <1>2, <2>1 DEF Mapped
  <2>3. QED
    BY <1>1, <2>2 DEF S!vars
<1>4. CASE ForgetExecutors(a)
  <2>1. pc[a] = "forgetting" /\ a \in Pending' /\ pc'[a] = "dropping"
    BY <1>4, GotoFacts DEF ForgetExecutors, TypeInv, Finished
  <2>2. /\ executors[a] = grpcClients /\ conns[a] = grpcClients /\ executors[a] \in Lists
        /\ next[a] > Len(conns[a]) /\ next[a] \in Nat
    BY <1>1, <2>1, NIsNat DEF SessionInv, Clearing, Matched, TypeInv, TypeOK
  <2>3. {j \in DOMAIN executors[a] : j >= next[a]} = {}
    BY <2>2, ListFacts, NIsNat
  <2>4. Uncleaned(a) = {}
    BY <2>3 DEF Uncleaned
  <2>5. Phase = "clearing" /\ Members = {} /\ Phase' = "closed" /\ Members' = {}
    BY <1>1, <2>1, <2>4 DEF Mapped
  <2>6. QED
    BY <1>1, <2>5 DEF S!Close
<1>5. CASE DropConns(a)
  <2>1. pc[a] = "dropping" /\ Pending' = {} /\ UNCHANGED projectToExecutors
    BY <1>1, <1>5, GotoFacts DEF DropConns, TypeInv, Finished
  <2>2. projectToExecutors = None
    BY <1>1, <2>1 DEF SessionInv, Clearing
  <2>3. Phase = "closed" /\ Members = {} /\ Phase' = "closed" /\ Members' = {}
    BY <1>1, <2>1, <2>2 DEF Mapped
  <2>4. QED
    BY <1>1, <2>3 DEF S!vars
<1>6. QED
  BY <1>3, <1>4, <1>5

LEMMA SessionSimulates ==
  ASSUME Silent, TypeInv, SessionInv, SessionInv', Mapped, Mapped', [Next]_vars
  PROVE  [S!Next]_(S!vars)
<1>1. ASSUME UNCHANGED <<projectToExecutors, pc, local, env, sent>> PROVE UNCHANGED S!vars
  <2>1. Pending' = Pending /\ \A a \in Clears : Uncleaned(a)' = Uncleaned(a)
    BY <1>1 DEF Pending, Uncleaned, local
  <2>2. Preparing' = Preparing /\ Cleaning' = Cleaning
    BY <1>1, <2>1 DEF Preparing, Cleaning
  <2>3. Phase' = Phase
    BY <1>1, <2>2 DEF Phase
  <2>4. Members' = Members
    <3>1. ASSUME NEW a \in Inits, a \in Pending PROVE Members' = Members
      <4>1. Members = Range(ready[a]) /\ Members' = Range(ready'[a])
        BY <2>1, <3>1 DEF Mapped
      <4>2. QED
        BY <1>1, <4>1 DEF local
    <3>2. ASSUME NEW a \in Clears, a \in Pending PROVE Members' = Members
      <4>1. pc'[a] = pc[a] /\ a \in Pending'
        BY <1>1, <2>1, <3>2
      <4>2. CASE pc[a] = "dropping"
        BY <3>2, <4>1, <4>2 DEF Mapped
      <4>3. CASE pc[a] # "dropping"
        BY <2>1, <3>2, <4>1, <4>3 DEF Mapped
      <4>4. QED
        BY <4>2, <4>3
    <3>3. ASSUME Pending \subseteq Forwards PROVE Members' = Members
      <4>1. Pending' \subseteq Forwards /\ projectToExecutors' = projectToExecutors
        BY <1>1, <2>1, <3>3
      <4>2. CASE projectToExecutors = None
        BY <3>3, <4>1, <4>2 DEF Mapped
      <4>3. CASE projectToExecutors # None
        BY <3>3, <4>1, <4>3 DEF Mapped
      <4>4. QED
        BY <4>2, <4>3
    <3>4. QED
      BY <3>1, <3>2, <3>3 DEF Pending, Calls
  <2>5. QED
    BY <1>1, <2>3, <2>4 DEF S!vars
<1>2. ASSUME NEW a \in Calls, LoadConns(a) \/ StoreConns(a) PROVE UNCHANGED S!vars
  BY <1>2, SessionConnects
<1>3. ASSUME NEW a \in Inits,
             InitializeBuildEnv(a) \/ PrepareEnvironments(a) \/ EnvironmentsPrepared(a)
      PROVE  [S!Next]_(S!vars)
  BY <1>3, SessionBegins, SessionPrepares, SessionOpens DEF S!Next
<1>4. ASSUME NEW a \in Forwards, ForwardAndExecute(a) \/ TryExecuteWithRetry(a)
      PROVE  [S!Next]_(S!vars)
  <2>1. a \notin Clears
    BY ProjectEnvAssumption
  <2>2. QED
    BY <1>4, <2>1, SessionLoads, SessionForwards DEF ForwardAndExecute, MayForward, S!Next
<1>5. ASSUME NEW a \in Clears,
             \/ ClearBuildEnv(a) \/ CleanupEnvironments(a) \/ EnvironmentsCleaned(a)
             \/ ForgetExecutors(a) \/ DropConns(a)
      PROVE  [S!Next]_(S!vars)
  BY <1>5, SessionLoads, SessionCleans, SessionCloses DEF ClearBuildEnv, MayClear, S!Next
<1>6. QED
  BY <1>1, <1>2, <1>3, <1>4, <1>5 DEF Next, vars, PeersStep

(* For any number of daemons, sessions and concurrent commands, and          *)
(* whatever peers come and go, the proxy makes one session after the other: *)
(* it prepares each of the executors once, sends commands to exactly those, *)
(* and cleans each of them up once before it closes, provided no executor   *)
(* fails to prepare in a way the proxy sees.                                *)
THEOREM ProjectImplementsSession ==
  ASSUME Silent
  PROVE  Spec => SessionSpec
<1>1. Init => S!Init
  <2> SUFFICES ASSUME Init PROVE S!Init
    OBVIOUS
  <2>1. Pending = {} /\ projectToExecutors = None
    BY DEF Init, Pending
  <2>2. Preparing = {} /\ Cleaning = {}
    BY <2>1 DEF Preparing, Cleaning
  <2>3. Phase = "closed"
    BY <2>1, <2>2 DEF Phase
  <2>4. Members = {}
    BY <2>3 DEF Members
  <2>5. QED
    BY <2>3, <2>4 DEF Init, S!Init
<1>2. TypeInv /\ SessionInv /\ SessionInv' /\ Mapped /\ Mapped' /\ [Next]_vars => [S!Next]_(S!vars)
  BY SessionSimulates
<1>3. QED
  BY <1>1, <1>2, TypeInvCorrect, SessionCorrect, MappedHolds, PTL DEF Spec, SessionSpec, S!Spec

-----------------------------------------------------------------------------
(* The local executor.  It is always among the executors of a client that  *)
(* asks for as many as there are daemons.                                  *)

AllAsked == WorkerNum >= Cardinality(PeerIDs)

Present ==
  /\ \A a \in Inits : a \in Pending => Self \in Range(executors[a])
  /\ projectToExecutors # None => Self \in Range(projectToExecutors)

LEMMA AllPicked ==
  ASSUME AllAsked, PeersTypeOK, NoGhosts, NEW picked \in PickActiveExecutors
  PROVE  Self \in Range(picked)
<1>1. peers \in SUBSET PeerIDs
  BY DEF PeersTypeOK
<1>2. IsFiniteSet(peers) /\ Cardinality(peers) <= N
  BY <1>1, FS_Subset, ProjectEnvAssumption DEF N
<1>3. Cardinality(peers) \in Nat
  BY <1>2, FS_CardinalityType
<1>4. Min({WorkerNum, Cardinality(peers)}) = Cardinality(peers)
  BY <1>2, <1>3, NIsNat, ProjectEnvAssumption DEF Min, AllAsked, N
<1>5. Range(picked) \in SUBSET peers /\ Cardinality(Range(picked)) = Cardinality(peers)
  BY <1>4 DEF PickActiveExecutors, kSubset
<1>6. Range(picked) = peers
  BY <1>2, <1>5, FS_Subset
<1>7. QED
  BY <1>6 DEF NoGhosts

LEMMA PresentStep ==
  ASSUME AllAsked, TypeInv, NoGhosts, SessionInv, Present, NeverDies, [Next]_vars
  PROVE  Present'
<1> USE DEF Calls
<1>1. ASSUME UNCHANGED <<projectToExecutors, executors>>, \A a \in Inits : a \in Pending' => a \in Pending
      PROVE  Present'
  BY <1>1 DEF Present
<1>2. ASSUME NEW a \in Calls, NEW place, Goto(a, place), UNCHANGED <<projectToExecutors, executors>>,
             a \in Pending \/ a \notin Inits
      PROVE  Present'
  BY <1>1, <1>2, GotoFacts, ProjectEnvAssumption DEF TypeInv, Pending
<1>3. ASSUME NEW a \in Inits, InitializeBuildEnv(a) PROVE Present'
  <2>1. PICK picked \in PickActiveExecutors :
          IF picked = <<>>
          THEN Goto(a, "failed") /\ UNCHANGED executors
          ELSE Goto(a, "connecting") /\ executors' = [executors EXCEPT ![a] = picked]
    BY <1>3 DEF InitializeBuildEnv
  <2>2. Self \in Range(picked)
    BY AllPicked DEF TypeInv, TypeOK
  <2>3. UNCHANGED projectToExecutors
    BY <1>3 DEF InitializeBuildEnv
  <2>4. CASE Goto(a, "failed") /\ UNCHANGED executors
    BY <2>3, <2>4, <1>1, GotoFacts DEF TypeInv, Finished
  <2>5. CASE Goto(a, "connecting") /\ executors' = [executors EXCEPT ![a] = picked]
    <3>1. executors'[a] = picked /\ \A b \in Calls : b # a => executors'[b] = executors[b]
      BY <2>5 DEF TypeInv, TypeOK
    <3>2. Pending' = Pending \cup {a}
      BY <2>5, GotoFacts DEF TypeInv, Finished
    <3>3. QED
      BY <2>2, <2>3, <3>1, <3>2 DEF Present
  <2>6. QED
    BY <2>1, <2>4, <2>5
<1>4. ASSUME NEW a \in Inits, EnvironmentsPrepared(a) PROVE Present'
  <2>1. Pending' = {}
    BY <1>4, AllPrepared, GotoFacts DEF TypeInv, Finished
  <2>2. QED
    BY <1>4, <2>1, AllPrepared DEF Present
<1>5. ASSUME NEW a \in Forwards \cup Clears, LoadExecutors(a), pc[a] = "idle" PROVE Present'
  <2>1. PICK place : Goto(a, place)
    BY <1>5 DEF LoadExecutors
  <2>2. UNCHANGED projectToExecutors /\ \A b \in Inits : executors'[b] = executors[b]
    BY <1>5, ProjectEnvAssumption DEF LoadExecutors, TypeInv, TypeOK
  <2>3. \A b \in Inits : b \in Pending' => b \in Pending
    BY <1>5, <2>1, GotoFacts, ProjectEnvAssumption DEF TypeInv
  <2>4. QED
    BY <2>2, <2>3 DEF Present
<1>6. ASSUME NEW a \in Calls, LoadConns(a) \/ StoreConns(a) PROVE Present'
  <2>1. PICK place : Goto(a, place)
    BY <1>6 DEF LoadConns, StoreConns
  <2>2. QED
    BY <1>2, <1>6, <2>1 DEF LoadConns, StoreConns, Pending
<1>7. ASSUME NEW a \in Calls,
             \/ PrepareEnvironments(a) \/ CleanupEnvironments(a)
             \/ PeersStep \/ UNCHANGED vars
      PROVE  Present'
  BY <1>1, <1>7 DEF PrepareEnvironments, CleanupEnvironments, PeersStep, vars, local, Pending
<1>8. ASSUME NEW a \in Forwards, TryExecuteWithRetry(a) PROVE Present'
  <2>1. a \notin Inits
    BY ProjectEnvAssumption
  <2>2. UNCHANGED <<projectToExecutors, executors>> /\ (Goto(a, "ok") \/ UNCHANGED pc)
    BY <1>8 DEF TryExecuteWithRetry, local
  <2>3. QED
    BY <1>1, <1>2, <2>1, <2>2 DEF Pending
<1>9. ASSUME NEW a \in Clears, EnvironmentsCleaned(a) \/ DropConns(a) PROVE Present'
  <2>1. PICK place : Goto(a, place)
    BY <1>9 DEF EnvironmentsCleaned, DropConns
  <2>2. QED
    BY <1>2, <1>9, <2>1 DEF EnvironmentsCleaned, DropConns, local, Pending
<1>10. ASSUME NEW a \in Clears, ForgetExecutors(a) PROVE Present'
  <2>1. Goto(a, "dropping") /\ projectToExecutors' = None /\ UNCHANGED executors /\ a \in Pending
    BY <1>10 DEF ForgetExecutors, local, Pending
  <2>2. Pending' = Pending \cup {a}
    BY <2>1, GotoFacts DEF TypeInv, Finished
  <2>3. QED
    BY <2>1, <2>2 DEF Present
<1>11. QED
  <2>1. CASE UNCHANGED vars \/ PeersStep
    BY <2>1, <1>1 DEF PeersStep, vars, local, Pending
  <2>2. QED
    BY <2>1, <1>3, <1>4, <1>5, <1>6, <1>7, <1>8, <1>9, <1>10
    DEF Next, ForwardAndExecute, ClearBuildEnv, MayForward, MayClear

LEMMA UpStep ==
  ASSUME Silent, TypeInv, SessionInv, Present, NeverDies, [Next]_vars
  PROVE  NeverDies'
<1> USE DEF Calls, NeverDies
<1>1. daemon' # "panicked"
  BY SessionStep DEF SessionInv
<1>2. ASSUME NEW a \in Forwards, TryExecuteWithRetry(a) PROVE NeverDies'
  <2>1. a \in Pending /\ pc[a] = "calling"
    BY <1>2 DEF TryExecuteWithRetry, Pending
  <2>2. Self \in Range(executors[a])
    BY <2>1 DEF SessionInv, Forwarding, Present
  <2>3. QED
    BY <1>1, <1>2, <2>2 DEF TryExecuteWithRetry, Die
<1>3. QED
  BY <1>1, <1>2
  DEF Next, vars, LoadConns, StoreConns, InitializeBuildEnv, PrepareEnvironments,
      EnvironmentsPrepared, ForwardAndExecute, LoadExecutors, ClearBuildEnv, CleanupEnvironments,
      EnvironmentsCleaned, ForgetExecutors, DropConns, PeersStep, Die

(* A client that asks for as many executors as there are daemons never ends *)
(* the proxy, whatever peers come and go and however many sessions it        *)
(* makes, provided no executor fails to prepare in a way the proxy sees.     *)
THEOREM ProxyNeverDies ==
  ASSUME Silent, AllAsked
  PROVE  Spec => []NeverDies
<1>1. Init => Present /\ NeverDies
  BY DEF Init, Present, NeverDies, Pending
<1>2. TypeInv /\ NoGhosts /\ SessionInv /\ Present /\ NeverDies /\ [Next]_vars => Present' /\ NeverDies'
  BY PresentStep, UpStep
<1>3. QED
  BY <1>1, <1>2, TypeInvCorrect, SessionCorrect, PTL DEF Spec
=============================================================================
