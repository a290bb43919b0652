------------------------- MODULE WrappedNodeProofs --------------------------
(***************************************************************************)
(* Theorems about the two threads that may delete one wrapped program, for *)
(* any number of programs started.                                         *)
(***************************************************************************)
EXTENDS WrappedNode, TLAPS

AllReaped == \A k \in 1 .. Len(children) : children[k].state = "reaped"

\* Within ~RWPopen, after the close() that only one thread gets through.
Past == {"kill", "wait", "reset"}

\* wrapped_ is NULL or the newest program, and what the main thread knows.
WrappedInvariant ==
    /\ wrapped \in {0, Len(children)}
    /\ pc["main"] \in {"joining", "operating", "leaving"} => wrapped # 0
    /\ pc["main"] = "ready" => (connected <=> wrapped # 0)
    /\ pc["main"] \in {"operating", "leaving"} => connected
    /\ pc["main"] \in {"retry", "forked"} => wrapped = 0
    /\ pc["main"] = "forked" => children # <<>>
    /\ wrapped = 0 /\ pc["main"] # "forked" => AllReaped

\* Who deletes what: the newest program in the main thread; in the other one,
\* perhaps an older one.
TargetInvariant ==
    /\ \A t \in Threads : pc[t] \in {"close"} \cup Past => target[t] # 0
    /\ pc["main"] \in {"close"} \cup Past => target["main"] = Len(children)
    /\ pc["main"] = "reset" => AllReaped
    /\ \A t \in Threads :
          pc[t] = "wait" => children[target[t]].state # "reaped"

(***************************************************************************)
(* close() as a lock: the pipes are open from a fork to the first close(), *)
(* so a thread past it is alone, and the main thread forks no program      *)
(* before it has been past it itself.                                      *)
(***************************************************************************)
CloseInvariant ==
    /\ \A t \in Threads : pc[t] \in Past => fds = "closed"
    /\ fds = "open" \/ pc["timer"] \in Past =>
          /\ pc["main"] \notin {"retry"} \cup Past
          /\ pc["main"] = "ready" => connected

\* What main() finds when it returns, the timeout thread having slept.
EndInvariant ==
    /\ pc["timer"] = "ended" => pc["main"] = "join"
    /\ pc["timer"] \in {"sleep", "ended"} =>
          IF pc["main"] \in {"unlock", "join"} THEN AllReaped ELSE dhtNode
    /\ NothingSurvives

NodeInvariant ==
    /\ TypeOK /\ OneProgramAtATime /\ WrappedInvariant /\ TargetInvariant
    /\ CloseInvariant /\ EndInvariant

-----------------------------------------------------------------------------
(* The main thread *)

\* Setting a field of one program leaves the number of programs and all the
\* other programs as they are.
LEMMA SetChild ==
    ASSUME NEW s \in Seq(Child), NEW k \in 1 .. Len(s), NEW d \in Child
    PROVE  /\ [s EXCEPT ![k] = d] \in Seq(Child)
           /\ Len([s EXCEPT ![k] = d]) = Len(s)
           /\ \A j \in 1 .. Len(s) :
                 [s EXCEPT ![k] = d][j] = IF j = k THEN d ELSE s[j]
  OBVIOUS

\* A node that has not started anything.
LEMMA InitNode ==
    Init => NodeInvariant
  <1> SUFFICES ASSUME Init PROVE NodeInvariant
    OBVIOUS
  <1> USE DEF Init, Threads
  <1>1. TypeOK
    <2>1. pc \in [Threads -> Places] /\ target \in [Threads -> 0 .. Len(children)]
      BY DEF Places
    <2>2. /\ children \in Seq(Child) /\ Len(children) = 0 /\ 0 <= MaxChildren
          /\ dht \in Dhts
      BY WrappedAssumption
    <2> QED  BY <2>1, <2>2 DEF TypeOK
  <1>2. OneProgramAtATime /\ WrappedInvariant
    BY DEF OneProgramAtATime, WrappedInvariant, AllReaped
  <1>3. TargetInvariant /\ CloseInvariant
    BY DEF TargetInvariant, CloseInvariant, Past
  <1>4. EndInvariant
    BY DEF EndInvariant, NothingSurvives
  <1> QED  BY <1>1, <1>2, <1>3, <1>4 DEF NodeInvariant

\* A program is started only when all the earlier ones are reaped, and no
\* thread is past its close().
LEMMA ForkStep ==
    ASSUME NodeInvariant, Fork, UNCHANGED dht
    PROVE  NodeInvariant'
  <1> USE DEF NodeInvariant, Fork, At, Goto, nodeVars, Threads
  <1>1. TypeOK'
    <2>1. PICK d \in Child : children' = Append(children, d)
      BY DEF Child
    <2>2. /\ children' \in Seq(Child) /\ Len(children') = Len(children) + 1
      BY <2>1 DEF TypeOK
    <2>3. Len(children') <= MaxChildren
      BY <2>2, WrappedAssumption DEF TypeOK
    <2> QED  BY <2>2, <2>3 DEF TypeOK, Places
  <1>2. OneProgramAtATime'
    BY DEF TypeOK, OneProgramAtATime, WrappedInvariant, AllReaped
  <1>3. WrappedInvariant'
    BY DEF TypeOK, WrappedInvariant, AllReaped
  <1>4. TargetInvariant'
    BY DEF TypeOK, TargetInvariant, CloseInvariant, WrappedInvariant, Past
  <1>5. CloseInvariant'
    BY DEF TypeOK, WrappedInvariant, CloseInvariant, Past
  <1>6. EndInvariant'
    BY DEF TypeOK, EndInvariant, NothingSurvives, AllReaped
  <1> QED  BY <1>1, <1>2, <1>3, <1>4, <1>5, <1>6

\* wrapped_ becomes the newest program.
LEMMA AssignStep ==
    ASSUME NodeInvariant, Assign, UNCHANGED dht
    PROVE  NodeInvariant'
  <1> USE DEF NodeInvariant, Assign, At, Goto, nodeVars, Threads
  <1>1. TypeOK'
    BY DEF TypeOK, Places, Deleting
  <1>2. OneProgramAtATime'
    BY DEF OneProgramAtATime
  <1>3. WrappedInvariant'
    BY DEF TypeOK, WrappedInvariant, AllReaped
  <1>4. TargetInvariant'
    BY DEF TypeOK, TargetInvariant, AllReaped, Past
  <1>5. CloseInvariant'
    BY DEF TypeOK, WrappedInvariant, CloseInvariant, Past
  <1>6. EndInvariant'
    BY DEF TypeOK, EndInvariant, NothingSurvives, AllReaped
  <1> QED  BY <1>1, <1>2, <1>3, <1>4, <1>5, <1>6

\* The main thread is connected to the program it waited for.
LEMMA JoinSucceedsStep ==
    ASSUME NodeInvariant, JoinSucceeds, UNCHANGED dht
    PROVE  NodeInvariant'
  <1> USE DEF NodeInvariant, JoinSucceeds, At, Goto, pipeVars, nodeVars, Threads
  <1>1. TypeOK'
    BY DEF TypeOK, Places, Deleting
  <1>2. OneProgramAtATime'
    BY DEF OneProgramAtATime
  <1>3. WrappedInvariant'
    BY DEF TypeOK, WrappedInvariant, AllReaped
  <1>4. TargetInvariant'
    BY DEF TypeOK, TargetInvariant, AllReaped, Past
  <1>5. CloseInvariant'
    BY DEF TypeOK, WrappedInvariant, CloseInvariant, Past
  <1>6. EndInvariant'
    BY DEF TypeOK, EndInvariant, NothingSurvives, AllReaped
  <1> QED  BY <1>1, <1>2, <1>3, <1>4, <1>5, <1>6

\* The main thread is about to delete the newest program; or the process
\* ends, as when KaddemoWrapper meets the end of its pipe.
LEMMA MainDeletesStep ==
    ASSUME NodeInvariant, JoinFails \/ JoinEof \/ Bye, UNCHANGED dht
    PROVE  NodeInvariant'
  <1> USE DEF NodeInvariant, JoinFails, JoinEof, Bye,
              At, Goto, Exit, StartDelete,
              Eof, nodeVars, Threads
  <1>1. TypeOK'
    BY DEF TypeOK, Places, Deleting
  <1>2. OneProgramAtATime'
    BY DEF OneProgramAtATime
  <1>3. WrappedInvariant'
    BY DEF TypeOK, WrappedInvariant, AllReaped
  <1>4. TargetInvariant'
    BY DEF TypeOK, TargetInvariant, WrappedInvariant, AllReaped, Past
  <1>5. CloseInvariant'
    BY DEF TypeOK, WrappedInvariant, CloseInvariant, Past
  <1>6. EndInvariant'
    BY DEF TypeOK, EndInvariant, NothingSurvives, AllReaped
  <1> QED  BY <1>1, <1>2, <1>3, <1>4, <1>5, <1>6

\* The main thread goes on, having changed nothing of its program.
LEMMA MainMovesStep ==
    ASSUME NodeInvariant, UNCHANGED dht,
           Operate \/ OperationReturns \/ Leave \/ ReportResults \/ Destroy
    PROVE  NodeInvariant'
  <1> USE DEF NodeInvariant, Operate, OperationReturns, Leave, ReportResults, Destroy,
              At, Goto, pipeVars, nodeVars, Threads
  <1>1. TypeOK'
    BY DEF TypeOK, Places, Deleting
  <1>2. OneProgramAtATime'
    BY DEF OneProgramAtATime
  <1>3. WrappedInvariant'
    BY DEF TypeOK, WrappedInvariant, AllReaped
  <1>4. TargetInvariant'
    BY DEF TypeOK, TargetInvariant, AllReaped, Past
  <1>5. CloseInvariant'
    BY DEF TypeOK, WrappedInvariant, CloseInvariant, Past
  <1>6. EndInvariant'
    BY DEF TypeOK, EndInvariant, NothingSurvives, AllReaped
  <1> QED  BY <1>1, <1>2, <1>3, <1>4, <1>5, <1>6

-----------------------------------------------------------------------------
(* cleanup() and ~RWPopen *)

\* A thread is about to delete the node.
LEMMA TimeoutStep ==
    ASSUME NodeInvariant, TimeoutFires, UNCHANGED dht
    PROVE  NodeInvariant'
  <1> USE DEF NodeInvariant, TimeoutFires, At, Goto, pipeVars, nodeVars, Threads
  <1>1. TypeOK'
    BY DEF TypeOK, Places, Deleting
  <1>2. OneProgramAtATime'
    BY DEF OneProgramAtATime
  <1>3. WrappedInvariant'
    BY DEF TypeOK, WrappedInvariant, AllReaped
  <1>4. TargetInvariant'
    BY DEF TypeOK, TargetInvariant, AllReaped, Past
  <1>5. CloseInvariant'
    BY DEF TypeOK, WrappedInvariant, CloseInvariant, Past
  <1>6. EndInvariant'
    BY DEF TypeOK, EndInvariant, NothingSurvives, AllReaped
  <1> QED  BY <1>1, <1>2, <1>3, <1>4, <1>5, <1>6

\* A thread has cleanupMutex_.
LEMMA LockStep ==
    ASSUME NodeInvariant, NEW t \in Threads, Lock(t), UNCHANGED dht
    PROVE  NodeInvariant'
  <1> USE DEF NodeInvariant, Lock, At, Goto, pipeVars, nodeVars, Threads
  <1>1. TypeOK'
    BY DEF TypeOK, Places, Deleting
  <1>2. OneProgramAtATime'
    BY DEF OneProgramAtATime
  <1>3. WrappedInvariant'
    BY DEF TypeOK, WrappedInvariant, AllReaped
  <1>4. TargetInvariant'
    BY DEF TypeOK, TargetInvariant, AllReaped, Past
  <1>5. CloseInvariant'
    BY DEF TypeOK, WrappedInvariant, CloseInvariant, Past
  <1>6. EndInvariant'
    BY DEF TypeOK, EndInvariant, NothingSurvives, AllReaped
  <1> QED  BY <1>1, <1>2, <1>3, <1>4, <1>5, <1>6

\* A thread deletes what wrapped_ holds, or finds that there is no program
\* to delete.
LEMMA DeleteNodeStep ==
    ASSUME NodeInvariant, NEW t \in Threads, DeleteNode(t), UNCHANGED dht
    PROVE  NodeInvariant'
  <1>1. /\ children' = children
        /\ \A k \in 1 .. Len(children) : children'[k] = children[k]
    BY DEF DeleteNode
  <1>2. OneProgramAtATime'
    BY <1>1 DEF NodeInvariant, OneProgramAtATime
  <1>3. TypeOK'
    <2>1. TypeOK
      BY DEF NodeInvariant
    <2>2. \E place \in {"close", "unlock"} : pc' = [pc EXCEPT ![t] = place]
      BY DEF DeleteNode, StartDelete, Goto
    <2>3. target' = target \/ target' = [target EXCEPT ![t] = wrapped]
      BY DEF DeleteNode, StartDelete
    <2>4. pc' \in [Threads -> Places] /\ target' \in [Threads -> 0 .. Len(children)]
      BY <2>1, <2>2, <2>3 DEF TypeOK, Places, Deleting
    <2>5. dhtNode' \in BOOLEAN
      BY <2>1 DEF DeleteNode, TypeOK
    <2>6. QED
      BY <2>1, <2>4, <2>5 DEF DeleteNode, TypeOK
  <1> USE DEF NodeInvariant, DeleteNode, At, Goto, StartDelete, Threads
  <1>4. WrappedInvariant'
    BY DEF TypeOK, WrappedInvariant, AllReaped
  <1>5. TargetInvariant'
    BY DEF TypeOK, TargetInvariant, WrappedInvariant, AllReaped, Past
  <1>6. CloseInvariant'
    BY DEF TypeOK, WrappedInvariant, CloseInvariant, Past
  <1>7. EndInvariant'
    BY DEF TypeOK, EndInvariant, WrappedInvariant, NothingSurvives, AllReaped
  <1> QED  BY <1>3, <1>2, <1>4, <1>5, <1>6, <1>7

\* One of the two threads gets past close(); the process ends at the other.
LEMMA CloseStep ==
    ASSUME NodeInvariant, NEW t \in Threads, Close(t), UNCHANGED dht
    PROVE  NodeInvariant'
  <1> USE DEF NodeInvariant, Close, At, Goto, Exit, nodeVars, Threads
  <1>1. TypeOK'
    BY DEF TypeOK, Places, Deleting
  <1>2. OneProgramAtATime'
    BY DEF OneProgramAtATime
  <1>3. WrappedInvariant'
    BY DEF TypeOK, WrappedInvariant, AllReaped
  <1>4. TargetInvariant'
    BY DEF TypeOK, TargetInvariant, AllReaped, Past
  <1>5. CloseInvariant'
    BY DEF TypeOK, WrappedInvariant, CloseInvariant, Past
  <1>6. EndInvariant'
    BY DEF TypeOK, EndInvariant, NothingSurvives, AllReaped
  <1> QED  BY <1>1, <1>2, <1>3, <1>4, <1>5, <1>6

\* The program a thread past close() signals is there.
LEMMA KillStep ==
    ASSUME NodeInvariant, NEW t \in Threads, Kill(t), UNCHANGED dht
    PROVE  NodeInvariant'
  <1> USE DEF NodeInvariant, Kill, At, Goto, nodeVars, Threads
  <1>1. CASE children[target[t]].state = "reaped"
    <2> USE <1>1 DEF Exit, pipeVars
    <2>1. TypeOK' /\ OneProgramAtATime' /\ WrappedInvariant'
      BY DEF TypeOK, OneProgramAtATime, WrappedInvariant, AllReaped
    <2>2. TargetInvariant' /\ CloseInvariant' /\ EndInvariant'
      BY DEF TargetInvariant, CloseInvariant, EndInvariant, NothingSurvives, AllReaped
    <2> QED  BY <2>1, <2>2
  <1>2. CASE children[target[t]].state # "reaped"
    <2> USE <1>2
    <2>1. target[t] \in 1 .. Len(children)
      BY DEF TypeOK, TargetInvariant, Past
    <2>2. PICK d \in Child : /\ d.state = children[target[t]].state
                             /\ children' = [children EXCEPT ![target[t]] = d]
      <3>1. children[target[t]] \in Child
        BY <2>1 DEF TypeOK
      <3> QED  BY <3>1 DEF Child
    <2>3. /\ children' \in Seq(Child) /\ Len(children') = Len(children)
          /\ \A k \in 1 .. Len(children) : children'[k].state = children[k].state
      BY <2>1, <2>2, SetChild DEF TypeOK
    <2>4. TypeOK'
      BY <2>3 DEF TypeOK, Places, Deleting
    <2>5. OneProgramAtATime' /\ (AllReaped <=> AllReaped')
      <3> HIDE DEF NodeInvariant, Kill, At, Goto, nodeVars, Threads
      <3>1. OneProgramAtATime /\ Len(children) \in Nat
        BY DEF NodeInvariant, TypeOK
      <3>2. OneProgramAtATime'
        BY <2>3, <3>1 DEF OneProgramAtATime
      <3>3. AllReaped <=> AllReaped'
        BY <2>3 DEF AllReaped
      <3>4. QED
        BY <3>2, <3>3
    <2>6. WrappedInvariant'
      BY <2>3, <2>5 DEF TypeOK, WrappedInvariant
    <2>7. TargetInvariant'
      BY <2>1, <2>3, <2>5 DEF TypeOK, TargetInvariant, Past
    <2>8. CloseInvariant'
      BY DEF TypeOK, CloseInvariant, Past
    <2>9. EndInvariant'
      BY <2>5 DEF TypeOK, EndInvariant, NothingSurvives
    <2> QED  BY <2>4, <2>5, <2>6, <2>7, <2>8, <2>9
  <1> QED  BY <1>1, <1>2

\* A thread has waited for its program, which stays reaped: the other one is
\* not in its wait(), and the programs before it are reaped already.
LEMMA WaitStep ==
    ASSUME NodeInvariant, NEW t \in Threads, Wait(t), UNCHANGED dht
    PROVE  NodeInvariant'
  <1> USE DEF NodeInvariant, Wait, At, Goto, nodeVars, Threads
  <1>1. target[t] \in 1 .. Len(children)
    BY DEF TypeOK, TargetInvariant, Past
  <1>2. PICK d \in Child : /\ d.state = "reaped"
                           /\ children' = [children EXCEPT ![target[t]] = d]
    <2>1. children[target[t]] \in Child
      BY <1>1 DEF TypeOK
    <2> QED  BY <2>1 DEF Child
  <1>3. /\ children' \in Seq(Child) /\ Len(children') = Len(children)
        /\ \A k \in 1 .. Len(children) :
              children'[k].state = IF k = target[t] THEN "reaped" ELSE children[k].state
    BY <1>1, <1>2, SetChild DEF TypeOK
  <1>4. TypeOK'
    BY <1>3 DEF TypeOK, Places, Deleting
  <1>5. OneProgramAtATime' /\ (AllReaped => AllReaped')
    BY <1>3 DEF OneProgramAtATime, AllReaped, TypeOK
  <1>6. WrappedInvariant'
    BY <1>3, <1>5 DEF TypeOK, WrappedInvariant
  <1>7. TargetInvariant'
    <2>1. pc'["main"] = "reset" => AllReaped'
      BY <1>1, <1>3, <1>5 DEF TypeOK, TargetInvariant, OneProgramAtATime, AllReaped, Past
    <2>2. ASSUME NEW u \in Threads, pc'[u] = "wait"
          PROVE  children'[target'[u]].state # "reaped"
      BY <2>2, <1>1, <1>3 DEF TypeOK, TargetInvariant, CloseInvariant, Past
    <2> QED  BY <2>1, <2>2, <1>3 DEF TypeOK, TargetInvariant, Past
  <1>8. CloseInvariant'
    BY DEF TypeOK, CloseInvariant, Past
  <1>9. EndInvariant'
    BY <1>5 DEF TypeOK, EndInvariant, NothingSurvives
  <1> QED  BY <1>4, <1>5, <1>6, <1>7, <1>8, <1>9

\* The main thread forgets its program, which is reaped; cleanup() has deleted
\* the node.
LEMMA ResetStep ==
    ASSUME NodeInvariant, NEW t \in Threads, Reset(t), UNCHANGED dht
    PROVE  NodeInvariant'
  <1> USE DEF NodeInvariant, Reset, At, Goto, Threads
  <1>1. TypeOK'
    <2>1. wrapped' \in 0 .. Len(children)
      BY DEF TypeOK
    <2>2. pc' \in [Threads -> Places]
      BY DEF TypeOK, Places, Deleting
    <2>3. connected' \in BOOLEAN /\ dhtNode' \in BOOLEAN
      <3>1. connected' = connected \/ connected' = FALSE
        OBVIOUS
      <3>2. dhtNode' = dhtNode \/ dhtNode' = FALSE
        OBVIOUS
      <3> QED  BY <3>1, <3>2, Zenon DEF TypeOK
    <2> QED  BY <2>1, <2>2, <2>3 DEF TypeOK
  <1>2. OneProgramAtATime'
    BY DEF OneProgramAtATime
  <1>3. WrappedInvariant'
    BY DEF TypeOK, WrappedInvariant, TargetInvariant, AllReaped
  <1>4. TargetInvariant'
    BY DEF TypeOK, TargetInvariant, AllReaped, Past
  <1>5. CloseInvariant'
    BY DEF TypeOK, CloseInvariant, Past
  <1>6. EndInvariant'
    BY DEF TypeOK, EndInvariant, TargetInvariant, NothingSurvives, AllReaped
  <1> QED  BY <1>1, <1>2, <1>3, <1>4, <1>5, <1>6

\* A thread leaves cleanup(); a sleeping timeout thread is over with it.
LEMMA UnlockStep ==
    ASSUME NodeInvariant, NEW t \in Threads, Unlock(t), UNCHANGED dht
    PROVE  NodeInvariant'
  <1> USE DEF NodeInvariant, Unlock, At, pipeVars, Threads
  <1>1. TypeOK'
    BY DEF TypeOK, Places, Nobody
  <1>2. OneProgramAtATime'
    BY DEF OneProgramAtATime
  <1>3. WrappedInvariant'
    BY DEF TypeOK, WrappedInvariant, AllReaped
  <1>4. TargetInvariant'
    BY DEF TypeOK, TargetInvariant, AllReaped, Past
  <1>5. CloseInvariant'
    BY DEF TypeOK, WrappedInvariant, CloseInvariant, Past
  <1>6. EndInvariant'
    BY DEF TypeOK, EndInvariant, NothingSurvives, AllReaped
  <1> QED  BY <1>1, <1>2, <1>3, <1>4, <1>5, <1>6

\* The process ends, whatever its threads were doing; main() returns only
\* after a cleanup() of its own.
LEMMA ProcessEndsStep ==
    ASSUME NodeInvariant, UNCHANGED dht,
           Return \/ PipeError \/ ForkFails \/ ExitFailure \/ UseAfterFree
    PROVE  NodeInvariant'
  <1> USE DEF NodeInvariant, Return, PipeError, ForkFails, ExitFailure, UseAfterFree,
              At, Exit, pipeVars, nodeVars, Threads
  <1>1. TypeOK'
    BY DEF TypeOK
  <1>2. OneProgramAtATime'
    BY DEF OneProgramAtATime
  <1>3. WrappedInvariant'
    BY DEF WrappedInvariant, AllReaped
  <1>4. TargetInvariant'
    BY DEF TargetInvariant, AllReaped
  <1>5. CloseInvariant'
    BY DEF CloseInvariant
  <1>6. EndInvariant'
    BY DEF EndInvariant, NothingSurvives, AllReaped
  <1> QED  BY <1>1, <1>2, <1>3, <1>4, <1>5, <1>6

-----------------------------------------------------------------------------
(* The program *)

\* A program that ends was not reaped, so all that were still are.
LEMMA ProgramStep ==
    ASSUME NodeInvariant, UNCHANGED dht, NEW k \in 1 .. Len(children),
           ChildEnds(k) \/ InnerEnds(k)
    PROVE  NodeInvariant'
  <1> USE DEF NodeInvariant, nodeVars, Threads
  <1>1. PICK d \in Child :
           /\ children[k].state = "reaped" <=> d.state = "reaped"
           /\ children' = [children EXCEPT ![k] = d]
    <2>1. children[k] \in Child
      BY DEF TypeOK
    <2> QED  BY <2>1 DEF ChildEnds, InnerEnds, Child
  <1>2. /\ children' \in Seq(Child) /\ Len(children') = Len(children)
        /\ \A j \in 1 .. Len(children) :
              children'[j].state = "reaped" <=> children[j].state = "reaped"
    BY <1>1, SetChild DEF TypeOK
  <1>3. UNCHANGED <<pc, wrapped, target, fds, why, connected, dhtNode, mutex, process>>
    BY DEF ChildEnds, InnerEnds
  <1>4. OneProgramAtATime' /\ (AllReaped <=> AllReaped')
    BY <1>2 DEF TypeOK, OneProgramAtATime, AllReaped
  <1>5. TypeOK' /\ CloseInvariant'
    BY <1>2, <1>3 DEF TypeOK, CloseInvariant
  <1>6. WrappedInvariant'
    BY <1>2, <1>3, <1>4 DEF TypeOK, WrappedInvariant
  <1>7. TargetInvariant'
    BY <1>2, <1>3, <1>4 DEF TypeOK, TargetInvariant, Past
  <1>8. EndInvariant'
    BY <1>2, <1>3, <1>4 DEF EndInvariant, NothingSurvives, AllReaped
  <1> QED  BY <1>4, <1>5, <1>6, <1>7, <1>8

-----------------------------------------------------------------------------
(* The specification *)

\* Every step of either thread and of the programs.
LEMMA NodeStep ==
    ASSUME NodeInvariant, [Next]_vars
    PROVE  NodeInvariant'
  <1>1. CASE UNCHANGED vars
    <2> USE <1>1 DEF vars, pipeVars, nodeVars
    <2>1. TypeOK' /\ OneProgramAtATime' /\ WrappedInvariant'
      BY DEF NodeInvariant, TypeOK, OneProgramAtATime, WrappedInvariant, AllReaped
    <2>2. TargetInvariant' /\ CloseInvariant' /\ EndInvariant'
      BY DEF NodeInvariant, TargetInvariant, CloseInvariant, EndInvariant,
             NothingSurvives, AllReaped
    <2> QED  BY <2>1, <2>2 DEF NodeInvariant
  <1>2. CASE Next
    <2>1. "main" \in Threads /\ "timer" \in Threads /\ UNCHANGED dht
      BY <1>2 DEF Threads, Next
    <2>2. CASE Fork \/ ForkFails \/ JoinSucceeds \/ JoinFails \/ Operate
                 \/ OperationReturns \/ Leave \/ Bye \/ ReportResults
      BY <2>1, <2>2, ForkStep, ProcessEndsStep, JoinSucceedsStep, MainDeletesStep,
         MainMovesStep
    <2>3. CASE MainOwes
      BY <2>1, <2>3, AssignStep, MainDeletesStep, ProcessEndsStep, MainMovesStep, LockStep,
         DeleteNodeStep, CloseStep, KillStep, WaitStep, ResetStep, UnlockStep
         DEF MainOwes
    <2>4. CASE TimerOwes
      BY <2>1, <2>4, TimeoutStep, ProcessEndsStep, LockStep, DeleteNodeStep, CloseStep,
         KillStep, WaitStep, ResetStep, UnlockStep DEF TimerOwes
    <2>5. CASE UseAfterFree
      BY <2>1, <2>5, ProcessEndsStep
    <2>6. CASE \E k \in 1 .. Len(children) : ChildEnds(k) \/ InnerEnds(k)
      BY <2>1, <2>6, ProgramStep
    <2>7. CASE Over
      BY <2>7, <1>1 DEF Over
    <2> QED  BY <1>2, <2>2, <2>3, <2>4, <2>5, <2>6, <2>7 DEF Next
  <1> QED  BY <1>1, <1>2

(***************************************************************************)
(* However the timeout thread's delete and the main thread's are           *)
(* interleaved, and however many programs were started, neither waits in   *)
(* ~RWPopen for a program that the other one has reaped.                   *)
(***************************************************************************)
THEOREM NeitherSpins == Spec => []NobodySpins
  <1>1. NodeInvariant => NobodySpins
    BY DEF NodeInvariant, TargetInvariant, NobodySpins
  <1> QED  BY <1>1, InitNode, NodeStep, PTL DEF Spec

(***************************************************************************)
(* For any number of joins, retries and leaves, all programs but the       *)
(* newest are stopped and waited for, and when main() returns, all are.    *)
(***************************************************************************)
THEOREM ProgramsReaped == Spec => []ProgramInvariant
  <1>1. NodeInvariant => ProgramInvariant
    BY DEF NodeInvariant, EndInvariant, ProgramInvariant
  <1> QED  BY <1>1, InitNode, NodeStep, PTL DEF Spec
=============================================================================
