---------------------------- MODULE DaemonProofs ----------------------------
(***************************************************************************)
(* Proofs about the daemon as a process.  Ownership: for any number of     *)
(* processes, with and without /proc, and whatever crashes and pid reuse   *)
(* come before, no SIGTERM goes to a process that did not write the lock,  *)
(* and a start that meets no other start ends with exactly one daemon.     *)
(* Upgrade: for any windows, builds and protocols, no window stops a       *)
(* daemon that is good for all of them, and none stays connected to one    *)
(* that it cannot use.  Rescue: for any processes and threads, the sweeps  *)
(* take the protection from nobody who should have it.                     *)
(***************************************************************************)
EXTENDS Ownership, Upgrade, Rescue, TLAPS

-----------------------------------------------------------------------------
(* OWNERSHIP                                                               *)


-----------------------------------------------------------------------------
(* The inductive invariant                                                 *)

(* A process that has not run has no state, and none that is still looking *)
(* for the lock is the one that wrote it.                                  *)
Unacquired ==
    \A p \in Procs :
        /\ pc[p] = "off" => round[p] = 1 /\ attempt[p] = 0 /\ p \notin term
        /\ pc[p] \in {"off"} \cup (Claiming \ {"write"}) => lock.by # p

(* The way of a process that started when no other was running: it finds a *)
(* lock that nobody else will touch, respects it once at most, removes it  *)
(* if it is still the one it read, and keeps the socket it binds.          *)
OnItsOwn(p) ==
    /\ \A q \in Procs \ {p} : ~Alive(q)
    /\ p \notin term
    /\ pc[p] \in {"open", "check", "unlink", "read", "probe", "identify", "steal", "stealUnlink",
                  "write", "unlinkSocket", "bind", "scan", "listening", "up"}
    /\ pc[p] = "open" => (round[p] = 1 /\ attempt[p] = 0) \/ lock = NoLock
    /\ pc[p] \in {"check", "unlink"} => round[p] = 1 /\ attempt[p] = 0
    /\ pc[p] \in {"read", "probe", "identify", "steal"} => ReadLockHolder # Nobody
    /\ pc[p] \in {"probe", "identify", "steal"} => holder[p] = ReadLockHolder
    /\ pc[p] = "bind" => socket = Nobody
    /\ pc[p] \in {"scan", "listening", "up"} => socket = p
    /\ pc[p] = "up" => boundIno[p] = p

(* The way of a process that started beside a daemon that works.           *)
BesideDaemon(p, d) ==
    /\ p # d /\ Settled(d) /\ d \notin term
    /\ \A q \in Procs \ {p, d} : ~Alive(q)
    /\ pc[p] \in {"open", "check", "read", "probe", "dead"}
    /\ pc[p] \in {"open", "check"} => round[p] = 1

AloneInv ==
    /\ alone.who = Nobody => alone.with = Nobody
    /\ alone.who # Nobody /\ alone.with = Nobody => OnItsOwn(alone.who)

BesideInv == alone.with # Nobody => BesideDaemon(alone.who, alone.with)

-----------------------------------------------------------------------------
(* Types and the absence of stray signals                                  *)

(* Every step keeps the types.                                             *)
LEMMA TypeStep == TypeOK /\ [Next]_vars => TypeOK'
  <1> SUFFICES ASSUME TypeOK, [Next]_vars PROVE TypeOK'
    OBVIOUS
  <1> USE OwnershipAssumption DEF TypeOK, Goto, PCs, Claiming, Starting, Leaving, files, claim,
                                  world, kills, Locks, NoLock, NotAlone, Retry, NotAcquired
  <1>1. ASSUME NEW p \in Procs, Open(p) PROVE TypeOK'
    <2>1. pc' \in [Procs -> PCs] BY <1>1 DEF Open
    <2>2. lock' \in {lock, [by |-> p, written |-> FALSE]} BY <1>1 DEF Open
    <2>3. [by |-> p, written |-> FALSE] \in Locks OBVIOUS
    <2>4. lock' \in Locks BY <2>2, <2>3
    <2> QED BY <1>1, <2>1, <2>4 DEF Open
  <1>2. ASSUME NEW p \in Procs, Write(p) PROVE TypeOK'
    BY <1>2 DEF Write
  <1>3. ASSUME NEW p \in Procs, Check(p) PROVE TypeOK'
    BY <1>3 DEF Check
  <1>4. ASSUME NEW p \in Procs, Unlink(p) PROVE TypeOK'
    BY <1>4 DEF Unlink
  <1>5. ASSUME NEW p \in Procs, Read(p) PROVE TypeOK'
    BY <1>5 DEF Read, ReadLockHolder
  <1>6. ASSUME NEW p \in Procs, Probe(p) PROVE TypeOK'
    BY <1>6 DEF Probe
  <1>7. ASSUME NEW p \in Procs, Signal(p) PROVE TypeOK'
    <2>1. holder[p] \in Procs \cup {Nobody} OBVIOUS
    <2>2. pc' \in [Procs -> PCs] BY <1>7 DEF Signal
    <2>3. term' \subseteq Procs BY <1>7, <2>1 DEF Signal
    <2>4. strays' \subseteq Procs BY <1>7 DEF Signal
    <2> QED BY <1>7, <2>2, <2>3, <2>4 DEF Signal
  <1>8. ASSUME NEW p \in Procs, Grace(p) PROVE TypeOK'
    BY <1>8 DEF Grace
  <1>9. ASSUME NEW p \in Procs, Steal(p) PROVE TypeOK'
    BY <1>9 DEF Steal
  <1>10. ASSUME NEW p \in Procs, StealUnlink(p) PROVE TypeOK'
    BY <1>10 DEF StealUnlink
  <1>11. ASSUME NEW p \in Procs, UnlinkSocket(p) PROVE TypeOK'
    BY <1>11 DEF UnlinkSocket
  <1>12. ASSUME NEW p \in Procs, Bind(p) PROVE TypeOK'
    BY <1>12 DEF Bind
  <1>13. ASSUME NEW p \in Procs, Scan(p) PROVE TypeOK'
    BY <1>13 DEF Scan
  <1>14. ASSUME NEW p \in Procs, Listening(p) PROVE TypeOK'
    BY <1>14 DEF Listening
  <1>15. ASSUME NEW p \in Procs, SocketWatch(p) PROVE TypeOK'
    BY <1>15 DEF SocketWatch
  <1>16. ASSUME NEW p \in Procs, Shutdown(p) PROVE TypeOK'
    BY <1>16 DEF Shutdown
  <1>17. ASSUME NEW p \in Procs, Release(p) PROVE TypeOK'
    BY <1>17 DEF Release
  <1>18. ASSUME NEW p \in Procs, ReleaseUnlink(p) PROVE TypeOK'
    BY <1>18 DEF ReleaseUnlink
  <1>19. ASSUME NEW p \in Procs, Park(p) PROVE TypeOK'
    BY <1>19 DEF Park
  <1>20. ASSUME NEW p \in Procs, Spawn(p) PROVE TypeOK'
    <2> DEFINE others == {q \in Procs : Alive(q)}
    <2>1. (\E d \in others : others = {d}) => (CHOOSE d \in others : TRUE) \in Procs
      OBVIOUS
    <2>2. alone' \in [who : Procs \cup {Nobody}, with : Procs \cup {Nobody}]
      BY <1>20, <2>1 DEF Spawn
    <2> QED BY <1>20, <2>2 DEF Spawn
  <1>21. ASSUME NEW p \in Procs, TurnBegins(p) PROVE TypeOK'
    BY <1>21 DEF TurnBegins
  <1>22. ASSUME NEW p \in Procs, TurnIsOver(p) PROVE TypeOK'
    BY <1>22 DEF TurnIsOver
  <1>23. ASSUME NEW p \in Procs, Terminate(p) PROVE TypeOK'
    BY <1>23 DEF Terminate
  <1>24. ASSUME NEW p \in Procs, Crash(p) PROVE TypeOK'
    BY <1>24 DEF Crash
  <1>25. ASSUME NEW p \in Procs, ReusePid(p) PROVE TypeOK'
    BY <1>25 DEF ReusePid
  <1>26. CASE UNCHANGED vars BY <1>26 DEF vars
  <1>27. ASSUME NEW p \in Procs, Identify(p) PROVE TypeOK'
    BY <1>27 DEF Identify
  <1> QED
    BY <1>1, <1>2, <1>3, <1>4, <1>5, <1>6, <1>7, <1>8, <1>9, <1>10, <1>11, <1>12, <1>13, <1>14,
       <1>15, <1>16, <1>17, <1>18, <1>19, <1>20, <1>21, <1>22, <1>23, <1>24, <1>25, <1>26, <1>27
    DEF Next, ProcStep, Acquire, Claim, Serve, Leave, Outside

(* It starts with the right types.                                         *)
LEMMA TypeInit == Init => TypeOK
  <1> SUFFICES ASSUME Init PROVE TypeOK
    OBVIOUS
  <1>1. lock \in Locks BY DEF Init, NoLock, Locks
  <1>2. turnFile \in BOOLEAN BY DEF Init
  <1> QED BY <1>1, <1>2 DEF Init, TypeOK, PCs, NotAlone

(* Every variable of a process and every file keeps its type.              *)
THEOREM TypeCorrect == Spec => []TypeOK
  <1> QED BY TypeInit, TypeStep, PTL DEF Spec

(* Who is about to signal a process that is gone, and whose pid was handed *)
(* out again, was outrun.                                                  *)
SignalsFit ==
    /\ \A q \in reused : pc[q] = "dead"
    /\ \A p \in Procs : pc[p] = "signal" /\ holder[p] \in reused => p \in outrun
    /\ strays \subseteq outrun

(* A process whose start time says that it wrote the lock is running, so   *)
(* its pid is not another's when it is looked at; what is signalled is     *)
(* another process only if the pid changes hands after that look.          *)
LEMMA SignalsStep == TypeOK /\ SignalsFit /\ [Next]_vars => SignalsFit'
  <1> SUFFICES ASSUME TypeOK, SignalsFit, [Next]_vars PROVE SignalsFit'
    OBVIOUS
  <1> USE OwnershipAssumption DEF TypeOK, SignalsFit, Goto, Claiming, Starting, Leaving,
                                  claim, world, kills, Retry, NotAcquired
  <1>1. ASSUME NEW p \in Procs, Identify(p) PROVE SignalsFit'
    <2>1. pc'[p] = "signal" => holder[p] \notin reused
      BY <1>1 DEF Identify, HolderIsIdentified, HolderIsRunning, Alive
    <2> QED BY <1>1, <2>1 DEF Identify
  <1>2. ASSUME NEW p \in Procs, Signal(p) PROVE SignalsFit'
    <2>1. \A q \in Procs : pc'[q] = "signal" => pc[q] = "signal" BY <1>2 DEF Signal
    <2>2. \A q \in reused : pc'[q] = "dead"
      BY <1>2 DEF Signal
    <2> QED BY <1>2, <2>1, <2>2 DEF Signal
  <1>3. ASSUME NEW p \in Procs, ReusePid(p) PROVE SignalsFit'
    BY <1>3 DEF ReusePid
  <1>4. ASSUME NEW p \in Procs, ProcStep(p) \/ Outside(p), ~Identify(p), ~Signal(p), ~ReusePid(p)
        PROVE  /\ UNCHANGED <<reused, strays, outrun>>
               /\ \A q \in Procs \ {p} : pc'[q] = pc[q] /\ holder'[q] = holder[q]
               /\ pc'[p] # "signal" \/ (pc'[p] = pc[p] /\ holder'[p] = holder[p])
               /\ pc[p] # "dead" \/ pc'[p] = "dead"
    BY <1>4 DEF ProcStep, Outside, Acquire, Claim, Serve, Leave, Open, Write, Check, Unlink, Read,
       Probe, Grace, Steal, StealUnlink, UnlinkSocket, Bind, Scan, Listening, SocketWatch,
       Shutdown, Release, ReleaseUnlink, Park, Spawn, TurnBegins, TurnIsOver, Terminate, Crash,
       Alive
  <1>5. ASSUME NEW p \in Procs, ProcStep(p) \/ Outside(p), ~Identify(p), ~Signal(p), ~ReusePid(p)
        PROVE  SignalsFit'
    BY <1>4, <1>5
  <1>6. CASE UNCHANGED vars BY <1>6 DEF vars
  <1> QED BY <1>1, <1>2, <1>3, <1>5, <1>6 DEF Next

(* A process that did not write the lock is signalled only if the writer   *)
(* exits, and its pid is handed out again, between the look at its start   *)
(* time and the signal: however long ago the holder was read, a pid that   *)
(* changed hands before that look is never signalled.                      *)
THEOREM NoProcessIsKilledByMistake == Spec => []NoStrayKill
  <1>1. Init => SignalsFit BY DEF Init, SignalsFit
  <1>2. SignalsFit => NoStrayKill BY DEF SignalsFit, NoStrayKill
  <1> QED BY <1>1, <1>2, SignalsStep, TypeInit, TypeStep, PTL DEF Spec

-----------------------------------------------------------------------------
(* A process that starts alone                                             *)

(* No process reads its own name in the lock before it has acquired it.    *)
LEMMA UnacquiredStep == TypeOK /\ Unacquired /\ [Next]_vars => Unacquired'
  <1> SUFFICES ASSUME TypeOK, Unacquired, [Next]_vars PROVE Unacquired'
    OBVIOUS
  <1> USE OwnershipAssumption DEF TypeOK, Unacquired, Goto, PCs, Claiming, Starting, Leaving,
            files, claim, world, kills, Locks, NoLock, Retry, NotAcquired
  <1>1. ASSUME NEW p \in Procs, Open(p) PROVE Unacquired'
    BY <1>1 DEF Open
  <1>2. ASSUME NEW p \in Procs, Write(p) PROVE Unacquired'
    BY <1>2 DEF Write
  <1>3. ASSUME NEW p \in Procs, Check(p) PROVE Unacquired'
    BY <1>3 DEF Check
  <1>4. ASSUME NEW p \in Procs, Unlink(p) PROVE Unacquired'
    BY <1>4 DEF Unlink
  <1>5. ASSUME NEW p \in Procs, Read(p) PROVE Unacquired'
    BY <1>5 DEF Read
  <1>6. ASSUME NEW p \in Procs, Probe(p) PROVE Unacquired'
    BY <1>6 DEF Probe
  <1>7. ASSUME NEW p \in Procs, Signal(p) PROVE Unacquired'
    BY <1>7 DEF Signal, Alive
  <1>8. ASSUME NEW p \in Procs, Grace(p) PROVE Unacquired'
    BY <1>8 DEF Grace
  <1>9. ASSUME NEW p \in Procs, Steal(p) PROVE Unacquired'
    BY <1>9 DEF Steal
  <1>10. ASSUME NEW p \in Procs, StealUnlink(p) PROVE Unacquired'
    BY <1>10 DEF StealUnlink
  <1>11. ASSUME NEW p \in Procs, UnlinkSocket(p) PROVE Unacquired'
    BY <1>11 DEF UnlinkSocket
  <1>12. ASSUME NEW p \in Procs, Bind(p) PROVE Unacquired'
    BY <1>12 DEF Bind
  <1>13. ASSUME NEW p \in Procs, Scan(p) PROVE Unacquired'
    BY <1>13 DEF Scan
  <1>14. ASSUME NEW p \in Procs, Listening(p) PROVE Unacquired'
    BY <1>14 DEF Listening
  <1>15. ASSUME NEW p \in Procs, SocketWatch(p) PROVE Unacquired'
    BY <1>15 DEF SocketWatch
  <1>16. ASSUME NEW p \in Procs, Shutdown(p) PROVE Unacquired'
    BY <1>16 DEF Shutdown
  <1>17. ASSUME NEW p \in Procs, Release(p) PROVE Unacquired'
    BY <1>17 DEF Release
  <1>18. ASSUME NEW p \in Procs, ReleaseUnlink(p) PROVE Unacquired'
    BY <1>18 DEF ReleaseUnlink
  <1>19. ASSUME NEW p \in Procs, Park(p) PROVE Unacquired'
    BY <1>19 DEF Park
  <1>20. ASSUME NEW p \in Procs, Spawn(p) PROVE Unacquired'
    BY <1>20 DEF Spawn
  <1>21. ASSUME NEW p \in Procs, TurnBegins(p) PROVE Unacquired'
    BY <1>21 DEF TurnBegins
  <1>22. ASSUME NEW p \in Procs, TurnIsOver(p) PROVE Unacquired'
    BY <1>22 DEF TurnIsOver
  <1>23. ASSUME NEW p \in Procs, Terminate(p) PROVE Unacquired'
    BY <1>23 DEF Terminate
  <1>24. ASSUME NEW p \in Procs, Crash(p) PROVE Unacquired'
    BY <1>24 DEF Crash
  <1>25. ASSUME NEW p \in Procs, ReusePid(p) PROVE Unacquired'
    BY <1>25 DEF ReusePid
  <1>26. CASE UNCHANGED vars BY <1>26 DEF vars
  <1>27. ASSUME NEW p \in Procs, Identify(p) PROVE Unacquired'
    BY <1>27 DEF Identify
  <1> QED
    BY <1>1, <1>2, <1>3, <1>4, <1>5, <1>6, <1>7, <1>8, <1>9, <1>10, <1>11, <1>12, <1>13, <1>14,
       <1>15, <1>16, <1>17, <1>18, <1>19, <1>20, <1>21, <1>22, <1>23, <1>24, <1>25, <1>26, <1>27
    DEF Next, ProcStep, Acquire, Claim, Serve, Leave, Outside

(* Only a process that runs moves; a start and a reused pid apart.         *)
LEMMA MoverIsAlive ==
    ASSUME NEW p \in Procs, ProcStep(p) \/ Outside(p), ~Spawn(p), ~ReusePid(p)
    PROVE  Alive(p)
  BY DEF ProcStep, Outside, Acquire, Claim, Serve, Leave, Alive, Open, Write, Check, Unlink, Read,
     Probe, Identify, Signal, Grace, Steal, StealUnlink, UnlinkSocket, Bind, Scan, Listening, SocketWatch,
     Shutdown, Release, ReleaseUnlink, Park, TurnBegins, TurnIsOver, Terminate, Crash

(* What a start remembers: the one daemon that runs, if it is settled.     *)
LEMMA SpawnRemembers ==
    ASSUME TypeOK, Unacquired, NEW p \in Procs, Spawn(p)
    PROVE  \/ /\ alone' = [who |-> p, with |-> Nobody]
              /\ \A q \in Procs : ~Alive(q)
           \/ \E d \in Procs : /\ alone' = [who |-> p, with |-> d]
                               /\ Settled(d) /\ d \notin term /\ p # d
                               /\ \A q \in Procs \ {d} : ~Alive(q)
           \/ alone' = NotAlone
  <1> DEFINE others == {q \in Procs : Alive(q)}
  <1>1. CASE others = {} BY <1>1 DEF Spawn
  <1>2. CASE \E d \in others : others = {d} /\ Settled(d) /\ d \notin term
    <2>1. PICK d \in others : others = {d} /\ Settled(d) /\ d \notin term BY <1>2
    <2>2. others # {} BY <2>1
    <2>3. (CHOOSE e \in others : TRUE) = d BY <2>1
    <2>4. alone' = [who |-> p, with |-> CHOOSE e \in others : TRUE] BY <1>2, <2>2 DEF Spawn
    <2>5. p # d BY DEF Spawn, Alive
    <2> QED BY <2>1, <2>3, <2>4, <2>5
  <1>3. CASE others # {} /\ ~\E d \in others : others = {d} /\ Settled(d) /\ d \notin term
    BY <1>3 DEF Spawn
  <1> QED BY <1>1, <1>2, <1>3

(* A start on its own goes its way: each step of it leads to the next      *)
(* state of the way, and nobody else takes one.                            *)
LEMMA AloneStep == TypeOK /\ Unacquired /\ AloneInv /\ [Next]_vars => AloneInv'
  <1> SUFFICES ASSUME TypeOK, Unacquired, AloneInv, [Next]_vars PROVE AloneInv'
    OBVIOUS
  <1>1. ASSUME NEW p \in Procs, Spawn(p) PROVE AloneInv'
    <2>1. /\ UNCHANGED <<round, attempt, lock, term>>
          /\ pc[p] = "off" /\ pc' = [pc EXCEPT ![p] = "open"]
      BY <1>1 DEF Spawn, claim, files, Goto
    <2>2. CASE alone' = [who |-> p, with |-> Nobody] /\ \A q \in Procs : ~Alive(q)
      <3>1. OnItsOwn(p)' BY <2>1, <2>2 DEF OnItsOwn, Alive, Unacquired, TypeOK
      <3> QED BY <2>2, <3>1 DEF AloneInv
    <2>3. CASE alone'.with # Nobody /\ alone'.who # Nobody BY <2>3 DEF AloneInv
    <2>4. CASE alone' = NotAlone BY <2>4 DEF AloneInv, NotAlone
    <2> QED BY <1>1, <2>2, <2>3, <2>4, SpawnRemembers, OwnershipAssumption
  <1>2. ASSUME alone' = NotAlone PROVE AloneInv'
    BY <1>2 DEF AloneInv, NotAlone
  <1>3. ASSUME NEW p \in Procs, alone.who = p, alone.with = Nobody,
               NEW a \in Procs, ProcStep(a) \/ Outside(a), ~Spawn(a), ~Terminate(a), ~Crash(a)
        PROVE  OnItsOwn(p)'
    <2>1. OnItsOwn(p) BY <1>3, OwnershipAssumption DEF AloneInv
    <2>2. ReusePid(a) \/ a = p BY <1>3, <2>1, MoverIsAlive DEF OnItsOwn
    <2> USE OwnershipAssumption, <2>1
        DEF TypeOK, Unacquired, OnItsOwn, Alive, Goto, PCs, Claiming, Starting, Leaving, files,
            claim, world, kills, Locks, NoLock, Retry, NotAcquired, ReadLockHolder
    <2>3. CASE Open(p) BY <2>3 DEF Open
    <2>4. CASE Write(p) BY <2>4 DEF Write
    <2>5. CASE Check(p) BY <2>5 DEF Check, HolderIsRunning
    <2>6. CASE Unlink(p) BY <2>6 DEF Unlink
    <2>7. CASE Read(p) BY <2>7 DEF Read
    <2>8. CASE Probe(p) BY <2>8 DEF Probe, SocketServing
    <2>9. CASE Identify(p) BY <2>9 DEF Identify, HolderIsIdentified, HolderIsRunning
    <2>25. CASE Signal(p) BY <2>25 DEF Signal
    <2>10. CASE Grace(p) BY <2>10 DEF Grace
    <2>11. CASE Steal(p) BY <2>11 DEF Steal
    <2>12. CASE StealUnlink(p) BY <2>12 DEF StealUnlink
    <2>13. CASE UnlinkSocket(p) BY <2>13 DEF UnlinkSocket
    <2>14. CASE Bind(p) BY <2>14 DEF Bind
    <2>15. CASE Scan(p) BY <2>15 DEF Scan
    <2>16. CASE Listening(p) BY <2>16 DEF Listening
    <2>17. CASE SocketWatch(p) BY <2>17 DEF SocketWatch
    <2>18. CASE Shutdown(p) BY <2>18 DEF Shutdown
    <2>19. CASE Release(p) BY <2>19 DEF Release
    <2>20. CASE ReleaseUnlink(p) BY <2>20 DEF ReleaseUnlink
    <2>21. CASE Park(p) BY <2>21 DEF Park
    <2>22. CASE TurnBegins(p) BY <2>22 DEF TurnBegins
    <2>23. CASE TurnIsOver(p) BY <2>23 DEF TurnIsOver
    <2>24. CASE ReusePid(a) BY <2>24 DEF ReusePid
    <2> HIDE DEF OnItsOwn
    <2> QED
      BY <1>3, <2>2, <2>3, <2>4, <2>5, <2>6, <2>7, <2>8, <2>9, <2>10, <2>11, <2>12, <2>13,
         <2>14, <2>15, <2>16, <2>17, <2>18, <2>19, <2>20, <2>21, <2>22, <2>23, <2>24, <2>25
      DEF ProcStep, Acquire, Claim, Serve, Leave, Outside
  <1>4. ASSUME NEW a \in Procs, ProcStep(a) \/ Outside(a), ~Spawn(a), ~Terminate(a), ~Crash(a)
        PROVE  UNCHANGED alone
    BY <1>4 DEF ProcStep, Outside, Acquire, Claim, Serve, Leave, world, kills, ReusePid, Open, Write,
       Check, Unlink, Read, Probe, Identify, Signal, Grace, Steal, StealUnlink, UnlinkSocket, Bind, Scan,
       Listening, SocketWatch, Shutdown, Release, ReleaseUnlink, Park, TurnBegins, TurnIsOver
  <1>5. ASSUME NEW a \in Procs, ProcStep(a) \/ Outside(a), ~Spawn(a), ~Terminate(a), ~Crash(a)
        PROVE  AloneInv'
    BY <1>3, <1>4, <1>5 DEF AloneInv, TypeOK
  <1>6. ASSUME NEW a \in Procs, Terminate(a) \/ Crash(a) PROVE AloneInv'
    BY <1>2, <1>6 DEF Terminate, Crash
  <1>7. CASE UNCHANGED vars
    BY <1>7 DEF vars, AloneInv, OnItsOwn, Alive, ReadLockHolder
  <1> QED BY <1>1, <1>5, <1>6, <1>7 DEF Next

-----------------------------------------------------------------------------
(* A process that starts beside a daemon                                   *)

(* A start beside a settled daemon leaves it settled, and ends at the      *)
(* probe that the daemon answers.                                          *)
LEMMA BesideStep ==
    ASSUME ~Wedges, TypeOK, Unacquired, AloneInv, BesideInv, [Next]_vars
    PROVE  BesideInv'
  <1>1. ASSUME NEW p \in Procs, Spawn(p) PROVE BesideInv'
    <2>1. /\ UNCHANGED <<round, attempt, lock, socket, boundIno, term>>
          /\ pc[p] = "off" /\ pc' = [pc EXCEPT ![p] = "open"]
      BY <1>1 DEF Spawn, claim, files, Goto
    <2>2. ASSUME NEW d \in Procs, alone' = [who |-> p, with |-> d], Settled(d), d \notin term,
                 p # d, \A q \in Procs \ {d} : ~Alive(q)
          PROVE  BesideInv'
      <3>1. BesideDaemon(p, d)' BY <2>1, <2>2 DEF BesideDaemon, Settled, Alive, Unacquired, TypeOK
      <3> QED BY <2>2, <3>1 DEF BesideInv
    <2>3. CASE alone'.with = Nobody BY <2>3 DEF BesideInv
    <2> QED BY <1>1, <2>2, <2>3, SpawnRemembers DEF NotAlone
  <1>2. ASSUME NEW p \in Procs, NEW d \in Procs, alone.who = p, alone.with = d,
               NEW a \in Procs, ProcStep(a) \/ Outside(a), ~Spawn(a), ~Terminate(a), ~Crash(a)
        PROVE  BesideDaemon(p, d)'
    <2>1. BesideDaemon(p, d) BY <1>2, OwnershipAssumption DEF BesideInv
    <2>2. ReusePid(a) \/ (a \in {p, d} /\ Alive(a))
      BY <1>2, <2>1, MoverIsAlive DEF BesideDaemon
    <2> USE OwnershipAssumption, <2>1
        DEF TypeOK, BesideDaemon, Settled, Alive, Goto, files, claim, world, kills, Locks, NoLock
    <2>3. CASE ReusePid(a) BY <2>3 DEF ReusePid
    <2>4. CASE a = p /\ Open(p) BY <2>4 DEF Open
    <2>5. CASE a = p /\ Check(p)
      BY <2>5 DEF Check, HolderIsRunning, ReadLockHolder, NotAcquired
    <2>6. CASE a = p /\ Read(p) BY <2>6 DEF Read
    <2>7. CASE a = p /\ Probe(p) BY <2>7 DEF Probe, SocketServing
    <2>8. CASE a = d /\ TurnBegins(d) BY <2>8 DEF TurnBegins
    <2>9. CASE a = d /\ TurnIsOver(d) BY <2>9 DEF TurnIsOver
    <2>10. a = p /\ ~ReusePid(a) => Open(p) \/ Check(p) \/ Read(p) \/ Probe(p)
      BY <1>2, <2>2
      DEF ProcStep, Acquire, Claim, Serve, Leave, Outside, Write, Unlink, Identify, Signal, Grace, Steal,
          StealUnlink, UnlinkSocket, Bind, Scan, Listening, SocketWatch, Shutdown, Release,
          ReleaseUnlink, Park, TurnBegins, TurnIsOver
    <2>11. a = d /\ ~ReusePid(a) => TurnBegins(d) \/ TurnIsOver(d)
      BY <1>2
      DEF ProcStep, Acquire, Claim, Serve, Leave, Outside, Claiming, Starting, Open, Write, Check,
          Unlink, Read, Probe, Identify, Signal, Grace, Steal, StealUnlink, UnlinkSocket, Bind, Scan,
          Listening, SocketWatch, Shutdown, Release, ReleaseUnlink, Park
    <2> HIDE DEF BesideDaemon
    <2> QED BY <2>2, <2>3, <2>4, <2>5, <2>6, <2>7, <2>8, <2>9, <2>10, <2>11
  <1>3. ASSUME NEW a \in Procs, ProcStep(a) \/ Outside(a), ~Spawn(a), ~Terminate(a), ~Crash(a)
        PROVE  BesideInv'
    <2>1. UNCHANGED alone
      BY <1>3 DEF ProcStep, Outside, Acquire, Claim, Serve, Leave, world, kills, ReusePid, Open, Write,
         Check, Unlink, Read, Probe, Identify, Signal, Grace, Steal, StealUnlink, UnlinkSocket, Bind,
         Scan, Listening, SocketWatch, Shutdown, Release, ReleaseUnlink, Park, TurnBegins,
         TurnIsOver
    <2>2. alone.with # Nobody => alone.who \in Procs /\ alone.with \in Procs
      BY DEF AloneInv, TypeOK
    <2> QED BY <1>2, <1>3, <2>1, <2>2 DEF BesideInv
  <1>4. ASSUME NEW a \in Procs, Terminate(a) \/ Crash(a) PROVE BesideInv'
    BY <1>4 DEF Terminate, Crash, BesideInv, NotAlone
  <1>5. CASE UNCHANGED vars
    BY <1>5 DEF vars, BesideInv, BesideDaemon, Settled, Alive
  <1> QED BY <1>1, <1>3, <1>4, <1>5 DEF Next

-----------------------------------------------------------------------------
(* What a start comes to                                                   *)

(* Nobody has started yet.                                                 *)
LEMMA StartsInit == Init => Unacquired /\ AloneInv /\ BesideInv
  BY OwnershipAssumption DEF Init, Unacquired, AloneInv, BesideInv, NotAlone, NoLock

(* A process that starts while no other runs becomes the daemon, however   *)
(* many daemons died before it, at whatever step, and whether or not their *)
(* pids have been handed out again since.                                  *)
THEOREM LoneStartIsNeverLockedOut == Spec => []LoneStartGetsThrough
  <1>1. AloneInv => LoneStartGetsThrough
    BY DEF AloneInv, LoneStartGetsThrough, OnItsOwn, Leaving
  <1> QED BY <1>1, TypeInit, TypeStep, StartsInit, UnacquiredStep, AloneStep, PTL DEF Spec

(* Unless a probe of a daemon that listens times out, a start that meets   *)
(* no other start leaves exactly one daemon: it exits beside one that      *)
(* works, without touching the lock, the socket or the process, and takes  *)
(* over where there is none.                                               *)
THEOREM StartLeavesOneDaemon == ~Wedges => (Spec => []LoneStartSettles)
  <1> SUFFICES ASSUME ~Wedges PROVE Spec => []LoneStartSettles
    OBVIOUS
  <1> DEFINE Inv == TypeOK /\ Unacquired /\ AloneInv /\ BesideInv
  <1>1. Init => Inv BY TypeInit, StartsInit
  <1>2. Inv /\ [Next]_vars => Inv'
    BY TypeStep, UnacquiredStep, AloneStep, BesideStep
  <1>3. Inv => LoneStartSettles
    BY DEF AloneInv, BesideInv, LoneStartSettles, LoneStartGetsThrough, LoneStartDefers,
       OnItsOwn, BesideDaemon, Leaving
  <1> HIDE DEF Inv
  <1> QED BY <1>1, <1>2, <1>3, PTL DEF Spec

-----------------------------------------------------------------------------
(* UPGRADE                                                                 *)

-----------------------------------------------------------------------------
(* Types                                                                   *)

(* A window goes from one phase to another.                                *)
LEMMA GotoType ==
    ASSUME UpgradeTypeOK, NEW w \in Windows, NEW there \in Phases, Goto_Upgrade(w, there)
    PROVE  phase' \in [Windows -> Phases] /\ phase'[w] = there
           /\ \A v \in Windows \ {w} : phase'[v] = phase[v]
  BY DEF UpgradeTypeOK, Goto_Upgrade

(* Where each step leads a window, and that it leads no other one.         *)
LEMMA WindowLeads ==
    ASSUME UpgradeTypeOK, NEW w \in Windows, WindowStep(w) \/ Reconnect(w) \/ ReloadWindow(w)
    PROVE  /\ phase' \in [Windows -> Phases]
           /\ \A v \in Windows \ {w} : phase'[v] = phase[v]
           /\ phase'[w] = "asked" => TryConnect(w) /\ daemon # NoDaemon
           /\ phase'[w] = "up" => Hello(w) /\ StalenessOf(w) = "fine"
  <1>1. \E there \in Phases :
            /\ Goto_Upgrade(w, there)
            /\ there = "asked" => TryConnect(w) /\ daemon # NoDaemon
            /\ there = "up" => Hello(w) /\ StalenessOf(w) = "fine"
    <2> USE DEF Phases
    <2>1. CASE TryConnect(w) BY <2>1 DEF TryConnect
    <2>2. CASE Hello(w) BY <2>2 DEF Hello, GiveUp
    <2>3. CASE Respawn(w) BY <2>3 DEF Respawn, GiveUp
    <2>4. CASE Reconnect(w) BY <2>4 DEF Reconnect
    <2>5. CASE ReloadWindow(w) BY <2>5 DEF ReloadWindow
    <2> QED BY <2>1, <2>2, <2>3, <2>4, <2>5 DEF WindowStep
  <1> QED BY <1>1, GotoType

(* Every window, daemon and build keeps its type.                          *)
LEMMA UpgradeTypeStep == UpgradeTypeOK /\ [UpgradeNext]_upgradeVars => UpgradeTypeOK'
  <1> SUFFICES ASSUME UpgradeTypeOK, [UpgradeNext]_upgradeVars PROVE UpgradeTypeOK'
    OBVIOUS
  <1>1. ASSUME NEW w \in Windows, TryConnect(w) PROVE UpgradeTypeOK'
    BY <1>1, WindowLeads DEF WindowStep, TryConnect, daemonVars, UpgradeTypeOK
  <1>2. ASSUME NEW w \in Windows, Hello(w) PROVE UpgradeTypeOK'
    <2>1. stopping' \in BOOLEAN BY <1>2 DEF Hello, UpgradeTypeOK
    <2> QED BY <1>2, <2>1, WindowLeads DEF WindowStep, Hello, UpgradeTypeOK
  <1>3. ASSUME NEW w \in Windows, Respawn(w) PROVE UpgradeTypeOK'
    <2>1. tries[w] \in 1..CONNECT_ATTEMPTS BY DEF UpgradeTypeOK
    <2>2. tries[w] < CONNECT_ATTEMPTS => tries[w] + 1 \in 1..CONNECT_ATTEMPTS
      BY <2>1, UpgradeAssumption
    <2>3. tries' \in [Windows -> 1..CONNECT_ATTEMPTS]
      BY <1>3, <2>2 DEF Respawn, UpgradeTypeOK
    <2>4. daemon' \in Versions \cup {NoDaemon} BY <1>3 DEF Respawn, UpgradeTypeOK
    <2> QED BY <1>3, <2>3, <2>4, WindowLeads DEF WindowStep, Respawn, UpgradeTypeOK
  <1>4. ASSUME NEW w \in Windows, Reconnect(w) \/ ReloadWindow(w) PROVE UpgradeTypeOK'
    <2>1. tries' \in [Windows -> 1..CONNECT_ATTEMPTS]
      BY <1>4, UpgradeAssumption DEF Reconnect, ReloadWindow, UpgradeTypeOK
    <2>2. build' \in [Windows -> Versions] BY <1>4 DEF Reconnect, ReloadWindow, UpgradeTypeOK
    <2> QED BY <1>4, <2>1, <2>2, WindowLeads
        DEF Reconnect, ReloadWindow, daemonVars, UpgradeTypeOK
  <1>5. CASE DaemonExits
    <2>1. failures' \in 0..MaxFailures BY <1>5, UpgradeAssumption DEF DaemonExits, UpgradeTypeOK
    <2>2. phase' \in [Windows -> Phases] BY <1>5 DEF DaemonExits, UpgradeTypeOK, Phases
    <2> QED BY <1>5, <2>1, <2>2 DEF DaemonExits, UpgradeTypeOK
  <1>6. CASE Install \/ Uninstall
    BY <1>6 DEF Install, Uninstall, daemonVars, UpgradeTypeOK
  <1>7. CASE UNCHANGED upgradeVars BY <1>7 DEF upgradeVars, UpgradeTypeOK
  <1> QED BY <1>1, <1>2, <1>3, <1>4, <1>5, <1>6, <1>7 DEF UpgradeNext, WindowStep

(* A window begins with its first attempt.                                 *)
LEMMA UpgradeTypeInit == UpgradeInit => UpgradeTypeOK
  <1> SUFFICES ASSUME UpgradeInit PROVE UpgradeTypeOK
    OBVIOUS
  <1>1. installs \subseteq Versions BY UpgradeAssumption DEF UpgradeInit
  <1>2. phase \in [Windows -> Phases] BY DEF UpgradeInit, Phases
  <1>3. tries \in [Windows -> 1..CONNECT_ATTEMPTS] BY UpgradeAssumption DEF UpgradeInit
  <1>4. failures \in 0..MaxFailures BY UpgradeAssumption DEF UpgradeInit
  <1> QED BY <1>1, <1>2, <1>3, <1>4, UpgradeAssumption DEF UpgradeInit, UpgradeTypeOK, NoDaemon

-----------------------------------------------------------------------------
(* The inductive invariant                                                 *)

(* There is a daemon for whoever waits for its answer, and for whoever was *)
(* told to stop.                                                           *)
AnswersCome ==
    /\ \A w \in Windows : phase[w] = "asked" => daemon # NoDaemon
    /\ stopping => daemon # NoDaemon

(* The newest build stays on disk, so that no build that was deleted comes *)
(* back under a daemon that was told to stop for it.                       *)
NewestStays == daemon # NoDaemon => \E u \in installs : daemon <= u

UpgradeInv ==
    UpgradeTypeOK /\ SettledIsUsable /\ OnlyUselessIsStopped /\ AnswersCome /\ NewestStays

(* Nothing is connected at first.                                          *)
LEMMA UpgradeInvInit == UpgradeInit => UpgradeInv
  BY UpgradeTypeInit
  DEF UpgradeInit, UpgradeInv, SettledIsUsable, OnlyUselessIsStopped, AnswersCome, NewestStays

(* Every step keeps the invariant.                                         *)
LEMMA UpgradeInvStep == UpgradeInv /\ [UpgradeNext]_upgradeVars => UpgradeInv'
  <1> SUFFICES ASSUME UpgradeInv, [UpgradeNext]_upgradeVars PROVE UpgradeInv'
    OBVIOUS
  <1>t. UpgradeTypeOK /\ UpgradeTypeOK' BY UpgradeTypeStep DEF UpgradeInv
  <1>i. SettledIsUsable /\ OnlyUselessIsStopped /\ AnswersCome /\ NewestStays BY DEF UpgradeInv
  <1> DEFINE Rest == SettledIsUsable /\ OnlyUselessIsStopped /\ AnswersCome /\ NewestStays
  <1> SUFFICES Rest' BY <1>t DEF UpgradeInv
  <1> USE DEF SettledIsUsable, OnlyUselessIsStopped, AnswersCome, NewestStays, Protocol
  <1>1. ASSUME NEW w \in Windows, TryConnect(w) PROVE Rest'
    <2>1. UNCHANGED <<installs, daemon, stopping, build>> BY <1>1 DEF TryConnect, daemonVars
    <2>2. \A v \in Windows : /\ phase'[v] = "up" => phase[v] = "up"
                             /\ phase'[v] = "asked" => daemon # NoDaemon
      BY <1>t, <1>i, <1>1, WindowLeads DEF WindowStep, TryConnect, Hello
    <2> QED BY <1>i, <2>1, <2>2
  <1>2. ASSUME NEW w \in Windows, Hello(w) PROVE Rest'
    <2>1. UNCHANGED <<installs, daemon, build>> /\ phase[w] = "asked" BY <1>2 DEF Hello
    <2>2. daemon # NoDaemon BY <1>i, <2>1
    <2>3. /\ daemon \in Versions /\ build[w] \in Versions
          /\ Protocol(daemon) \in Nat /\ Protocol(build[w]) \in Nat
      BY <1>t, <2>2, UpgradeAssumption DEF UpgradeTypeOK
    <2>4. \A v \in Windows : phase'[v] = "up" => Protocol(daemon) = Protocol(build[v])
      <3>1. StalenessOf(w) = "fine" => Protocol(daemon) = Protocol(build[w])
        BY <2>3 DEF StalenessOf
      <3> QED BY <1>t, <1>i, <1>2, <3>1, WindowLeads DEF WindowStep
    <2>5. stopping' => \/ stopping
                       \/ daemon \notin installs
                       \/ Protocol(build[w]) > Protocol(daemon)
      BY <1>2, <2>3 DEF Hello, StalenessOf
    <2> QED BY <1>i, <2>1, <2>2, <2>4, <2>5
  <1>3. ASSUME NEW w \in Windows, Respawn(w) PROVE Rest'
    <2>1. UNCHANGED <<installs, stopping, build>> BY <1>3 DEF Respawn
    <2>2. daemon' = daemon \/ (daemon = NoDaemon /\ daemon' = build[w] /\ build[w] \in installs)
      BY <1>3 DEF Respawn
    <2>3. \A v \in Windows : phase'[v] \in {"up", "asked"} => phase[v] = phase'[v]
      BY <1>t, <1>3, WindowLeads DEF WindowStep, Respawn, TryConnect, Hello
    <2>4. CASE daemon' = daemon BY <1>i, <2>1, <2>3, <2>4
    <2>5. CASE daemon = NoDaemon /\ daemon' = build[w] /\ build[w] \in installs
      <3>1. build[w] \in Nat \ {0} BY <1>t, UpgradeAssumption DEF UpgradeTypeOK
      <3>2. build[w] <= build[w] BY <3>1
      <3> QED BY <1>i, <2>1, <2>3, <2>5, <3>1, <3>2 DEF NoDaemon
    <2> QED BY <2>2, <2>4, <2>5
  <1>4. ASSUME NEW w \in Windows, Reconnect(w) \/ ReloadWindow(w) PROVE Rest'
    <2>1. UNCHANGED <<installs, daemon, stopping>>
      BY <1>4 DEF Reconnect, ReloadWindow, daemonVars
    <2>2. /\ \A v \in Windows \ {w} : build'[v] = build[v] /\ phase'[v] = phase[v]
          /\ phase'[w] \notin {"up", "asked"}
      <3>1. Goto_Upgrade(w, "loop") /\ "loop" \in Phases BY <1>4 DEF Reconnect, ReloadWindow, Phases
      <3>2. phase'[w] = "loop" /\ \A v \in Windows \ {w} : phase'[v] = phase[v]
        BY <1>t, <3>1, GotoType
      <3>3. \A v \in Windows \ {w} : build'[v] = build[v]
        BY <1>t, <1>4 DEF Reconnect, ReloadWindow, UpgradeTypeOK
      <3> QED BY <3>2, <3>3
    <2>3. daemon # NoDaemon /\ Protocol(build[w]) > Protocol(daemon)
              => Protocol(build'[w]) > Protocol(daemon)
      <3>1. build[w] \in Versions /\ build'[w] \in Versions /\ (daemon # NoDaemon => daemon \in Versions)
        BY <1>t DEF UpgradeTypeOK
      <3>2. build[w] <= build'[w]
        <4>1. build[w] \in Nat BY <3>1, UpgradeAssumption
        <4>2. CASE Reconnect(w) BY <4>1, <4>2 DEF Reconnect
        <4>3. CASE ReloadWindow(w)
          <5>1. PICK v \in installs : v > build[w] /\ build' = [build EXCEPT ![w] = v]
            BY <4>3 DEF ReloadWindow
          <5>2. build'[w] = v BY <1>t, <5>1 DEF UpgradeTypeOK
          <5>3. v \in Nat BY <1>t, UpgradeAssumption DEF UpgradeTypeOK
          <5> QED BY <4>1, <5>1, <5>2, <5>3
        <4> QED BY <1>4, <4>2, <4>3
      <3>3. Protocol(build[w]) <= Protocol(build'[w]) BY <3>1, <3>2, UpgradeAssumption
      <3>4. \A v \in Versions : Protocol(v) \in Nat BY UpgradeAssumption
      <3> HIDE DEF Protocol
      <3> QED BY <3>1, <3>3, <3>4
    <2> QED BY <1>i, <2>1, <2>2, <2>3
  <1>5. CASE DaemonExits
    <2>1. \A v \in Windows : phase'[v] \notin {"up", "asked"}
      BY <1>t, <1>5 DEF DaemonExits, UpgradeTypeOK
    <2> QED BY <1>5, <2>1 DEF DaemonExits
  <1>6. CASE Install
    <2>1. PICK v \in Versions \ installs :
              (\A u \in installs : u < v) /\ installs' = installs \cup {v}
      BY <1>6 DEF Install
    <2>2. UNCHANGED <<daemon, stopping, build, phase>> BY <1>6 DEF Install, daemonVars
    <2>3. daemon # NoDaemon => daemon # v
      <3>1. installs \subseteq Nat /\ v \in Nat BY <1>t, UpgradeAssumption DEF UpgradeTypeOK
      <3>2. ASSUME daemon # NoDaemon PROVE daemon # v
        <4>1. PICK u \in installs : daemon <= u BY <1>i, <3>2
        <4>2. u < v /\ u \in Nat BY <2>1, <3>1
        <4>3. daemon \in Nat BY <1>t, UpgradeAssumption DEF UpgradeTypeOK, NoDaemon
        <4> QED BY <3>1, <4>1, <4>2, <4>3
      <3> QED BY <3>2
    <2> QED BY <1>i, <2>1, <2>2, <2>3
  <1>7. CASE Uninstall
    <2>1. PICK v \in installs : (\E u \in installs : u > v) /\ installs' = installs \ {v}
      BY <1>7 DEF Uninstall
    <2>2. UNCHANGED <<daemon, stopping, build, phase>> BY <1>7 DEF Uninstall, daemonVars
    <2>3. NewestStays'
      <3>1. installs \subseteq Nat /\ (daemon # NoDaemon => daemon \in Nat)
        BY <1>t, UpgradeAssumption DEF UpgradeTypeOK
      <3>2. PICK u \in installs : u > v BY <2>1
      <3>3. u \in installs' BY <2>1, <3>1, <3>2
      <3>4. ASSUME daemon # NoDaemon, NEW x \in installs, daemon <= x
            PROVE  x \in installs' \/ daemon <= u
        <4>1. CASE x = v BY <3>1, <3>2, <3>4, <4>1
        <4>2. CASE x # v BY <2>1, <4>2
        <4> QED BY <4>1, <4>2
      <3> QED BY <1>i, <2>2, <3>3, <3>4
    <2> QED BY <1>i, <2>1, <2>2, <2>3
  <1>8. CASE UNCHANGED upgradeVars BY <1>i, <1>8 DEF upgradeVars
  <1> QED
    BY <1>1, <1>2, <1>3, <1>4, <1>5, <1>6, <1>7, <1>8 DEF UpgradeNext, WindowStep

(* The types hold throughout, whatever fairness is assumed.                *)
THEOREM UpgradeTypes == UpgradeSpec => []UpgradeTypeOK
  BY UpgradeTypeInit, UpgradeTypeStep, PTL DEF UpgradeSpec

(* verifyProtocol, for any number of windows, builds and protocols: what   *)
(* is told to stop is a daemon that some window is too new for or whose    *)
(* code is gone, and a window stays connected only to one of its protocol. *)
THEOREM UpgradesAreCareful == UpgradeSpec => []UpgradeIsCareful
  <1>1. UpgradeInv => UpgradeIsCareful BY DEF UpgradeInv, UpgradeIsCareful
  <1> QED BY <1>1, UpgradeInvInit, UpgradeInvStep, PTL DEF UpgradeSpec

-----------------------------------------------------------------------------
(* RESCUE                                                                  *)

Swept(p) == at # NoPid /\ at.pid = p

RescueTypes ==
    /\ alive \subseteq born /\ Targets \subseteq born /\ born \subseteq Pids
    /\ oomAdj \in [Pids -> {"normal", "rescue"}]
    /\ nice \in [Pids -> [Threads -> {"none", "normal", "rescue"}]]
    /\ \A p \in Pids \ born, t \in Threads : nice[p][t] = "none"
    /\ script \in {"running", "done", "failed"} /\ toProtect \subseteq Targets
    /\ toSweep \subseteq Pids \ Targets
    /\ at = NoPid \/ (at \in [pid : Pids \ Targets, listed : BOOLEAN] /\ at # NoPid)
    /\ tids \subseteq Threads
    /\ at = NoPid \/ ~at.listed => tids = {}

(* The script has come to every target that is not left to protect. *)
ProtectedSoFar ==
    /\ \A p \in (Targets \cap alive) \ toProtect : oomAdj[p] = "rescue"
    /\ script = "done" => toProtect = {}

(* A boosted thread whose process has lost the protection slipped through, *)
(* or the sweep is at its process and will come to it.                     *)
Excused(p) == oomAdj[p] = "rescue" \/ p \in slipped
BoostsAreKnown ==
    \A p \in alive \ Targets, t \in Threads :
        /\ nice[p][t] = "rescue" /\ ~Swept(p) => Excused(p)
        /\ nice[p][t] = "rescue" /\ Swept(p) /\ at.listed /\ t \notin tids => Excused(p)

RescueInv == RescueTypes /\ ProtectedSoFar /\ BoostsAreKnown

LEMMA RescueStart == RescueInit => RescueInv
<1> SUFFICES ASSUME RescueInit PROVE RescueInv
    OBVIOUS
<1>1. Targets \subseteq Pids
    BY RescueAssumption DEF Targets
<1>2. RescueTypes
    BY <1>1 DEF RescueInit, RescueTypes
<1> QED
    BY <1>2 DEF RescueInit, RescueInv, ProtectedSoFar, BoostsAreKnown

(* A new process is no target and takes over what its parent has. *)
LEMMA ForkIsKnown ==
    ASSUME RescueInv, NEW p \in Pids, NEW q \in Pids, NEW t \in Threads, Fork(p, t, q)
    PROVE  RescueInv'
<1> USE RescueAssumption DEF RescueInv
<1>1. /\ p \in alive /\ q \notin born /\ p # q /\ q \notin Targets /\ 1 \in Threads
      /\ born' = born \cup {q} /\ alive' = alive \cup {q}
      /\ UNCHANGED <<script, toProtect, toSweep, at, tids>>
    BY DEF Fork, HasThread, RescueTypes, sweepVars
<1>2. /\ oomAdj' \in [Pids -> {"normal", "rescue"}]
      /\ oomAdj'[q] = oomAdj[p] /\ \A r \in Pids \ {q} : oomAdj'[r] = oomAdj[r]
    BY DEF Fork, RescueTypes
<1>3. /\ nice' \in [Pids -> [Threads -> {"none", "normal", "rescue"}]]
      /\ nice'[q][1] = nice[p][t] /\ \A u \in Threads \ {1} : nice'[q][u] = "none"
      /\ \A r \in Pids \ {q} : nice'[r] = nice[r]
    BY <1>1 DEF Fork, RescueTypes
<1>4. /\ slipped \subseteq slipped'
      /\ nice[p][t] = "rescue" => oomAdj[p] = "rescue" \/ q \in slipped'
    BY DEF Fork, Slips, RescueTypes
<1>5. RescueTypes'
    BY <1>1, <1>2, <1>3 DEF RescueTypes
<1>6. ProtectedSoFar'
    BY <1>1, <1>2 DEF ProtectedSoFar, RescueTypes
<1>7. BoostsAreKnown'
    <2> SUFFICES ASSUME NEW r \in alive' \ Targets, NEW u \in Threads, nice'[r][u] = "rescue",
                        ~Swept(r)' \/ (at'.listed /\ u \notin tids')
                 PROVE  Excused(r)'
        BY DEF BoostsAreKnown
    <2>1. CASE r = q
        BY <1>1, <1>2, <1>3, <1>4, <2>1 DEF Excused
    <2>2. CASE r # q
        <3>1. r \in alive \ Targets /\ nice[r][u] = "rescue" /\ r \in Pids
            BY <1>1, <1>3, <2>2 DEF RescueTypes
        <3>2. ~Swept(r) \/ (at.listed /\ u \notin tids)
            BY <1>1 DEF Swept
        <3> QED
            BY <1>2, <1>4, <2>2, <3>1, <3>2 DEF BoostsAreKnown, Excused
    <2> QED
        BY <2>1, <2>2
<1> QED
    BY <1>5, <1>6, <1>7

(* So does a new thread. *)
LEMMA ThreadIsKnown ==
    ASSUME RescueInv, NEW p \in Pids, NEW t \in Threads, NEW u \in Threads, NewThread(p, t, u)
    PROVE  RescueInv'
<1> USE DEF RescueInv
<1>1. /\ p \in alive /\ p \in born /\ UNCHANGED <<born, alive, oomAdj, script, toProtect, toSweep, at, tids>>
    BY DEF NewThread, HasThread, RescueTypes, sweepVars
<1>2. /\ nice' \in [Pids -> [Threads -> {"none", "normal", "rescue"}]]
      /\ nice'[p][u] = nice[p][t] /\ \A w \in Threads \ {u} : nice'[p][w] = nice[p][w]
      /\ \A r \in Pids \ {p} : nice'[r] = nice[r]
    BY DEF NewThread, RescueTypes
<1>3. /\ slipped \subseteq slipped'
      /\ nice[p][t] = "rescue" => oomAdj[p] = "rescue" \/ p \in slipped'
    BY DEF NewThread, Slips, RescueTypes
<1>4. RescueTypes'
    BY <1>1, <1>2 DEF RescueTypes
<1>5. ProtectedSoFar'
    BY <1>1 DEF ProtectedSoFar
<1>6. BoostsAreKnown'
    <2> SUFFICES ASSUME NEW r \in alive' \ Targets, NEW w \in Threads, nice'[r][w] = "rescue",
                        ~Swept(r)' \/ (at'.listed /\ w \notin tids')
                 PROVE  Excused(r)'
        BY DEF BoostsAreKnown
    <2>1. ~Swept(r) \/ (at.listed /\ w \notin tids)
        BY <1>1 DEF Swept
    <2>2. CASE r = p /\ w = u
        BY <1>1, <1>2, <1>3, <2>2 DEF Excused
    <2>3. CASE ~(r = p /\ w = u)
        <3>1. r \in alive \ Targets /\ nice[r][w] = "rescue"
            BY <1>1, <1>2, <2>3 DEF RescueTypes
        <3> QED
            BY <1>1, <1>3, <2>1, <3>1 DEF BoostsAreKnown, Excused
    <2> QED
        BY <2>2, <2>3
<1> QED
    BY <1>4, <1>5, <1>6

(* The script only gives to targets, and ends well only when it came to    *)
(* all of them.                                                            *)
LEMMA ScriptIsKnown ==
    ASSUME RescueInv,
           (\E p \in Targets : ProtectTarget(p)) \/ ScriptEnds(TRUE) \/ ScriptEnds(FALSE)
    PROVE  RescueInv'
<1> USE DEF RescueInv
<1>1. ASSUME NEW p \in Targets, ProtectTarget(p) PROVE RescueInv'
    <2>1. /\ script = "running" /\ toProtect' = toProtect \ {p} /\ p \in Pids
          /\ UNCHANGED <<born, alive, slipped, script, toSweep, at, tids>>
        BY <1>1 DEF ProtectTarget, processVars, sweepVars, RescueTypes
    <2>2. /\ oomAdj' \in [Pids -> {"normal", "rescue"}]
          /\ p \in alive => oomAdj'[p] = "rescue"
          /\ \A r \in Pids \ {p} : oomAdj'[r] = oomAdj[r]
        BY <1>1, <2>1 DEF ProtectTarget, RescueTypes
    <2>3. /\ nice' \in [Pids -> [Threads -> {"none", "normal", "rescue"}]]
          /\ \A r \in Pids \ {p} : nice'[r] = nice[r]
        <3>1. CASE p \in alive
            <4> DEFINE boosted == [t \in Threads |-> IF nice[p][t] = "none" THEN "none" ELSE "rescue"]
            <4>1. nice' = [nice EXCEPT ![p] = boosted]
                BY <1>1, <3>1 DEF ProtectTarget
            <4>2. boosted \in [Threads -> {"none", "normal", "rescue"}]
                OBVIOUS
            <4> HIDE DEF boosted
            <4> QED
                BY <2>1, <4>1, <4>2 DEF RescueTypes
        <3>2. CASE p \notin alive
            BY <1>1, <3>2 DEF ProtectTarget, RescueTypes
        <3> QED
            BY <3>1, <3>2
    <2>4. RescueTypes'
        BY <2>1, <2>2, <2>3 DEF RescueTypes
    <2>5. ProtectedSoFar'
        BY <2>1, <2>2 DEF ProtectedSoFar, RescueTypes
    <2>6. BoostsAreKnown'
        BY <2>1, <2>2, <2>3 DEF BoostsAreKnown, Swept, Excused, RescueTypes
    <2> QED
        BY <2>4, <2>5, <2>6
<1>2. CASE ScriptEnds(TRUE) \/ ScriptEnds(FALSE)
    <2>1. /\ UNCHANGED <<born, alive, slipped, oomAdj, nice, toProtect, toSweep, at, tids>>
          /\ script' \in {"done", "failed"} /\ (script' = "done" => toProtect = {})
        BY <1>2 DEF ScriptEnds, processVars, sweepVars
    <2>2. RescueTypes'
        BY <2>1 DEF RescueTypes
    <2> QED
        BY <2>1, <2>2 DEF ProtectedSoFar, BoostsAreKnown, Swept, Excused
<1> QED
    BY <1>1, <1>2

(* A sweep takes the protection from one process, which it is at from then *)
(* on, and then the boost from each thread it finds.                       *)
LEMMA SweepIsKnown ==
    ASSUME RescueInv, SweepStarts \/ SweepStep
    PROVE  RescueInv'
<1> USE DEF RescueInv
<1>1. CASE SweepStarts \/ \E p \in Pids : PassOver(p)
    <2>1. /\ UNCHANGED <<born, alive, slipped, oomAdj, nice, script, toProtect, at, tids>>
          /\ toSweep' \subseteq Pids \ Targets
        BY <1>1 DEF SweepStarts, PassOver, processVars, RescueTypes
    <2>2. RescueTypes'
        BY <2>1 DEF RescueTypes
    <2> QED
        BY <2>1, <2>2 DEF ProtectedSoFar, BoostsAreKnown, Swept, Excused
<1>2. ASSUME NEW p \in Pids, TakeOomBack(p) PROVE RescueInv'
    <2>1. /\ p \notin Targets /\ at = NoPid /\ at' = [pid |-> p, listed |-> FALSE]
          /\ UNCHANGED <<born, alive, slipped, nice, script, toProtect, toSweep, tids>>
        BY <1>2 DEF TakeOomBack, processVars, RescueTypes
    <2>2. /\ oomAdj' \in [Pids -> {"normal", "rescue"}]
          /\ \A r \in Pids \ {p} : oomAdj'[r] = oomAdj[r]
        BY <1>2 DEF TakeOomBack, RescueTypes
    <2>3. at' # NoPid /\ at'.pid = p /\ ~at'.listed /\ at' \in [pid : Pids \ Targets, listed : BOOLEAN]
        <3>1. DOMAIN at' = {"pid", "listed"} /\ DOMAIN NoPid = {"pid"}
            BY <2>1 DEF NoPid
        <3> QED
            BY <2>1, <3>1
    <2>4. RescueTypes'
        BY <2>1, <2>2, <2>3 DEF RescueTypes
    <2>5. ProtectedSoFar'
        BY <2>1, <2>2 DEF ProtectedSoFar, RescueTypes
    <2>6. BoostsAreKnown'
        <3> SUFFICES ASSUME NEW r \in alive' \ Targets, NEW t \in Threads, nice'[r][t] = "rescue",
                            ~Swept(r)' \/ (at'.listed /\ t \notin tids')
                     PROVE  Excused(r)'
            BY DEF BoostsAreKnown
        <3>1. r # p /\ ~Swept(r) /\ r \in Pids
            BY <2>1, <2>3 DEF Swept, RescueTypes
        <3> QED
            BY <2>1, <2>2, <3>1 DEF BoostsAreKnown, Excused
    <2> QED
        BY <2>4, <2>5, <2>6
<1>3. CASE ListThreads
    <2>1. /\ at # NoPid /\ at \in [pid : Pids \ Targets, listed : BOOLEAN]
          /\ at' = [at EXCEPT !.listed = TRUE]
          /\ tids' = {t \in Threads : HasThread(at.pid, t)}
          /\ UNCHANGED <<born, alive, slipped, oomAdj, nice, script, toProtect, toSweep>>
        BY <1>3 DEF ListThreads, processVars, RescueTypes
    <2>2. /\ at' \in [pid : Pids \ Targets, listed : BOOLEAN] /\ at'.pid = at.pid /\ at'.listed
          /\ at' # NoPid
        <3>1. DOMAIN at' = {"pid", "listed"} /\ DOMAIN NoPid = {"pid"}
            BY <2>1 DEF NoPid
        <3>2. at' # NoPid
            BY <3>1
        <3> QED
            BY <2>1, <3>2
    <2>3. RescueTypes'
        BY <2>1, <2>2 DEF RescueTypes
    <2>4. ProtectedSoFar'
        BY <2>1 DEF ProtectedSoFar
    <2>5. BoostsAreKnown'
        <3> SUFFICES ASSUME NEW r \in alive' \ Targets, NEW t \in Threads, nice'[r][t] = "rescue",
                            ~Swept(r)' \/ t \notin tids'
                     PROVE  Excused(r)'
            BY DEF BoostsAreKnown
        <3>1. ~Swept(r)
            BY <2>1, <2>2 DEF Swept, HasThread
        <3> QED
            BY <2>1, <3>1 DEF BoostsAreKnown, Excused
    <2> QED
        BY <2>3, <2>4, <2>5
<1>4. ASSUME NEW t \in Threads, TakeNiceBack(t) PROVE RescueInv'
    <2>1. /\ at # NoPid /\ at.listed /\ at.pid \in Pids \ Targets /\ tids' = tids \ {t}
          /\ UNCHANGED <<born, alive, slipped, oomAdj, script, toProtect, toSweep, at>>
        BY <1>4 DEF TakeNiceBack, processVars, RescueTypes
    <2>2. /\ nice' \in [Pids -> [Threads -> {"none", "normal", "rescue"}]]
          /\ nice'[at.pid][t] # "rescue" /\ (nice[at.pid][t] = "none" => nice'[at.pid][t] = "none")
          /\ \A u \in Threads \ {t} : nice'[at.pid][u] = nice[at.pid][u]
          /\ \A r \in Pids \ {at.pid} : nice'[r] = nice[r]
        BY <1>4, <2>1 DEF TakeNiceBack, RescueTypes
    <2>3. RescueTypes'
        BY <2>1, <2>2 DEF RescueTypes
    <2>4. ProtectedSoFar'
        BY <2>1 DEF ProtectedSoFar
    <2>5. BoostsAreKnown'
        <3> SUFFICES ASSUME NEW r \in alive' \ Targets, NEW u \in Threads, nice'[r][u] = "rescue",
                            ~Swept(r)' \/ u \notin tids'
                     PROVE  Excused(r)'
            BY DEF BoostsAreKnown
        <3>1. r \in alive \ Targets /\ nice[r][u] = "rescue" /\ ~(r = at.pid /\ u = t)
            BY <2>1, <2>2 DEF RescueTypes
        <3>2. ~Swept(r) \/ (at.listed /\ u \notin tids)
            BY <2>1, <3>1 DEF Swept
        <3> QED
            BY <2>1, <3>1, <3>2 DEF BoostsAreKnown, Excused
    <2> QED
        BY <2>3, <2>4, <2>5
<1>5. CASE SweptOne
    <2>1. /\ at # NoPid /\ at.listed /\ tids = {} /\ at' = NoPid /\ toSweep' \subseteq toSweep
          /\ UNCHANGED <<born, alive, slipped, oomAdj, nice, script, toProtect, tids>>
        BY <1>5 DEF SweptOne, processVars
    <2>2. RescueTypes'
        BY <2>1 DEF RescueTypes
    <2>3. BoostsAreKnown'
        BY <2>1 DEF BoostsAreKnown, Excused, Swept
    <2> QED
        BY <2>1, <2>2, <2>3 DEF ProtectedSoFar
<1> QED
    BY <1>1, <1>2, <1>3, <1>4, <1>5 DEF SweepStep

LEMMA RescueStepKeeps == RescueInv /\ [RescueNext]_rescueVars => RescueInv'
<1> SUFFICES ASSUME RescueInv, [RescueNext]_rescueVars PROVE RescueInv'
    OBVIOUS
<1>1. ASSUME NEW p \in Pids, Exits(p) PROVE RescueInv'
    <2>1. /\ alive' \subseteq alive
          /\ UNCHANGED <<born, slipped, oomAdj, nice, script, toProtect, toSweep, at, tids>>
        BY <1>1 DEF Exits, sweepVars
    <2>2. RescueTypes'
        BY <2>1 DEF RescueInv, RescueTypes
    <2> QED
        BY <2>1, <2>2 DEF RescueInv, ProtectedSoFar, BoostsAreKnown, Swept, Excused
<1>2. CASE UNCHANGED rescueVars
    BY <1>2 DEF rescueVars, RescueInv, RescueTypes, ProtectedSoFar, BoostsAreKnown, Swept, Excused
<1> QED
    BY <1>1, <1>2, ForkIsKnown, ThreadIsKnown, ScriptIsKnown, SweepIsKnown DEF RescueNext, ScriptStep

(* Whatever is started, forked or ends between the system calls of the     *)
(* script and of a sweep: no sweep takes the protection from the daemon or *)
(* code-server, and whoever keeps the boost alone was started while the    *)
(* sweep was at the process that started it (sweepInherited).  These are   *)
(* the two safety parts of OnlyTheWayInIsProtected.                        *)
THEOREM SweepsAreRight == RescueSpec => []BoostGoesWithIt /\ []TargetsKeepIt
<1>1. RescueInv => BoostGoesWithIt /\ TargetsKeepIt
    <2> SUFFICES ASSUME RescueInv PROVE BoostGoesWithIt /\ TargetsKeepIt
        OBVIOUS
    <2>1. TargetsKeepIt
        BY DEF RescueInv, ProtectedSoFar, TargetsKeepIt
    <2>2. BoostGoesWithIt
        BY DEF RescueInv, BoostsAreKnown, Swept, Excused, BoostGoesWithIt
    <2> QED
        BY <2>1, <2>2
<1> QED
    BY <1>1, RescueStart, RescueStepKeeps, PTL DEF RescueSpec
=============================================================================
