---------------------------- MODULE IlMainProofs ----------------------------
(***************************************************************************)
(* Proofs about the program around the loop, for any number of instances:  *)
(* types, that one instance at most talks to the box, that the box is not  *)
(* left sending unless the instance could not help it, that no resize is   *)
(* lost, and which configurations are accepted.                            *)
(***************************************************************************)
EXTENDS IlMain, WellFoundedInduction, TLAPS

\* No more of a log is in the file and in memory than was logged.
FileInLog == \A p \in Proc : inFile[p] + pending[p] <= logged[p]
LogsIn    == [Proc -> 0 .. MaxLogged]
LogTypes  == logged \in LogsIn /\ inFile \in LogsIn /\ pending \in LogsIn

MainInv == TypeOK /\ FileInLog

LEMMA DefaultType == Default \in Sizes \ Small
  BY MainAssumption DEF Default

\* What the end of a process leaves.
LEMMA EndsType ==
  ASSUME MainInv, NEW p \in Proc, Ends(p)
  PROVE  /\ \A q \in Proc : conf'[q] = Unset \/ Complete(conf'[q])
         /\ pc' \in [Proc -> Places]
         /\ quit' \in [Proc -> BOOLEAN] /\ resized' \in [Proc -> BOOLEAN]
         /\ view' \in [Proc -> Sizes \ Small]
         /\ logged' \in [Proc -> 0 .. MaxLogged] /\ inFile' \in [Proc -> 0 .. MaxLogged]
         /\ pending' \in [Proc -> 0 .. MaxLogged]
         /\ FileInLog'
  BY DefaultType, MainAssumption DEF MainInv, TypeOK, FileInLog, Ends, Places

\* The steps of the start.
LEMMA LaunchInv == ASSUME MainInv, NEW p \in Proc, Launch(p) PROVE MainInv'
  BY DEF MainInv, TypeOK, FileInLog, Launch, Goes, Places, flags, port, log

LEMMA EditInv == ASSUME MainInv, Edit PROVE MainInv'
  BY DEF MainInv, TypeOK, FileInLog, Edit, memory, flags, port, log

LEMMA ScreenInv == ASSUME MainInv, NEW p \in Proc, Screen(p) PROVE MainInv'
<1>1. CASE size[p] \in Small /\ pc[p] = "screen" /\ Ends(p)
  BY <1>1, EndsType DEF MainInv, TypeOK, Screen, port
<1>2. CASE size[p] \notin Small /\ Goes(p, "screen", "scope")
  BY <1>2 DEF MainInv, TypeOK, FileInLog, Screen, Goes, Ends, Places, flags, port, log
<1> QED BY <1>1, <1>2 DEF Screen

LEMMA ScopeOpenInv == ASSUME MainInv, NEW p \in Proc, ScopeOpen(p) PROVE MainInv'
<1>1. inFile' \in [Proc -> 0 .. MaxLogged] /\ FileInLog'
  <2>1. \A q \in Proc : inFile'[q] = 0 \/ inFile'[q] = inFile[q]
    BY DEF MainInv, TypeOK, ScopeOpen
  <2>2. inFile' \in [Proc -> 0 .. MaxLogged]
    BY MainAssumption DEF MainInv, TypeOK, ScopeOpen
  <2> QED BY <2>1, <2>2, MainAssumption DEF MainInv, TypeOK, FileInLog, ScopeOpen
<1> QED BY <1>1 DEF MainInv, TypeOK, ScopeOpen, Goes, Places, flags, port, log

LEMMA LockPortInv == ASSUME MainInv, NEW p \in Proc, LockPort(p) PROVE MainInv'
<1>1. CASE pc[p] = "lock" /\ Ends(p) /\ UNCHANGED port
  BY <1>1, EndsType DEF MainInv, TypeOK, LockPort, port
<1>2. CASE Goes(p, "lock", "shake") /\ lock' = p /\ boxOn' = TRUE /\ leftOn' = FALSE /\ UNCHANGED memory
  BY <1>2 DEF MainInv, TypeOK, FileInLog, LockPort, Goes, Places, memory, flags, port, log
<1> QED BY <1>1, <1>2 DEF LockPort

LEMMA ShakeInv == ASSUME MainInv, NEW p \in Proc, Shake(p) PROVE MainInv'
<1>1. CASE Goes(p, "shake", "top") /\ UNCHANGED <<memory, port>>
  BY <1>1 DEF MainInv, TypeOK, FileInLog, Shake, Goes, Places, memory, flags, port, log
<1>2. CASE Ends(p) /\ Unlock(p) /\ leftOn' = TRUE /\ UNCHANGED boxOn
  BY <1>2, EndsType DEF MainInv, TypeOK, Shake, Unlock
<1> QED BY <1>1, <1>2 DEF Shake

\* The steps of the main loop.
LEMMA TopInv == ASSUME MainInv, NEW p \in Proc, Top(p) PROVE MainInv'
  BY DEF MainInv, TypeOK, FileInLog, Top, Goes, Places, port, log

LEMMA HandleResizeInv == ASSUME MainInv, NEW p \in Proc, HandleResize(p) PROVE MainInv'
  BY DEF MainInv, TypeOK, FileInLog, HandleResize, Goes, Places, flags, port, log

LEMMA TimeoutInv == ASSUME MainInv, NEW p \in Proc, Timeout(p) PROVE MainInv'
  BY DEF MainInv, TypeOK, FileInLog, Timeout, Goes, Places, memory, flags, port, log

LEMMA LogFrameInv ==
  ASSUME MainInv, NEW p \in Proc, LogFrame(p)
  PROVE  LogTypes' /\ FileInLog'
<1>1. /\ LogTypes /\ FileInLog /\ MaxLogged \in Nat
      /\ logged[p] < MaxLogged /\ logged' = [logged EXCEPT ![p] = @ + 1]
  BY MainAssumption DEF MainInv, TypeOK, LogFrame, LogTypes, LogsIn
<1>2. /\ logged[p] \in 0 .. MaxLogged /\ inFile[p] \in 0 .. MaxLogged
      /\ pending[p] \in 0 .. MaxLogged /\ inFile[p] + pending[p] <= logged[p]
  BY <1>1 DEF LogTypes, LogsIn, FileInLog
<1>3. CASE pending' = [pending EXCEPT ![p] = @ + 1] /\ UNCHANGED inFile
  <2>1. LogTypes'
    BY <1>1, <1>2, <1>3 DEF LogTypes, LogsIn
  <2>2. FileInLog'
    BY <1>1, <1>2, <1>3 DEF LogTypes, LogsIn, FileInLog
  <2> QED BY <2>1, <2>2
<1>4. CASE inFile' = [inFile EXCEPT ![p] = @ + pending[p]] /\ pending' = [pending EXCEPT ![p] = 1]
  <2>1. LogTypes'
    BY <1>1, <1>2, <1>4 DEF LogTypes, LogsIn
  <2>2. FileInLog'
    BY <1>1, <1>2, <1>4 DEF LogTypes, LogsIn, FileInLog
  <2> QED BY <2>1, <2>2
<1> QED BY <1>3, <1>4 DEF LogFrame

LEMMA ByteInv == ASSUME MainInv, NEW p \in Proc, Byte(p) PROVE MainInv'
<1>1. LogTypes' /\ FileInLog'
  BY LogFrameInv DEF Byte, MainInv, TypeOK, FileInLog, LogTypes, LogsIn, log
<1> QED BY <1>1 DEF MainInv, TypeOK, LogTypes, LogsIn, Byte, Goes, Places, flags, port

LEMMA PortErrorInv == ASSUME MainInv, NEW p \in Proc, PortError(p) PROVE MainInv'
  BY DEF MainInv, TypeOK, FileInLog, PortError, Goes, Places, port, log

LEMMA StopInv == ASSUME MainInv, NEW p \in Proc, Stop(p) PROVE MainInv'
  BY EndsType DEF MainInv, TypeOK, Stop, Unlock

\* What happens to a process.
LEMMA InterruptedType ==
  ASSUME MainInv, NEW p \in Proc, Interrupted(p) PROVE pc' \in [Proc -> Places]
  BY DEF MainInv, TypeOK, Interrupted, Places

LEMMA InterruptInv == ASSUME MainInv, NEW p \in Proc, Interrupt(p) PROVE MainInv'
  BY InterruptedType DEF MainInv, TypeOK, FileInLog, Interrupt, port, log

LEMMA WinchInv == ASSUME MainInv, NEW p \in Proc, Winch(p) PROVE MainInv'
<1>1. pc' \in [Proc -> Places] /\ resized' \in [Proc -> BOOLEAN]
  BY InterruptedType DEF MainInv, TypeOK, Winch
<1> QED BY <1>1 DEF MainInv, TypeOK, FileInLog, Winch, port, log

LEMMA KillInv == ASSUME MainInv, NEW p \in Proc, Kill(p) PROVE MainInv'
<1>1. leftOn' \in BOOLEAN
  BY Zenon DEF MainInv, TypeOK, Kill
<1> QED BY <1>1, EndsType DEF MainInv, TypeOK, Kill, Unlock

\* Every reachable state has its types: what an instance has read is a complete
\* configuration (ilmain.c:541-600), and its display is laid out for no
\* terminal that is too small (ilmain.c:115, :616).
THEOREM MainTypeOK == Spec => []TypeOK
<1>1. Init => MainInv
  <2> SUFFICES ASSUME Init PROVE MainInv
    OBVIOUS
  <2>1. /\ logged \in [Proc -> 0 .. MaxLogged] /\ inFile \in [Proc -> 0 .. MaxLogged]
        /\ pending \in [Proc -> 0 .. MaxLogged] /\ FileInLog
    BY MainAssumption DEF Init, FileInLog
  <2>2. pc \in [Proc -> Places] /\ view \in [Proc -> Sizes \ Small]
    BY DefaultType DEF Init, Places
  <2> QED BY <2>1, <2>2 DEF Init, MainInv, TypeOK
<1>2. MainInv /\ [Next]_vars => MainInv'
  <2> SUFFICES ASSUME MainInv, [Next]_vars PROVE MainInv'
    OBVIOUS
  <2>1. CASE Edit
    BY <2>1, EditInv
  <2>2. ASSUME NEW p \in Proc, Step(p) PROVE MainInv'
    BY <2>2, ScreenInv, ScopeOpenInv, LockPortInv, ShakeInv, TopInv, HandleResizeInv,
       TimeoutInv, StopInv DEF Step
  <2>3. ASSUME NEW p \in Proc,
               Launch(p) \/ Byte(p) \/ PortError(p) \/ Interrupt(p) \/ Winch(p) \/ Kill(p)
        PROVE MainInv'
    BY <2>3, LaunchInv, ByteInv, PortErrorInv, InterruptInv, WinchInv, KillInv
  <2>4. CASE UNCHANGED vars
    BY <2>4 DEF vars, MainInv, TypeOK, FileInLog
  <2> QED BY <2>1, <2>2, <2>3, <2>4, Zenon DEF Next
<1>3. MainInv => TypeOK
  BY DEF MainInv
<1> QED BY <1>1, <1>2, <1>3, PTL DEF Spec

-----------------------------------------------------------------------------
(***************************************************************************)
(* Who talks to the box, and whether the box is left sending               *)
(***************************************************************************)

Talks(p) == pc[p] = "shake" \/ Loops(p)

PortInv == OneTalks /\ BoxStopped

\* A process that ends, and had no lock or gives it back, disturbs no other.
LEMMA EndsPort ==
  ASSUME TypeOK, OneTalks, NEW p \in Proc, Ends(p), Unlock(p)
  PROVE  \A q \in Proc : Talks(q)' => q # p /\ Talks(q) /\ lock' = q /\ boxOn /\ lock # p
  BY MainAssumption DEF TypeOK, OneTalks, Ends, Unlock, Talks, Loops

\* A step that keeps the port and takes no process to the box keeps PortInv.
LEMMA PortKept ==
  ASSUME PortInv, UNCHANGED port, \A q \in Proc : Talks(q)' => Talks(q)
  PROVE  PortInv'
  BY DEF PortInv, OneTalks, BoxStopped, port, Talks, Loops

\* The steps that take the port or give it back.
LEMMA LockPortOne == ASSUME TypeOK, PortInv, NEW p \in Proc, LockPort(p) PROVE PortInv'
<1>1. CASE pc[p] = "lock" /\ Ends(p) /\ UNCHANGED port
  <2>1. \A q \in Proc : Talks(q)' => Talks(q)
    BY <1>1 DEF TypeOK, Ends, Talks, Loops
  <2> QED BY <1>1, <2>1, PortKept
<1>2. CASE lock = NoProc /\ Goes(p, "lock", "shake") /\ lock' = p /\ boxOn' = TRUE /\ leftOn' = FALSE
  <2>1. \A q \in Proc : ~Talks(q)
    BY <1>2, MainAssumption DEF PortInv, OneTalks, Talks, Loops
  <2>2. \A q \in Proc : Talks(q)' => q = p
    BY <1>2, <2>1 DEF TypeOK, Goes, Talks, Loops
  <2> QED BY <1>2, <2>2, MainAssumption DEF PortInv, OneTalks, BoxStopped, Talks, Loops
<1> QED BY <1>1, <1>2 DEF LockPort

LEMMA ShakeOne == ASSUME TypeOK, PortInv, NEW p \in Proc, Shake(p) PROVE PortInv'
<1>1. CASE Goes(p, "shake", "top") /\ UNCHANGED <<memory, port>>
  <2>1. \A q \in Proc : Talks(q)' => Talks(q)
    BY <1>1 DEF TypeOK, Goes, Talks, Loops
  <2> QED BY <1>1, <2>1, PortKept
<1>2. CASE Ends(p) /\ Unlock(p) /\ leftOn' = TRUE /\ UNCHANGED boxOn
  BY <1>2, EndsPort DEF PortInv, OneTalks, BoxStopped, Talks, Loops
<1> QED BY <1>1, <1>2 DEF Shake

LEMMA StopOne == ASSUME TypeOK, PortInv, NEW p \in Proc, Stop(p) PROVE PortInv'
<1>1. lock = p /\ Ends(p) /\ Unlock(p)
  BY DEF PortInv, OneTalks, Stop, Loops
<1>2. \A q \in Proc : ~Talks(q)'
  BY <1>1, EndsPort DEF PortInv
<1>3. ~boxOn' \/ leftOn'
  BY DEF Stop
<1> QED BY <1>2, <1>3 DEF PortInv, OneTalks, BoxStopped, Talks, Loops

LEMMA KillOne == ASSUME TypeOK, PortInv, NEW p \in Proc, Kill(p) PROVE PortInv'
<1>1. OneTalks'
  BY EndsPort DEF PortInv, Kill, OneTalks, Talks, Loops
<1>2. BoxStopped'
  BY DEF TypeOK, PortInv, Kill, BoxStopped, Unlock
<1> QED BY <1>1, <1>2 DEF PortInv

\* The other steps.
LEMMA SizeOne ==
  ASSUME TypeOK, PortInv, NEW p \in Proc, Screen(p) \/ ScopeOpen(p) \/ Launch(p)
  PROVE  PortInv'
<1>1. UNCHANGED port
  BY DEF Screen, ScopeOpen, Launch, port
<1>2. \A q \in Proc : Talks(q)' => Talks(q)
  BY DEF TypeOK, Screen, ScopeOpen, Launch, Goes, Ends, Talks, Loops
<1> QED BY <1>1, <1>2, PortKept

LEMMA LoopOne ==
  ASSUME TypeOK, PortInv, NEW p \in Proc,
         Top(p) \/ HandleResize(p) \/ Timeout(p) \/ Byte(p) \/ PortError(p)
  PROVE  PortInv'
<1>1. UNCHANGED port
  BY DEF Top, HandleResize, Timeout, Byte, PortError, port
<1>2. \A q \in Proc : Talks(q)' => Talks(q)
  BY DEF TypeOK, Top, HandleResize, Timeout, Byte, PortError, Goes, Talks, Loops
<1> QED BY <1>1, <1>2, PortKept

LEMMA SignalOne ==
  ASSUME TypeOK, PortInv, NEW p \in Proc, Interrupt(p) \/ Winch(p) PROVE PortInv'
<1>1. UNCHANGED port
  BY DEF Interrupt, Winch
<1>2. \A q \in Proc : Talks(q)' => Talks(q)
  BY DEF TypeOK, Interrupt, Winch, Interrupted, Talks, Loops
<1> QED BY <1>1, <1>2, PortKept

LEMMA PortStep == TypeOK /\ PortInv /\ [Next]_vars => PortInv'
<1> SUFFICES ASSUME TypeOK, PortInv, [Next]_vars PROVE PortInv'
  OBVIOUS
<1>1. CASE Edit
  BY <1>1 DEF Edit, PortInv, OneTalks, BoxStopped, port, Loops
<1>2. ASSUME NEW p \in Proc, Step(p) PROVE PortInv'
  BY <1>2, SizeOne, LockPortOne, ShakeOne, LoopOne, StopOne DEF Step
<1>3. ASSUME NEW p \in Proc,
             Launch(p) \/ Byte(p) \/ PortError(p) \/ Interrupt(p) \/ Winch(p) \/ Kill(p)
      PROVE PortInv'
  BY <1>3, SizeOne, LoopOne, SignalOne, KillOne
<1>4. CASE UNCHANGED vars
  BY <1>4 DEF vars, PortInv, OneTalks, BoxStopped, Loops
<1> QED BY <1>1, <1>2, <1>3, <1>4, Zenon DEF Next

LEMMA PortAlways == Spec => []PortInv
<1>1. Init => PortInv
  BY DEF Init, PortInv, OneTalks, BoxStopped, Loops
<1> QED BY <1>1, PortStep, MainTypeOK, PTL DEF Spec

\* However many instances are started on one configuration, killed and started
\* again, one at most talks to the box, and it has the lock (ilmain.c:484-521).
THEOREM OneTalker == Spec => []OneTalks
<1>1. PortInv => OneTalks
  BY DEF PortInv
<1> QED BY <1>1, PortAlways, PTL

\* When nobody has the port the box does not send, unless the last one to have
\* it was killed, lost it or had no answer to its start (ilmain.c:528, :699).
THEOREM BoxIsStopped == Spec => []BoxStopped
<1>1. PortInv => BoxStopped
  BY DEF PortInv
<1> QED BY <1>1, PortAlways, PTL

-----------------------------------------------------------------------------
(***************************************************************************)
(* No resize is lost: the part of SizeFollowed that is an invariant.       *)
(***************************************************************************)

ResizeSeen ==
  \A p \in Proc :
    pc[p] \notin {"none", "screen", "resize"} =>
      view[p] = size[p] \/ size[p] \in Small \/ resized[p]

LEMMA StartSeen ==
  ASSUME TypeOK, ResizeSeen, NEW p \in Proc,
         Launch(p) \/ Screen(p) \/ ScopeOpen(p) \/ LockPort(p) \/ Shake(p)
  PROVE  ResizeSeen'
<1>1. CASE Ends(p) /\ UNCHANGED size
  BY <1>1 DEF TypeOK, ResizeSeen, Ends
<1>2. CASE Launch(p)
  BY <1>2 DEF TypeOK, ResizeSeen, Launch, Goes, flags
<1>3. CASE Screen(p)
  BY <1>1, <1>3 DEF TypeOK, ResizeSeen, Screen, Goes, flags
<1>4. CASE ScopeOpen(p)
  BY <1>4 DEF TypeOK, ResizeSeen, ScopeOpen, Goes, flags
<1>5. CASE LockPort(p)
  BY <1>1, <1>5 DEF TypeOK, ResizeSeen, LockPort, Goes, memory, flags
<1>6. CASE Shake(p)
  BY <1>1, <1>6 DEF TypeOK, ResizeSeen, Shake, Goes, memory, flags
<1> QED BY <1>2, <1>3, <1>4, <1>5, <1>6

LEMMA LoopSeen ==
  ASSUME TypeOK, ResizeSeen, NEW p \in Proc,
         Top(p) \/ HandleResize(p) \/ Timeout(p) \/ Byte(p) \/ PortError(p) \/ Stop(p)
  PROVE  ResizeSeen'
<1>1. CASE Top(p)
  BY <1>1 DEF TypeOK, ResizeSeen, Top, Goes
<1>2. CASE HandleResize(p)
  BY <1>2 DEF TypeOK, ResizeSeen, HandleResize, Goes, flags
<1>3. CASE Timeout(p)
  BY <1>3 DEF TypeOK, ResizeSeen, Timeout, Goes, memory, flags
<1>4. CASE Byte(p) \/ PortError(p)
  BY <1>4 DEF TypeOK, ResizeSeen, Byte, PortError, Goes, flags
<1>5. CASE Stop(p)
  BY <1>5 DEF TypeOK, ResizeSeen, Stop, Ends
<1> QED BY <1>1, <1>2, <1>3, <1>4, <1>5

LEMMA SignalSeen ==
  ASSUME TypeOK, ResizeSeen, NEW p \in Proc, Interrupt(p) \/ Winch(p) \/ Kill(p)
  PROVE  ResizeSeen'
<1>1. CASE Interrupt(p)
  BY <1>1 DEF TypeOK, ResizeSeen, Interrupt, Interrupted
<1>2. CASE Winch(p)
  <2>1. \A q \in Proc \ {p} : /\ size'[q] = size[q] /\ pc'[q] = pc[q] /\ view'[q] = view[q]
                              /\ resized'[q] = resized[q]
    BY <1>2 DEF TypeOK, Winch, Interrupted
  <2>2. Runs(p) => resized'[p]
    BY <1>2 DEF TypeOK, Winch
  <2>3. ~Runs(p) => pc'[p] = "none"
    BY <1>2 DEF Winch, Runs
  <2> QED BY <2>1, <2>2, <2>3 DEF ResizeSeen
<1>3. CASE Kill(p)
  BY <1>3 DEF TypeOK, ResizeSeen, Kill, Ends
<1> QED BY <1>1, <1>2, <1>3

\* Whenever the terminal is resized, also while a resize is being handled and
\* between the test of the flag and its resetting, the display is laid out for
\* the size there is, or that is too small, or the flag is set for the next turn
\* (ilmain.c:109-132, :652-656).
THEOREM ResizeIsSeen == Spec => []ResizeSeen
<1>1. Init => ResizeSeen
  BY DEF Init, ResizeSeen
<1>2. TypeOK /\ ResizeSeen /\ [Next]_vars => ResizeSeen'
  <2> SUFFICES ASSUME TypeOK, ResizeSeen, [Next]_vars PROVE ResizeSeen'
    OBVIOUS
  <2>1. CASE Edit
    BY <2>1 DEF Edit, ResizeSeen, memory, flags
  <2>2. ASSUME NEW p \in Proc, Step(p) PROVE ResizeSeen'
    BY <2>2, StartSeen, LoopSeen DEF Step
  <2>3. ASSUME NEW p \in Proc,
               Launch(p) \/ Byte(p) \/ PortError(p) \/ Interrupt(p) \/ Winch(p) \/ Kill(p)
        PROVE ResizeSeen'
    BY <2>3, StartSeen, LoopSeen, SignalSeen
  <2>4. CASE UNCHANGED vars
    BY <2>4 DEF vars, ResizeSeen, flags
  <2> QED BY <2>1, <2>2, <2>3, <2>4, Zenon DEF Next
<1> QED BY <1>1, <1>2, MainTypeOK, PTL DEF Spec

-----------------------------------------------------------------------------
(***************************************************************************)
(* The configuration, read line by line.                                   *)
(***************************************************************************)

\* Induction, for a set in the place of a property.
LEMMA Least ==
  ASSUME NEW T, T \subseteq Nat, T # {}
  PROVE  \E n \in T : \A m \in T : n <= m
<1> DEFINE R == OpToRel(<, Nat)
<1>1. IsWellFoundedOn(R, Nat)
  BY NatLessThanWellFounded
<1>2. \A m, n \in Nat : <<m, n>> \in R <=> m < n
  BY DEF OpToRel
<1> HIDE DEF R
<1>3. PICK n \in T : \A m \in T : <<m, n>> \notin R
  BY <1>1, WFMin
<1>4. \A m \in T : ~(m < n)
  BY <1>2, <1>3
<1> QED BY <1>4

LEMMA Induction ==
  ASSUME NEW S, 0 \in S, \A n \in Nat : n \in S => n + 1 \in S
  PROVE  \A n \in Nat : n \in S
<1> DEFINE T == Nat \ S
<1> SUFFICES ASSUME T # {} PROVE FALSE
  OBVIOUS
<1>1. PICK n \in T : \A m \in T : n <= m
  BY Least
<1>2. n \in Nat /\ n # 0 /\ n - 1 \in Nat /\ n - 1 \notin T
  BY <1>1
<1>3. n - 1 \in S /\ n - 1 + 1 = n
  BY <1>2
<1> QED BY <1>1, <1>2, <1>3

\* f is what ReadConfig computes of the first n lines.
Reads(f, s, n) == f = [i \in 0 .. n |-> IF i = 0 THEN Unset ELSE ReadLine(f[i - 1], s[i])]

LEMMA ReadsAt ==
  ASSUME NEW s, NEW n \in Nat, NEW f, Reads(f, s, n)
  PROVE  \A i \in 0 .. n : f[i] = IF i = 0 THEN Unset ELSE ReadLine(f[i - 1], s[i])
<1> DEFINE g == [i \in 0 .. n |-> IF i = 0 THEN Unset ELSE ReadLine(f[i - 1], s[i])]
<1>1. f = g
  BY DEF Reads
<1>2. \A i \in 0 .. n : g[i] = IF i = 0 THEN Unset ELSE ReadLine(f[i - 1], s[i])
  OBVIOUS
<1> HIDE DEF g
<1> QED BY <1>1, <1>2

LEMMA ReadsMade ==
  ASSUME NEW s, NEW n \in Nat, NEW f, f = [i \in 0 .. n |-> f[i]],
         \A i \in 0 .. n : f[i] = IF i = 0 THEN Unset ELSE ReadLine(f[i - 1], s[i])
  PROVE  Reads(f, s, n)
<1>1. [i \in 0 .. n |-> f[i]] = [i \in 0 .. n |-> IF i = 0 THEN Unset ELSE ReadLine(f[i - 1], s[i])]
  OBVIOUS
<1> QED BY <1>1 DEF Reads

LEMMA ReadsExists ==
  ASSUME NEW s
  PROVE  \A n \in Nat : \E f : Reads(f, s, n)
<1> DEFINE S == {n \in Nat : \E f : Reads(f, s, n)}
<1>1. 0 \in S
  <2> DEFINE f == [i \in 0 .. 0 |-> Unset]
  <2>1. /\ f = [i \in 0 .. 0 |-> f[i]] /\ 0 \in Nat
        /\ \A i \in 0 .. 0 : i = 0 /\ f[i] = Unset
    OBVIOUS
  <2> HIDE DEF f
  <2>2. Reads(f, s, 0)
    BY <2>1, ReadsMade
  <2> QED BY <2>2
<1>2. ASSUME NEW n \in Nat, n \in S PROVE n + 1 \in S
  <2>1. PICK f : Reads(f, s, n)
    BY <1>2
  <2> DEFINE last == ReadLine(f[n], s[n + 1])
             g    == [i \in 0 .. n + 1 |-> IF i = n + 1 THEN last ELSE f[i]]
  <2>2. g = [i \in 0 .. n + 1 |-> g[i]]
    OBVIOUS
  <2>3. \A i \in 0 .. n : g[i] = f[i]
    OBVIOUS
  <2>4. g[n + 1] = last
    OBVIOUS
  <2> HIDE DEF g
  <2>5. \A i \in 0 .. n : f[i] = IF i = 0 THEN Unset ELSE ReadLine(f[i - 1], s[i])
    BY <2>1, ReadsAt
  <2>6. ASSUME NEW i \in 0 .. n + 1
        PROVE  g[i] = IF i = 0 THEN Unset ELSE ReadLine(g[i - 1], s[i])
    <3>1. CASE i = n + 1
      <4>1. n \in 0 .. n /\ i # 0 /\ i - 1 = n
        BY <3>1
      <4> QED BY <2>3, <2>4, <3>1, <4>1
    <3>2. CASE i # n + 1
      <4>1. i \in 0 .. n /\ (i # 0 => i - 1 \in 0 .. n)
        BY <3>2
      <4> QED BY <2>3, <2>5, <4>1
    <3> QED BY <3>1, <3>2
  <2>7. Reads(g, s, n + 1)
    <3>1. n + 1 \in Nat
      OBVIOUS
    <3> HIDE DEF last
    <3> QED BY <2>2, <2>6, <3>1, ReadsMade
  <2> QED BY <2>7
<1> HIDE DEF S
<1>3. \A n \in Nat : n \in S
  BY <1>1, <1>2, Induction
<1> QED BY <1>3 DEF S

LEMMA ReadConfigIs ==
  ASSUME NEW s, Len(s) \in Nat
  PROVE  \E f : /\ ReadConfig(s) = f[Len(s)] /\ f[0] = Unset
                /\ \A i \in 1 .. Len(s) : f[i] = ReadLine(f[i - 1], s[i])
<1> DEFINE f == CHOOSE f : Reads(f, s, Len(s))
<1>1. Reads(f, s, Len(s))
  BY ReadsExists
<1>2. ReadConfig(s) = f[Len(s)]
  BY DEF ReadConfig, Reads
<1> HIDE DEF f
<1>3. \A i \in 0 .. Len(s) : f[i] = IF i = 0 THEN Unset ELSE ReadLine(f[i - 1], s[i])
  BY <1>1, ReadsAt
<1>4. f[0] = Unset /\ \A i \in 1 .. Len(s) : f[i] = ReadLine(f[i - 1], s[i])
  BY <1>3
<1> QED BY <1>2, <1>4

\* The first n lines set each key once and to a value it may have.
Good(s, n) ==
  \A i \in 1 .. n : s[i] # NoKey =>
    /\ Valid(s[i][1], s[i][2])
    /\ \A j \in 1 .. n : s[j] # NoKey /\ s[j][1] = s[i][1] => j = i

KeysOf(s, n)  == {s[i][1] : i \in {j \in 1 .. n : s[j] # NoKey}}
ValueOf(line) == IF line[1] \in PathKeys THEN ResolvePath(line[2]) ELSE line[2]

\* What is known of the configuration after the first n lines.
ConfOf(conf_, s, n) ==
  /\ DOMAIN conf_ = KeysOf(s, n)
  /\ \A i \in 1 .. n : s[i] # NoKey => conf_[s[i][1]] = ValueOf(s[i])

LEMMA ExitIsNoKey == \A k, v : Valid(k, v) => k # "exit"
BY DEF Valid, Allowed, PathKeys

LEMMA NotRejected ==
  ASSUME NEW s, NEW n \in Nat, Good(s, n), NEW c, ConfOf(c, s, n)
  PROVE  c # Rejected
<1>1. "exit" \in DOMAIN Rejected
  BY DEF Rejected
<1>2. "exit" \notin KeysOf(s, n)
  BY ExitIsNoKey DEF KeysOf, Good
<1> QED BY <1>1, <1>2 DEF ConfOf

\* One line more.
LEMMA GoodMore ==
  ASSUME NEW s, NEW n \in Nat
  PROVE  Good(s, n + 1) <=>
           /\ Good(s, n)
           /\ s[n + 1] # NoKey => /\ Valid(s[n + 1][1], s[n + 1][2])
                                  /\ s[n + 1][1] \notin KeysOf(s, n)
<1>1. \A i : i \in 1 .. n + 1 <=> i \in 1 .. n \/ i = n + 1
  OBVIOUS
<1>2. n + 1 \notin 1 .. n
  OBVIOUS
<1> DEFINE New == s[n + 1] # NoKey => /\ Valid(s[n + 1][1], s[n + 1][2])
                                     /\ s[n + 1][1] \notin KeysOf(s, n)
<1>3. Good(s, n + 1) => Good(s, n)
  BY <1>1 DEF Good
<1>4. Good(s, n + 1) => New
  BY <1>1, <1>2 DEF Good, KeysOf
<1>5. Good(s, n) /\ New => Good(s, n + 1)
  <2> SUFFICES ASSUME Good(s, n), New, NEW i \in 1 .. n + 1, s[i] # NoKey
               PROVE  /\ Valid(s[i][1], s[i][2])
                      /\ \A j \in 1 .. n + 1 : s[j] # NoKey /\ s[j][1] = s[i][1] => j = i
    BY Zenon DEF Good
  <2>1. CASE i = n + 1
    BY <1>1, <2>1 DEF KeysOf
  <2>2. CASE i # n + 1
    BY <1>1, <2>2 DEF Good, KeysOf
  <2> QED BY <2>1, <2>2
<1> QED BY <1>3, <1>4, <1>5

LEMMA KeysMore ==
  ASSUME NEW s, NEW n \in Nat
  PROVE  KeysOf(s, n + 1) = IF s[n + 1] = NoKey THEN KeysOf(s, n) ELSE KeysOf(s, n) \cup {s[n + 1][1]}
<1>1. \A i : i \in 1 .. n + 1 <=> i \in 1 .. n \/ i = n + 1
  OBVIOUS
<1> QED BY <1>1, Zenon DEF KeysOf

LEMMA ConfMore ==
  ASSUME NEW s, NEW n \in Nat, NEW c, ConfOf(c, s, n), Good(s, n + 1)
  PROVE  ConfOf(ReadLine(c, s[n + 1]), s, n + 1)
<1> DEFINE line == s[n + 1]
<1>1. /\ Good(s, n)
      /\ line # NoKey => Valid(line[1], line[2]) /\ line[1] \notin DOMAIN c
  BY GoodMore DEF ConfOf
<1>2. c # Rejected
  BY <1>1, NotRejected
<1>3. \A i \in 1 .. n + 1 : i \in 1 .. n \/ i = n + 1
  OBVIOUS
<1>4. CASE line = NoKey
  <2>1. ReadLine(c, line) = c
    BY <1>4 DEF ReadLine
  <2>2. KeysOf(s, n + 1) = KeysOf(s, n)
    BY <1>4, KeysMore
  <2> QED BY <1>3, <1>4, <2>1, <2>2 DEF ConfOf
<1>5. CASE line # NoKey
  <2>1. ReadLine(c, line) = Set(c, line)
    BY <1>1, <1>2, <1>5 DEF ReadLine
  <2>2. DOMAIN Set(c, line) = KeysOf(s, n + 1)
    BY <1>5, KeysMore DEF ConfOf, Set
  <2>3. Set(c, line)[line[1]] = ValueOf(line)
    BY DEF Set, ValueOf
  <2>4. ASSUME NEW i \in 1 .. n, s[i] # NoKey PROVE Set(c, line)[s[i][1]] = ValueOf(s[i])
    <3>1. s[i][1] \in DOMAIN c /\ s[i][1] # line[1]
      BY <1>1, <1>5, <2>4 DEF ConfOf, KeysOf
    <3>2. Set(c, line)[s[i][1]] = c[s[i][1]]
      BY <3>1 DEF Set
    <3> QED BY <2>4, <3>2 DEF ConfOf
  <2> QED BY <1>3, <1>5, <2>1, <2>2, <2>3, <2>4 DEF ConfOf
<1> QED BY <1>4, <1>5

\* read_config
LEMMA ReadConfigKnown ==
  ASSUME NEW s, Len(s) \in Nat
  PROVE  IF Good(s, Len(s)) THEN ConfOf(ReadConfig(s), s, Len(s)) ELSE ReadConfig(s) = Rejected
<1>1. PICK f : /\ ReadConfig(s) = f[Len(s)] /\ f[0] = Unset
               /\ \A i \in 1 .. Len(s) : f[i] = ReadLine(f[i - 1], s[i])
  BY ReadConfigIs
<1> DEFINE Known(n) == IF Good(s, n) THEN ConfOf(f[n], s, n) ELSE f[n] = Rejected
           S == {n \in Nat : n <= Len(s) => Known(n)}
<1>2. 0 \in S
  <2>1. 1 .. 0 = {} /\ DOMAIN Unset = {}
    BY DEF Unset
  <2>2. Good(s, 0) /\ KeysOf(s, 0) = {}
    BY <2>1 DEF Good, KeysOf
  <2> QED BY <1>1, <2>1, <2>2 DEF ConfOf
<1>3. ASSUME NEW n \in Nat, n \in S PROVE n + 1 \in S
  <2> SUFFICES ASSUME n + 1 <= Len(s) PROVE Known(n + 1)
    OBVIOUS
  <2>1. Known(n) /\ n + 1 \in 1 .. Len(s) /\ n + 1 - 1 = n
    BY <1>3
  <2>2. f[n + 1] = ReadLine(f[n], s[n + 1])
    BY <1>1, <2>1
  <2>3. CASE Good(s, n + 1)
    <3>1. Good(s, n) /\ ConfOf(f[n], s, n)
      BY <2>1, <2>3, GoodMore
    <3> QED BY <2>2, <2>3, <3>1, ConfMore
  <2>4. CASE ~Good(s, n + 1)
    <3>1. CASE ~Good(s, n)
      BY <2>1, <2>2, <2>4, <3>1 DEF ReadLine
    <3>2. CASE Good(s, n)
      <4>1. ConfOf(f[n], s, n) /\ f[n] # Rejected
        BY <2>1, <3>2, NotRejected
      <4>2. /\ s[n + 1] # NoKey
            /\ ~Valid(s[n + 1][1], s[n + 1][2]) \/ s[n + 1][1] \in DOMAIN f[n]
        BY <2>4, <3>2, <4>1, GoodMore DEF ConfOf
      <4> QED BY <2>2, <2>4, <4>1, <4>2 DEF ReadLine
    <3> QED BY <3>1, <3>2
  <2> QED BY <2>3, <2>4
<1> HIDE DEF S
<1>4. Len(s) \in S
  BY <1>2, <1>3, Induction
<1> QED BY <1>1, <1>4 DEF S

LEMMA ExactConfig ==
  ASSUME config \in Configs
  PROVE  ConfigExact
<1> DEFINE n == Len(config)
           c == ReadConfig(config)
<1>1. n \in Nat /\ DOMAIN config = 1 .. n
  BY ConfigsAssumption
<1>2. IF Good(config, n) THEN ConfOf(c, config, n) ELSE c = Rejected
  BY <1>1, ReadConfigKnown
<1>3. Good(config, n) <=>
        \A i \in DOMAIN config : config[i] # NoKey =>
          Valid(config[i][1], config[i][2]) /\ Lines(config[i][1]) = {i}
  BY <1>1 DEF Good, Lines
<1> HIDE DEF c
<1>4. CASE ~Good(config, n)
  BY <1>2, <1>3, <1>4 DEF ConfigExact, Proper, Complete, c
<1>5. CASE Good(config, n)
  <2>1. ConfOf(c, config, n) /\ c # Rejected
    BY <1>1, <1>2, <1>5, NotRejected
  <2>2. \A k : k \in DOMAIN c <=> Lines(k) # {}
    BY <1>1, <2>1 DEF ConfOf, KeysOf, Lines
  <2>3. \A k \in {"LIF_file1", "LIF_file2"} : \A i \in Lines(k) : c[k] = ResolvePath(config[i][2])
    BY <1>1, <2>1 DEF ConfOf, Lines, ValueOf, PathKeys
  <2>4. Proper <=>
          /\ \A k \in {"device", "baudrate", "keyboard"} : Lines(k) # {}
          /\ Lines("LIF_file2") # {} => Lines("LIF_file1") # {}
          /\ \A i \in Lines("LIF_file1") \cup Lines("LIF_file2") :
               ResolvePath(config[i][2]) \in Reachable
    BY <1>3, <1>5 DEF Proper
  <2>5. Complete(c) <=>
          /\ "LIF_file2" \in DOMAIN c => "LIF_file1" \in DOMAIN c
          /\ {"device", "baudrate", "keyboard"} \subseteq DOMAIN c
          /\ \A k \in {"LIF_file1", "LIF_file2"} \cap DOMAIN c : c[k] \in Reachable
    BY <2>1 DEF Complete
  <2>6. (\A k \in {"LIF_file1", "LIF_file2"} \cap DOMAIN c : c[k] \in Reachable)
          <=> \A i \in Lines("LIF_file1") \cup Lines("LIF_file2") :
                ResolvePath(config[i][2]) \in Reachable
    BY <2>2, <2>3
  <2>7. {"device", "baudrate", "keyboard"} \subseteq DOMAIN c
          <=> \A k \in {"device", "baudrate", "keyboard"} : Lines(k) # {}
    BY <2>2
  <2> QED BY <2>2, <2>4, <2>5, <2>6, <2>7 DEF ConfigExact, c
<1> QED BY <1>4, <1>5

\* However a configuration file is written, it is accepted exactly when it is
\* proper: the order of its lines does not matter, and a line that is refused is
\* not made good by another (ilmain.c:286-431, :573-607).
THEOREM ConfigIsExact == Spec => []ConfigExact
<1>1. Init => config \in Configs
  BY DEF Init
<1>2. config \in Configs /\ [Next]_vars => (config \in Configs)'
  BY DEF Next, Edit, Launch, Step, Screen, ScopeOpen, LockPort, Shake, Top, HandleResize,
         Timeout, Stop, Byte, PortError, Interrupt, Winch, Kill, vars
<1>3. config \in Configs => ConfigExact
  BY ExactConfig
<1> QED BY <1>1, <1>2, <1>3, PTL DEF Spec
=============================================================================
