-------------------------- MODULE IlOutputsProofs --------------------------
(***************************************************************************)
(* Proofs about the printer and the scope, for any frames and runs of any  *)
(* length: the log collapses every repeat, is complete, is on file at a    *)
(* quit and tells the frames; the paper is the text of what came in.       *)
(*                                                                         *)
(* What a fold or FlattenSeq makes of a sequence is proved by induction    *)
(* over the numbers, in the form the provers can use: a set of numbers     *)
(* that has 0 and, with n, n + 1 has them all.                             *)
(***************************************************************************)
EXTENDS IlOutputs, SequenceTheorems, WellFoundedInduction, TLAPS

IsSeq(s) == \E S : s \in Seq(S)

\* Induction, for a set in the place of a property.
LEMMA Least ==
  ASSUME NEW T, T \subseteq Nat, T # {}
  PROVE  \E n \in T : \A m \in T : n <= m
<1> DEFINE R == OpToRel(<, Nat)
<1>1. IsWellFoundedOn(R, Nat)
  BY NatLessThanWellFounded
<1>2. \A m, n \in Nat : <<m, n>> \in R <=> m < n
  BY DEF OpToRel
<1> HIDE DEF R
<1>3. PICK n \in T : \A m \in T : <<m, n>> \notin R
  BY <1>1, WFMin
<1>4. \A m \in T : ~(m < n)
  BY <1>2, <1>3
<1> QED BY <1>4

LEMMA Induction ==
  ASSUME NEW S, 0 \in S, \A n \in Nat : n \in S => n + 1 \in S
  PROVE  \A n \in Nat : n \in S
<1> DEFINE T == Nat \ S
<1> SUFFICES ASSUME T # {} PROVE FALSE
  OBVIOUS
<1>1. PICK n \in T : \A m \in T : n <= m
  BY Least
<1>2. n \in Nat /\ n # 0 /\ n - 1 \in Nat /\ n - 1 \notin T
  BY <1>1
<1>3. n - 1 \in S /\ n - 1 + 1 = n
  BY <1>2
<1> QED BY <1>1, <1>2, <1>3

-----------------------------------------------------------------------------
(***************************************************************************)
(* Sequences of sequences, put together.                                   *)
(***************************************************************************)

\* f is what FlattenSeq computes of the first n sequences of s.
Flattens(f, s, n) == f = [i \in 1 .. n |-> IF i = 1 THEN s[i] ELSE f[i - 1] \o s[i]]

LEMMA FlattensAt ==
  ASSUME NEW s, NEW n \in Nat, NEW f, Flattens(f, s, n)
  PROVE  \A i \in 1 .. n : f[i] = IF i = 1 THEN s[i] ELSE f[i - 1] \o s[i]
<1> DEFINE g == [i \in 1 .. n |-> IF i = 1 THEN s[i] ELSE f[i - 1] \o s[i]]
<1>1. f = g
  BY DEF Flattens
<1>2. \A i \in 1 .. n : g[i] = IF i = 1 THEN s[i] ELSE f[i - 1] \o s[i]
  OBVIOUS
<1> HIDE DEF g
<1> QED BY <1>1, <1>2

LEMMA FlattensMade ==
  ASSUME NEW s, NEW n \in Nat, NEW f, f = [i \in 1 .. n |-> f[i]],
         \A i \in 1 .. n : f[i] = IF i = 1 THEN s[i] ELSE f[i - 1] \o s[i]
  PROVE  Flattens(f, s, n)
<1>1. [i \in 1 .. n |-> f[i]] = [i \in 1 .. n |-> IF i = 1 THEN s[i] ELSE f[i - 1] \o s[i]]
  OBVIOUS
<1> QED BY <1>1 DEF Flattens

LEMMA FlattensExists ==
  ASSUME NEW s
  PROVE  \A n \in Nat : \E f : Flattens(f, s, n)
<1> DEFINE S == {n \in Nat : \E f : Flattens(f, s, n)}
<1>1. 0 \in S
  <2> DEFINE f == [i \in 1 .. 0 |-> 0]
  <2>1. f = [i \in 1 .. 0 |-> f[i]] /\ 1 .. 0 = {}
    OBVIOUS
  <2> HIDE DEF f
  <2>2. Flattens(f, s, 0)
    BY <2>1, FlattensMade
  <2> QED BY <2>2
<1>2. ASSUME NEW n \in Nat, n \in S PROVE n + 1 \in S
  <2>1. PICK f : Flattens(f, s, n)
    BY <1>2
  <2> DEFINE last == IF n = 0 THEN s[1] ELSE f[n] \o s[n + 1]
  <2> DEFINE g == [i \in 1 .. n + 1 |-> IF i = n + 1 THEN last ELSE f[i]]
  <2>2. g = [i \in 1 .. n + 1 |-> g[i]]
    OBVIOUS
  <2>3. \A i \in 1 .. n : g[i] = f[i]
    OBVIOUS
  <2>4. g[n + 1] = last
    OBVIOUS
  <2> HIDE DEF g
  <2>5. \A i \in 1 .. n : f[i] = IF i = 1 THEN s[i] ELSE f[i - 1] \o s[i]
    BY <2>1, FlattensAt
  <2>6. ASSUME NEW i \in 1 .. n + 1
        PROVE  g[i] = IF i = 1 THEN s[i] ELSE g[i - 1] \o s[i]
    <3>1. CASE i = n + 1
      <4>1. n # 0 => n \in 1 .. n
        OBVIOUS
      <4>2. n # 0 => g[n] = f[n]
        BY <2>3, <4>1
      <4>3. n = 0 <=> i = 1
        BY <3>1
      <4>4. i - 1 = n
        BY <3>1
      <4> QED BY <2>4, <3>1, <4>2, <4>3, <4>4
    <3>2. CASE i # n + 1
      <4>1. i \in 1 .. n /\ (i # 1 => i - 1 \in 1 .. n)
        BY <3>2
      <4> QED BY <2>3, <2>5, <4>1
    <3> QED BY <3>1, <3>2
  <2>7. Flattens(g, s, n + 1)
    <3>1. n + 1 \in Nat
      OBVIOUS
    <3> HIDE DEF last
    <3> QED BY <2>2, <2>6, <3>1, FlattensMade
  <2> QED BY <2>7
<1> HIDE DEF S
<1>3. \A n \in Nat : n \in S
  BY <1>1, <1>2, Induction
<1> QED BY <1>3 DEF S

Agree(s, t, n) == \A i \in 1 .. n : s[i] = t[i]

LEMMA FlattensUnique ==
  ASSUME NEW s, NEW t, NEW n \in Nat, NEW f, NEW g,
         Flattens(f, s, n), Flattens(g, t, n + 1), Agree(s, t, n)
  PROVE  Agree(f, g, n)
<1> USE DEF Agree
<1> DEFINE S == {k \in Nat : k \in 1 .. n => f[k] = g[k]}
<1>1. \A i \in 1 .. n : /\ f[i] = IF i = 1 THEN s[i] ELSE f[i - 1] \o s[i]
                        /\ g[i] = IF i = 1 THEN s[i] ELSE g[i - 1] \o s[i]
  <2>1. n + 1 \in Nat /\ 1 .. n \subseteq 1 .. n + 1
    OBVIOUS
  <2>2. \A i \in 1 .. n : f[i] = IF i = 1 THEN s[i] ELSE f[i - 1] \o s[i]
    BY FlattensAt
  <2>3. \A i \in 1 .. n + 1 : g[i] = IF i = 1 THEN t[i] ELSE g[i - 1] \o t[i]
    BY <2>1, FlattensAt
  <2> QED BY <2>1, <2>2, <2>3
<1>2. 0 \in S
  OBVIOUS
<1>3. ASSUME NEW k \in Nat, k \in S PROVE k + 1 \in S
  <2> SUFFICES ASSUME k + 1 \in 1 .. n PROVE f[k + 1] = g[k + 1]
    OBVIOUS
  <2>1. k + 1 - 1 = k /\ (k + 1 # 1 => k \in 1 .. n)
    OBVIOUS
  <2>2. k + 1 # 1 => f[k] = g[k]
    BY <1>3, <2>1
  <2> QED BY <1>1, <2>1, <2>2
<1> HIDE DEF S
<1>4. \A k \in Nat : k \in S
  BY <1>2, <1>3, Induction
<1> QED BY <1>4 DEF S

LEMMA FlattenIs ==
  ASSUME NEW S, NEW s \in Seq(S), s # <<>>
  PROVE  \E f : Flattens(f, s, Len(s)) /\ FlattenSeq(s) = f[Len(s)]
<1> DEFINE f == CHOOSE f : Flattens(f, s, Len(s))
<1>1. Len(s) \in Nat /\ Len(s) # 0
  BY EmptySeq
<1>2. Flattens(f, s, Len(s))
  BY <1>1, FlattensExists
<1>3. FlattenSeq(s) = f[Len(s)]
  BY <1>1 DEF FlattenSeq, Flattens
<1> QED BY <1>2, <1>3

LEMMA FlattenAppend ==
  ASSUME NEW T, NEW s \in Seq(Seq(T)), NEW x \in Seq(T)
  PROVE  FlattenSeq(Append(s, x)) = IF s = <<>> THEN x ELSE FlattenSeq(s) \o x
<1> DEFINE t == Append(s, x)
           n == Len(s)
<1>1. /\ t \in Seq(Seq(T)) /\ Len(t) = n + 1 /\ n \in Nat /\ t # <<>>
      /\ t[n + 1] = x /\ \A i \in 1 .. n : t[i] = s[i]
  BY AppendProperties
<1> HIDE DEF t
<1>2. PICK g : Flattens(g, t, n + 1) /\ FlattenSeq(t) = g[n + 1]
  BY <1>1, FlattenIs
<1>3. g[n + 1] = IF n = 0 THEN x ELSE g[n] \o x
  <2>1. \A i \in 1 .. n + 1 : g[i] = IF i = 1 THEN t[i] ELSE g[i - 1] \o t[i]
    <3>1. n + 1 \in Nat
      BY <1>1
    <3> QED BY <1>2, <3>1, FlattensAt
  <2>2. n + 1 \in 1 .. n + 1 /\ n + 1 - 1 = n /\ (n + 1 = 1 <=> n = 0)
    BY <1>1
  <2>3. g[n + 1] = IF n = 0 THEN t[n + 1] ELSE g[n] \o t[n + 1]
    BY <2>1, <2>2
  <2> QED BY <1>1, <2>3
<1>4. CASE s = <<>>
  BY <1>2, <1>3, <1>4 DEF t
<1>5. CASE s # <<>>
  <2>1. PICK f : Flattens(f, s, n) /\ FlattenSeq(s) = f[n]
    BY <1>5, FlattenIs
  <2>2. n \in 1 .. n /\ n # 0 /\ n + 1 \in n .. n + 1
    BY <1>1, <1>5, EmptySeq
  <2>3. \A i \in 1 .. n : f[i] = g[i]
    <3>1. Agree(s, t, n)
      BY <1>1 DEF Agree
    <3>2. n \in Nat /\ n + 1 \in n .. n + 1
      BY <1>1
    <3> HIDE DEF n
    <3>3. Flattens(f, s, n) /\ Flattens(g, t, n + 1)
      BY <1>2, <2>1
    <3>4. Agree(f, g, n)
      BY <3>1, <3>2, <3>3, FlattensUnique
    <3> QED BY <3>4 DEF Agree
  <2> QED BY <1>2, <1>3, <1>5, <2>1, <2>2, <2>3 DEF t
<1> QED BY <1>4, <1>5

LEMMA FlattenType ==
  ASSUME NEW T, NEW s \in Seq(Seq(T))
  PROVE  FlattenSeq(s) \in Seq(T)
<1>1. CASE s = <<>>
  BY <1>1 DEF FlattenSeq
<1>2. CASE s # <<>>
  <2>1. PICK f : Flattens(f, s, Len(s)) /\ FlattenSeq(s) = f[Len(s)]
    BY <1>2, FlattenIs
  <2>2. Len(s) \in Nat /\ Len(s) \in 1 .. Len(s) /\ \A i \in 1 .. Len(s) : s[i] \in Seq(T)
    BY <1>2, EmptySeq
  <2>3. \A i \in 1 .. Len(s) : f[i] = IF i = 1 THEN s[i] ELSE f[i - 1] \o s[i]
    <3>1. Len(s) \in Nat
      BY <2>2
    <3> QED BY <2>1, <3>1, FlattensAt
  <2> DEFINE S == {k \in Nat : k \in 1 .. Len(s) => f[k] \in Seq(T)}
  <2>4. 0 \in S
    OBVIOUS
  <2>5. ASSUME NEW k \in Nat, k \in S PROVE k + 1 \in S
    <3> SUFFICES ASSUME k + 1 \in 1 .. Len(s) PROVE f[k + 1] \in Seq(T)
      OBVIOUS
    <3>1. k + 1 - 1 = k /\ (k + 1 # 1 => k \in 1 .. Len(s))
      BY <2>2
    <3>2. k + 1 # 1 => f[k] \in Seq(T)
      BY <2>5, <3>1
    <3>3. f[k + 1] = IF k + 1 = 1 THEN s[k + 1] ELSE f[k] \o s[k + 1]
      BY <2>3, <3>1
    <3>4. s[k + 1] \in Seq(T)
      BY <2>2
    <3> QED BY <3>1, <3>2, <3>3, <3>4, ConcatProperties
  <2> HIDE DEF S
  <2>6. \A k \in Nat : k \in S
    BY <2>4, <2>5, Induction
  <2> QED BY <2>1, <2>2, <2>6 DEF S
<1> QED BY <1>1, <1>2

LEMMA FlattenEmpty == FlattenSeq(<<>>) = <<>>
BY DEF FlattenSeq

-----------------------------------------------------------------------------
(***************************************************************************)
(* The log collapses every repeat.                                         *)
(***************************************************************************)

\* The line in memory is not the last one in the file, so that writing it
\* makes no two equal neighbours; and there is none at the start of a run
\* only, when the file is empty.
ScopeInv ==
  /\ IsSeq(logfile) /\ scope_count \in Nat
  /\ RepeatsCollapsed
  /\ scope_count > 0 /\ Len(logfile) > 0 => logfile[Len(logfile)][1] # scope_last
  /\ running /\ scope_count = 0 => logfile = <<>>

LEMMA AppendSeq ==
  ASSUME NEW s, NEW x, IsSeq(s)
  PROVE  /\ IsSeq(Append(s, x)) /\ Len(s) \in Nat /\ Len(Append(s, x)) = Len(s) + 1
         /\ \A i \in 1 .. Len(s) : Append(s, x)[i] = s[i]
         /\ Append(s, x)[Len(s) + 1] = x
<1>1. PICK S : s \in Seq(S)
  BY DEF IsSeq
<1>2. s \in Seq(S \cup {x}) /\ x \in S \cup {x}
  BY <1>1
<1>3. Append(s, x) \in Seq(S \cup {x})
  BY <1>2
<1>4. IsSeq(Append(s, x))
  BY <1>3 DEF IsSeq
<1> QED BY <1>2, <1>4

\* scope_flush: no equal neighbours, and the last line is the one in memory.
LEMMA FlushedCollapsed ==
  ASSUME ScopeInv
  PROVE  /\ IsSeq(Flushed)
         /\ \A i \in 1 .. Len(Flushed) - 1 : Flushed[i][1] # Flushed[i + 1][1]
         /\ scope_count > 0 => Len(Flushed) > 0 /\ Flushed[Len(Flushed)][1] = scope_last
<1>1. CASE scope_count = 0
  BY <1>1 DEF ScopeInv, RepeatsCollapsed, Flushed
<1>2. CASE scope_count > 0
  <2> DEFINE e == <<scope_last, scope_count>>
  <2>1. Flushed = Append(logfile, e) /\ e[1] = scope_last
    BY <1>2 DEF Flushed, ScopeInv
  <2> HIDE DEF e
  <2>2. /\ IsSeq(Flushed) /\ Len(logfile) \in Nat /\ Len(Flushed) = Len(logfile) + 1
        /\ \A i \in 1 .. Len(logfile) : Flushed[i] = logfile[i]
        /\ Flushed[Len(logfile) + 1] = e
    BY <2>1, AppendSeq DEF ScopeInv
  <2>3. ASSUME NEW i \in 1 .. Len(Flushed) - 1
        PROVE  Flushed[i][1] # Flushed[i + 1][1]
    <3>1. CASE i = Len(logfile)
      BY <1>2, <2>1, <2>2, <3>1 DEF ScopeInv
    <3>2. CASE i # Len(logfile)
      <4>1. i \in 1 .. Len(logfile) - 1 /\ i \in 1 .. Len(logfile) /\ i + 1 \in 1 .. Len(logfile)
        BY <2>2, <3>2
      <4> QED BY <2>2, <4>1 DEF ScopeInv, RepeatsCollapsed
    <3> QED BY <3>1, <3>2
  <2> QED BY <2>1, <2>2, <2>3
<1> QED BY <1>1, <1>2 DEF ScopeInv

\* log_mnemo
LEMMA LogMnemoInv ==
  ASSUME ScopeInv, running, NEW line, LogMnemo(line)
  PROVE  ScopeInv'
<1>1. CASE scope_count > 0 /\ line = scope_last
  BY <1>1 DEF LogMnemo, ScopeInv, RepeatsCollapsed
<1>2. CASE ~(scope_count > 0 /\ line = scope_last)
  <2>1. logfile' = Flushed /\ scope_count' = 1 /\ scope_last' = line
    BY <1>2 DEF LogMnemo
  <2>2. CASE scope_count > 0
    BY <1>2, <2>1, <2>2, FlushedCollapsed DEF ScopeInv, RepeatsCollapsed
  <2>3. CASE scope_count = 0
    <3>1. logfile' = <<>> /\ Len(logfile') = 0
      BY <2>1, <2>3 DEF Flushed, ScopeInv
    <3> QED BY <2>1, <2>3, <3>1, FlushedCollapsed DEF ScopeInv, RepeatsCollapsed
  <2> QED BY <2>2, <2>3 DEF ScopeInv
<1> QED BY <1>1, <1>2

\* scope_close, and the loss of the process.
LEMMA ScopeEnd ==
  ASSUME ScopeInv, ScopeClose \/ ScopeLost, ~running'
  PROVE  ScopeInv'
<1>1. CASE ScopeClose
  BY <1>1, FlushedCollapsed DEF ScopeClose, ScopeInv, RepeatsCollapsed
<1>2. CASE ScopeLost
  BY <1>2 DEF ScopeLost, ScopeInv, RepeatsCollapsed
<1> QED BY <1>1, <1>2

LEMMA ScopeEmpty ==
  /\ ScopeInit => ScopeInv
  /\ ScopeOpen => ScopeInv'
<1>1. IsSeq(<<>>) /\ Len(<<>>) = 0
  BY <<>> \in Seq({}) DEF IsSeq
<1> QED BY <1>1 DEF ScopeInit, ScopeOpen, ScopeInv, RepeatsCollapsed

LEMMA ScopeStep == ScopeInv /\ [Next]_vars => ScopeInv'
<1> SUFFICES ASSUME ScopeInv, [Next]_vars PROVE ScopeInv'
  OBVIOUS
<1>1. ASSUME NEW code \in Codes, Transmit(code) PROVE ScopeInv'
  BY <1>1, LogMnemoInv DEF Transmit, ScopeLog
<1>2. CASE Start
  BY <1>2, ScopeEmpty DEF Start
<1>3. CASE Quit \/ Crash
  BY <1>3, ScopeEnd DEF Quit, Crash
<1>4. CASE UNCHANGED vars
  BY <1>4 DEF vars, scopeVars, ScopeInv, RepeatsCollapsed
<1> QED BY <1>1, <1>2, <1>3, <1>4 DEF Next

\* No two neighbours in the log are equal, in a run of any length over any
\* stops, crashes and starts: what repeats is counted (scope.c:287-297).
THEOREM RepeatsAreCollapsed == Spec => []RepeatsCollapsed
<1>1. Init => ScopeInv
  BY ScopeEmpty DEF Init
<1>2. ScopeInv => RepeatsCollapsed
  BY DEF ScopeInv
<1> QED BY <1>1, <1>2, ScopeStep, PTL DEF Spec
-----------------------------------------------------------------------------
(***************************************************************************)
(* The log is complete.                                                    *)
(***************************************************************************)

\* What the file lacks of the lines of the frames is the line in memory, as
\* often as it came; after a crash, some line some number of times.
Lines(T) ==
  /\ logfile \in Seq(T \X Nat) /\ scope_last \in T /\ scope_count \in Nat
  /\ LinesOf(passed) \in Seq(T)

LogInv ==
  /\ IsSeq(passed)
  /\ \E T : Lines(T)
  /\ running => LinesOf(passed) = Expanded \o Repeat(<<scope_last, scope_count>>)
  /\ ~running => \E line : \E k \in Nat : LinesOf(passed) = Expanded \o Repeat(<<line, k>>)

LEMMA RepeatType ==
  ASSUME NEW T, NEW e \in T \X Nat
  PROVE  Repeat(e) \in Seq(T) /\ Len(Repeat(e)) = e[2]
BY DEF Repeat

LEMMA ExpandAppend ==
  ASSUME NEW T, NEW log \in Seq(T \X Nat), NEW e \in T \X Nat
  PROVE  /\ Expand(log) \in Seq(T)
         /\ Expand(Append(log, e)) = Expand(log) \o Repeat(e)
<1> DEFINE G(s) == [n \in DOMAIN s |-> Repeat(s[n])]
<1>1. ASSUME NEW s \in Seq(T \X Nat) PROVE G(s) \in Seq(Seq(T)) /\ Len(G(s)) = Len(s)
  <2>1. Len(s) \in Nat /\ DOMAIN s = 1 .. Len(s) /\ \A n \in 1 .. Len(s) : s[n] \in T \X Nat
    OBVIOUS
  <2>2. \A n \in 1 .. Len(s) : Repeat(s[n]) \in Seq(T)
    BY <2>1, RepeatType
  <2>3. G(s) = [n \in 1 .. Len(s) |-> Repeat(s[n])]
    BY <2>1
  <2> QED BY <2>1, <2>2, <2>3
<1>2. Append(log, e) \in Seq(T \X Nat)
  OBVIOUS
<1>3. G(Append(log, e)) = Append(G(log), Repeat(e))
  <2>1. /\ Len(Append(log, e)) = Len(log) + 1 /\ Len(log) \in Nat
        /\ \A n \in 1 .. Len(log) : Append(log, e)[n] = log[n]
        /\ Append(log, e)[Len(log) + 1] = e
    BY AppendProperties
  <2>2. /\ Len(Append(G(log), Repeat(e))) = Len(log) + 1
        /\ \A n \in 1 .. Len(log) : Append(G(log), Repeat(e))[n] = G(log)[n]
        /\ Append(G(log), Repeat(e))[Len(log) + 1] = Repeat(e)
        /\ Append(G(log), Repeat(e)) \in Seq(Seq(T))
    <3>1. G(log) \in Seq(Seq(T)) /\ Len(G(log)) = Len(log) /\ Repeat(e) \in Seq(T)
      BY <1>1, RepeatType
    <3> HIDE DEF G
    <3> QED BY <3>1, AppendProperties
  <2>3. \A n \in 1 .. Len(log) + 1 : G(Append(log, e))[n] = Append(G(log), Repeat(e))[n]
    <3>1. \A n \in 1 .. Len(log) + 1 : G(Append(log, e))[n] = Repeat(Append(log, e)[n])
      BY <2>1, <1>2
    <3>2. \A n \in 1 .. Len(log) : G(log)[n] = Repeat(log[n])
      OBVIOUS
    <3> HIDE DEF G
    <3> QED BY <2>1, <2>2, <3>1, <3>2
  <2> HIDE DEF G
  <2> QED BY <1>1, <1>2, <2>1, <2>2, <2>3, SeqEqual
<1>4. G(log) = <<>> => Expand(log) = <<>>
  BY FlattenEmpty DEF Expand
<1> HIDE DEF G
<1>5. FlattenSeq(G(log)) \in Seq(T) /\ Repeat(e) \in Seq(T)
  BY <1>1, FlattenType, RepeatType
<1>6. FlattenSeq(Append(G(log), Repeat(e))) =
        IF G(log) = <<>> THEN Repeat(e) ELSE FlattenSeq(G(log)) \o Repeat(e)
  BY <1>1, <1>5, FlattenAppend
<1>7. Expand(log) = FlattenSeq(G(log)) /\ Expand(Append(log, e)) = FlattenSeq(G(Append(log, e)))
  BY DEF Expand, G
<1>8. <<>> \o Repeat(e) = Repeat(e)
  BY <1>5, ConcatEmptySeq
<1> QED BY <1>3, <1>4, <1>5, <1>6, <1>7, <1>8

\* A line more of the same.
LEMMA RepeatMore ==
  ASSUME NEW line, NEW k \in Nat
  PROVE  /\ Repeat(<<line, k + 1>>) = Append(Repeat(<<line, k>>), line)
         /\ Repeat(<<line, 0>>) = <<>> /\ Repeat(<<line, 1>>) = <<line>>
BY DEF Repeat

\* scope_flush
LEMMA FlushedIs ==
  ASSUME NEW T, Lines(T)
  PROVE  /\ Flushed \in Seq(T \X Nat) /\ Expanded \in Seq(T)
         /\ Expand(Flushed) = Expanded \o Repeat(<<scope_last, scope_count>>)
<1> DEFINE e == <<scope_last, scope_count>>
<1>1. e \in T \X Nat /\ logfile \in Seq(T \X Nat)
  BY DEF Lines
<1>2. Expanded \in Seq(T) /\ Expand(Append(logfile, e)) = Expanded \o Repeat(e)
  <2> HIDE DEF e
  <2> QED BY <1>1, ExpandAppend DEF Expanded
<1>3. CASE scope_count = 0
  <2>1. Flushed = logfile
    BY <1>3 DEF Flushed
  <2>2. Repeat(e) = <<>>
    BY <1>3, RepeatMore
  <2>3. Expanded \o <<>> = Expanded
    BY <1>2, ConcatEmptySeq
  <2> QED BY <1>1, <1>2, <2>1, <2>2, <2>3 DEF Expanded
<1>4. CASE scope_count # 0
  <2>1. Flushed = Append(logfile, e)
    BY <1>4 DEF Flushed
  <2> HIDE DEF e
  <2>2. Flushed \in Seq(T \X Nat)
    BY <1>1, <2>1, AppendProperties
  <2> QED BY <1>2, <2>1, <2>2 DEF e
<1> QED BY <1>3, <1>4

LEMMA LinesSeq ==
  ASSUME NEW p, IsSeq(p)
  PROVE  LET L == [i \in 1 .. Len(p) |-> LineOf(p[i][1], p[i][2])]
         IN  IsSeq(L) /\ Len(L) = Len(p)
<1> DEFINE L == [i \in 1 .. Len(p) |-> LineOf(p[i][1], p[i][2])]
           S == {LineOf(p[i][1], p[i][2]) : i \in 1 .. Len(p)}
<1>1. Len(p) \in Nat
  BY DEF IsSeq
<1>2. \A i \in 1 .. Len(p) : LineOf(p[i][1], p[i][2]) \in S
  OBVIOUS
<1> HIDE DEF S
<1>3. L \in Seq(S) /\ Len(L) = Len(p)
  BY <1>1, <1>2
<1> QED BY <1>3 DEF IsSeq

\* Concatenation with one element more.
LEMMA ConcatAppend ==
  ASSUME NEW S, NEW a \in Seq(S), NEW b \in Seq(S), NEW x \in S
  PROVE  Append(a \o b, x) = a \o Append(b, x)
<1>1. /\ a \o b \in Seq(S) /\ Append(b, x) \in Seq(S)
      /\ Append(a \o b, x) \in Seq(S) /\ a \o Append(b, x) \in Seq(S)
  OBVIOUS
<1>2. /\ Len(Append(a \o b, x)) = Len(a) + Len(b) + 1
      /\ Len(a \o Append(b, x)) = Len(a) + Len(b) + 1
  OBVIOUS
<1>3. \A i \in 1 .. Len(a) + Len(b) + 1 : Append(a \o b, x)[i] = (a \o Append(b, x))[i]
  OBVIOUS
<1> QED BY <1>1, <1>2, <1>3, SeqEqual

LEMMA ConcatLast ==
  ASSUME NEW S, NEW a \in Seq(S), NEW b \in Seq(S), NEW x \in S
  PROVE  a \o Append(b, x) = (a \o b) \o <<x>>
<1>1. a \o b \in Seq(S)
  BY ConcatProperties
<1>2. Append(a \o b, x) = (a \o b) \o <<x>>
  BY <1>1, AppendIsConcat
<1> QED BY <1>2, ConcatAppend

\* The lines of one frame more.
LEMMA LinesAppend ==
  ASSUME NEW p, IsSeq(p), NEW in, NEW out
  PROVE  /\ IsSeq(Append(p, <<in, out>>))
         /\ LinesOf(Append(p, <<in, out>>)) = Append(LinesOf(p), LineOf(in, out))
<1> DEFINE e == <<in, out>>
           q == Append(p, e)
<1>1. e[1] = in /\ e[2] = out
  OBVIOUS
<1> HIDE DEF e
<1>2. /\ IsSeq(q) /\ Len(p) \in Nat /\ Len(q) = Len(p) + 1
      /\ \A i \in 1 .. Len(p) : q[i] = p[i]
      /\ q[Len(p) + 1] = e
  BY AppendSeq
<1> DEFINE L(s) == [i \in 1 .. Len(s) |-> LineOf(s[i][1], s[i][2])]
<1>3. LinesOf(p) = L(p) /\ LinesOf(q) = L(q)
  BY <1>2 DEF LinesOf, IsSeq
<1> HIDE DEF q
<1>4. L(p) = [i \in 1 .. Len(p) |-> LineOf(p[i][1], p[i][2])]
  OBVIOUS
<1>5. /\ IsSeq(L(p)) /\ Len(L(p)) = Len(p)
      /\ IsSeq(L(q)) /\ Len(L(q)) = Len(q)
  BY <1>2, LinesSeq
<1>6. /\ IsSeq(Append(L(p), LineOf(in, out)))
      /\ Len(Append(L(p), LineOf(in, out))) = Len(p) + 1
      /\ \A i \in 1 .. Len(p) : Append(L(p), LineOf(in, out))[i] = L(p)[i]
      /\ Append(L(p), LineOf(in, out))[Len(p) + 1] = LineOf(in, out)
  BY <1>5, AppendSeq
<1>7. \A i \in 1 .. Len(p) : L(p)[i] = LineOf(p[i][1], p[i][2])
  OBVIOUS
<1>8. \A i \in 1 .. Len(p) + 1 : L(q)[i] = LineOf(q[i][1], q[i][2])
  BY <1>2
<1> HIDE DEF L
<1>9. \A i \in 1 .. Len(p) + 1 : L(q)[i] = Append(L(p), LineOf(in, out))[i]
  <2> TAKE i \in 1 .. Len(p) + 1
  <2>1. CASE i = Len(p) + 1
    BY <1>1, <1>2, <1>6, <1>8, <2>1
  <2>2. CASE i # Len(p) + 1
    <3>1. i \in 1 .. Len(p)
      BY <1>2, <2>2
    <3> QED BY <1>2, <1>6, <1>7, <1>8, <3>1
  <2> QED BY <2>1, <2>2
<1>10. L(q) = Append(L(p), LineOf(in, out))
  <2>1. PICK S1 : L(q) \in Seq(S1)
    BY <1>5 DEF IsSeq
  <2>2. PICK S2 : Append(L(p), LineOf(in, out)) \in Seq(S2)
    BY <1>6 DEF IsSeq
  <2>3. /\ L(q) \in Seq(S1 \cup S2)
        /\ Append(L(p), LineOf(in, out)) \in Seq(S1 \cup S2)
    BY <2>1, <2>2
  <2> QED BY <1>2, <1>5, <1>6, <1>9, <2>3, SeqEqual
<1> QED BY <1>2, <1>3, <1>10 DEF q, e

LEMMA LogInvLines == LogInv => \E T : Lines(T)
BY DEF LogInv

\* log_mnemo
LEMMA LogMnemoLog ==
  ASSUME LogInv, running, running', NEW in, NEW out, LogMnemo(LineOf(in, out)),
         passed' = Append(passed, <<in, out>>)
  PROVE  LogInv'
<1> DEFINE line == LineOf(in, out)
<1>1. PICK T0 : Lines(T0)
  BY LogInvLines
<1> DEFINE T == T0 \cup {line}
<1>2. Lines(T) /\ line \in T
  BY <1>1 DEF Lines
<1>3. IsSeq(passed') /\ LinesOf(passed)' = Append(LinesOf(passed), line)
  <2>1. IsSeq(passed)
    BY DEF LogInv
  <2>2. LinesOf(passed)' = LinesOf(passed')
    BY DEF LinesOf
  <2> HIDE DEF T
  <2> QED BY <2>1, <2>2, LinesAppend
<1>4. LinesOf(passed) = Expanded \o Repeat(<<scope_last, scope_count>>)
  BY DEF LogInv
<1> HIDE DEF T, line
<1>5. LinesOf(passed)' \in Seq(T)
  <2>1. LinesOf(passed) \in Seq(T)
    BY <1>2 DEF Lines
  <2>2. Append(LinesOf(passed), line) \in Seq(T)
    BY <1>2, <2>1, AppendProperties, Zenon
  <2> QED BY <1>3, <2>2, Zenon
<1>6. Expanded \in Seq(T) /\ Flushed \in Seq(T \X Nat)
  BY <1>2, FlushedIs
<1>7. CASE scope_count > 0 /\ line = scope_last
  <2>1. logfile' = logfile /\ scope_last' = line /\ scope_count' = scope_count + 1
    BY <1>7 DEF LogMnemo, line
  <2>2. Repeat(<<line, scope_count>>) \in Seq(T)
    BY <1>2, RepeatType DEF Lines
  <2>3. Repeat(<<line, scope_count + 1>>) = Append(Repeat(<<line, scope_count>>), line)
    BY <1>2, RepeatMore DEF Lines
  <2>4. Append(Expanded \o Repeat(<<line, scope_count>>), line)
          = Expanded \o Append(Repeat(<<line, scope_count>>), line)
    <3> DEFINE r == Repeat(<<line, scope_count>>)
    <3>1. r \in Seq(T) /\ Expanded \in Seq(T) /\ line \in T
      BY <1>2, <1>6, <2>2
    <3> HIDE DEF r
    <3>2. Append(Expanded \o r, line) = Expanded \o Append(r, line)
      BY <3>1, ConcatAppend
    <3> QED BY <3>2 DEF r
  <2>5. Expanded' = Expanded
    BY <2>1 DEF Expanded, Expand
  <2>6. LinesOf(passed)' = Expanded' \o Repeat(<<scope_last', scope_count'>>)
    BY <1>3, <1>4, <1>7, <2>1, <2>3, <2>4, <2>5
  <2>7. (Repeat(<<scope_last, scope_count>>))' = Repeat(<<scope_last', scope_count'>>)
    BY DEF Repeat
  <2>8. Lines(T)'
    BY <1>2, <1>5, <2>1 DEF Lines
  <2> QED BY <1>3, <2>6, <2>7, <2>8, Zenon DEF LogInv
<1>8. CASE ~(scope_count > 0 /\ line = scope_last)
  <2>1. logfile' = Flushed /\ scope_last' = line /\ scope_count' = 1
    BY <1>8 DEF LogMnemo, line
  <2>2. Expanded' = LinesOf(passed)
    BY <1>2, <1>4, <2>1, FlushedIs DEF Expanded, Expand
  <2>3. Repeat(<<line, 1>>) = <<line>>
    BY RepeatMore
  <2>4. Append(LinesOf(passed), line) = LinesOf(passed) \o <<line>>
    BY <1>2, AppendIsConcat DEF Lines
  <2>5. LinesOf(passed)' = Expanded' \o Repeat(<<scope_last', scope_count'>>)
    BY <1>3, <2>1, <2>2, <2>3, <2>4
  <2>6. (Repeat(<<scope_last, scope_count>>))' = Repeat(<<scope_last', scope_count'>>)
    BY DEF Repeat
  <2>7. Lines(T)'
    BY <1>2, <1>5, <1>6, <2>1 DEF Lines
  <2> QED BY <1>3, <2>5, <2>6, <2>7, Zenon DEF LogInv
<1> QED BY <1>7, <1>8

\* After scope_close nothing is missing.
LEMMA ScopeCloseLog ==
  ASSUME LogInv, running, ScopeClose, UNCHANGED passed
  PROVE  Expanded' = LinesOf(passed)
<1>1. PICK T : Lines(T)
  BY LogInvLines
<1> QED BY <1>1, FlushedIs DEF ScopeClose, LogInv, Expanded, Expand

\* The end of a process leaves a set of lines, and a line k times to go.
LEMMA EndLog ==
  ASSUME LogInv, running, ~running', ScopeClose \/ ScopeLost, UNCHANGED passed
  PROVE  LogInv'
<1>1. PICK T0 : Lines(T0)
  BY LogInvLines
<1> DEFINE T == T0 \cup {NoLine}
<1>2. Lines(T) /\ NoLine \in T
  BY <1>1 DEF Lines
<1> HIDE DEF T
<1>3. LinesOf(passed)' = LinesOf(passed) /\ IsSeq(passed')
  BY DEF LinesOf, LogInv
<1>4. scope_last' = NoLine /\ scope_count' = 0
  BY DEF ScopeClose, ScopeLost
<1>5. CASE ScopeClose
  <2>1. Expanded' = LinesOf(passed) /\ logfile' \in Seq(T \X Nat)
    BY <1>2, <1>5, ScopeCloseLog, FlushedIs DEF ScopeClose
  <2>2. LinesOf(passed) \o Repeat(<<NoLine, 0>>) = LinesOf(passed)
    BY <1>2, RepeatMore, ConcatEmptySeq DEF Lines
  <2>3. LinesOf(passed)' = Expanded' \o (Repeat(<<NoLine, 0>>))'
    <3>1. (Repeat(<<NoLine, 0>>))' = Repeat(<<NoLine, 0>>)
      BY DEF Repeat, NoLine
    <3> QED BY <1>3, <2>1, <2>2, <3>1
  <2> QED BY <1>2, <1>3, <1>4, <2>1, <2>3 DEF LogInv, Lines
<1>6. CASE ScopeLost
  <2>1. logfile' = logfile /\ Expanded' = Expanded
    BY <1>6 DEF ScopeLost, Expanded, Expand
  <2>2. LinesOf(passed)' = Expanded' \o Repeat(<<scope_last, scope_count>>)
    BY <1>3, <2>1 DEF LogInv
  <2> QED BY <1>2, <1>3, <1>4, <2>1, <2>2 DEF LogInv, Lines
<1> QED BY <1>5, <1>6

LEMMA StartLog ==
  /\ ScopeInit /\ passed = <<>> => LogInv
  /\ ScopeOpen /\ passed' = <<>> => LogInv'
<1>1. IsSeq(<<>>) /\ <<>> \in Seq({NoLine} \X Nat) /\ <<>> \in Seq({NoLine})
  BY <<>> \in Seq({}) DEF IsSeq
<1>2. LinesOf(<<>>) = <<>>
  BY DEF LinesOf
<1>3. Expand(<<>>) = <<>>
  BY FlattenEmpty DEF Expand
<1>4. Repeat(<<NoLine, 0>>) = <<>> /\ <<>> \o <<>> = <<>>
  <2>1. Repeat(<<NoLine, 0>>) = <<>>
    BY RepeatMore
  <2>2. <<>> \o <<>> = <<>>
    BY <1>1, ConcatEmptySeq
  <2> QED BY <2>1, <2>2
<1>5. ASSUME ScopeInit, passed = <<>> PROVE LogInv
  <2>1. LinesOf(passed) = <<>> /\ Expanded = <<>>
    BY <1>2, <1>3, <1>5 DEF ScopeInit, Expanded
  <2>2. scope_last \in {NoLine} /\ scope_count \in Nat /\ logfile = <<>>
    BY <1>5 DEF ScopeInit
  <2>3. Lines({NoLine})
    BY <1>1, <2>1, <2>2 DEF Lines
  <2>4. LinesOf(passed) = Expanded \o Repeat(<<NoLine, 0>>)
    BY <1>4, <2>1
  <2>5. Repeat(<<scope_last, scope_count>>) = Repeat(<<NoLine, 0>>) /\ IsSeq(passed) /\ 0 \in Nat
    BY <1>1, <1>5 DEF ScopeInit
  <2> QED BY <2>3, <2>4, <2>5, Zenon DEF LogInv
<1>6. ASSUME ScopeOpen, passed' = <<>> PROVE LogInv'
  <2>1. LinesOf(passed)' = <<>> /\ Expanded' = <<>>
    BY <1>2, <1>3, <1>6 DEF ScopeOpen, LinesOf, Expanded, Expand
  <2>2. (Repeat(<<scope_last, scope_count>>))' = <<>> /\ (Repeat(<<NoLine, 0>>))' = <<>>
    BY <1>4, <1>6 DEF ScopeOpen, Repeat, NoLine
  <2>3. scope_last' \in {NoLine} /\ scope_count' = 0 /\ logfile' = <<>>
    BY <1>6 DEF ScopeOpen
  <2>4. Lines({NoLine})'
    <3>1. {NoLine}' = {NoLine}
      BY DEF NoLine
    <3> QED BY <1>1, <2>1, <2>3, <3>1 DEF Lines
  <2>5. LinesOf(passed)' = Expanded' \o (Repeat(<<scope_last, scope_count>>))'
    BY <1>4, <2>1, <2>2
  <2>6. LinesOf(passed)' = Expanded' \o (Repeat(<<NoLine, 0>>))'
    BY <1>4, <2>1, <2>2
  <2>7. IsSeq(passed') /\ 0 \in Nat
    BY <1>1, <1>6
  <2> QED BY <2>4, <2>5, <2>6, <2>7, Zenon DEF LogInv
<1> QED BY <1>5, <1>6

LEMMA LogStep == LogInv /\ [Next]_vars => LogInv'
<1> SUFFICES ASSUME LogInv, [Next]_vars PROVE LogInv'
  OBVIOUS
<1>1. ASSUME NEW code \in Codes, Transmit(code) PROVE LogInv'
  BY <1>1, LogMnemoLog DEF Transmit, ScopeLog
<1>2. CASE Start
  BY <1>2, StartLog DEF Start
<1>3. CASE Quit \/ Crash
  BY <1>3, EndLog DEF Quit, Crash
<1>4. CASE UNCHANGED vars
  <2>1. LinesOf(passed)' = LinesOf(passed) /\ Expanded' = Expanded
    BY <1>4 DEF vars, scopeVars, LinesOf, Expanded, Expand
  <2>2. /\ logfile' = logfile /\ scope_last' = scope_last /\ scope_count' = scope_count
        /\ passed' = passed /\ running' = running
    BY <1>4 DEF vars, scopeVars
  <2>3. \A T : Lines(T) => Lines(T)'
    BY <2>1, <2>2 DEF Lines
  <2>4. \A line : \A k : (Repeat(<<line, k>>))' = Repeat(<<line, k>>)
    BY DEF Repeat
  <2>5. (Repeat(<<scope_last, scope_count>>))' = Repeat(<<scope_last, scope_count>>)
    BY <2>2 DEF Repeat
  <2> QED BY <2>1, <2>2, <2>3, <2>4, <2>5 DEF LogInv
<1> QED BY <1>1, <1>2, <1>3, <1>4 DEF Next

LEMMA LogInvImplies == LogInv => ScopeIsLog
<1> SUFFICES ASSUME LogInv PROVE ScopeIsLog
  OBVIOUS
<1>1. PICK T0 : Lines(T0)
  BY LogInvLines
<1>2. PICK line : \E k \in Nat : LinesOf(passed) = Expanded \o Repeat(<<line, k>>)
  BY <1>1 DEF LogInv, Lines
<1>7. PICK k \in Nat : LinesOf(passed) = Expanded \o Repeat(<<line, k>>)
  BY <1>2
<1> DEFINE T   == T0 \cup {line}
           all == LinesOf(passed)
           m   == Len(Expanded)
<1>3. Expanded \in Seq(T) /\ all \in Seq(T) /\ Repeat(<<line, k>>) \in Seq(T)
  <2>1. Lines(T) /\ <<line, k>> \in T \X Nat
    BY <1>1 DEF Lines
  <2> HIDE DEF T
  <2> QED BY <2>1, FlushedIs, RepeatType DEF Lines
<1>4. /\ m \in Nat /\ Len(all) = m + k
      /\ \A i \in 1 .. m : all[i] = Expanded[i]
      /\ \A i \in m + 1 .. m + k : all[i] = line
  BY <1>7, <1>3 DEF Repeat
<1> HIDE DEF T, all, m
<1>5. Expanded = SubSeq(all, 1, m)
  <2>1. SubSeq(all, 1, m) \in Seq(T) /\ Len(SubSeq(all, 1, m)) = m
    BY <1>3, <1>4
  <2>2. \A i \in 1 .. m : SubSeq(all, 1, m)[i] = all[i]
    BY <1>3, <1>4
  <2> QED BY <1>3, <1>4, <2>1, <2>2, SeqEqual DEF m
<1>6. \A i \in m + 1 .. Len(all) : all[i] = all[Len(all)]
  BY <1>4
<1> QED BY <1>5, <1>6 DEF ScopeIsLog, all, m

\* The log file is a beginning of the lines of the frames that passed, also
\* after a crash, and lacks at most one line with its repeats, in runs of any
\* length (scope.c:57-66, :287-297).
THEOREM LogIsComplete == Spec => []ScopeIsLog
<1>1. Init => LogInv
  BY StartLog DEF Init
<1> QED BY <1>1, LogStep, LogInvImplies, PTL DEF Spec

\* The end of the program leaves the whole log in the file (scope.c:321-328).
THEOREM QuitIsLogged == Spec => QuitWritesLog
<1>1. Init => LogInv
  BY StartLog DEF Init
<1>2. LogInv /\ [Next]_vars => [Quit => Expanded' = LinesOf(passed)]_vars
  BY ScopeCloseLog DEF Quit
<1> QED BY <1>1, <1>2, LogStep, PTL DEF Spec, QuitWritesLog

-----------------------------------------------------------------------------
(***************************************************************************)
(* Roman-8 and UTF-8.                                                      *)
(***************************************************************************)

Char == {n \in Nat : 32 <= n /\ n < 65536}
IsRow(row) == row \in Seq(Char) /\ Len(row) = 16

LEMMA InRow ==
  ASSUME NEW row, IsRow(row), NEW j \in 1 .. 16
  PROVE  row[j] \in Char
<1>1. j \in 1 .. Len(row) /\ row \in Seq(Char)
  BY DEF IsRow
<1> QED BY <1>1, ElementOfSeq

LEMMA Rows ==
  IsRow(RowA) /\ IsRow(RowB) /\ IsRow(RowC) /\ IsRow(RowD) /\ IsRow(RowE) /\ IsRow(RowF)
<1>1. IsRow(RowA)
  BY DEF RowA, IsRow, Char
<1>2. IsRow(RowB)
  BY DEF RowB, IsRow, Char
<1>3. IsRow(RowC)
  BY DEF RowC, IsRow, Char
<1>4. IsRow(RowD)
  BY DEF RowD, IsRow, Char
<1>5. IsRow(RowE)
  BY DEF RowE, IsRow, Char
<1>6. IsRow(RowF)
  BY DEF RowF, IsRow, Char
<1> QED BY <1>1, <1>2, <1>3, <1>4, <1>5, <1>6

LEMMA InTable ==
  ASSUME NEW i \in 1 .. 6
  PROVE  IsRow(Table[i])
BY Rows DEF Table

LEMMA Roman8Type ==
  ASSUME NEW n \in 128 .. 255
  PROVE  Roman8(n) \in Char
<1>1. CASE n < 160
  BY <1>1 DEF Roman8, Blank, Char
<1>2. CASE n >= 160
  <2> DEFINE i == (n \div 16) - 9
             j == (n % 16) + 1
  <2>1. i \in 1 .. 6 /\ j \in 1 .. 16
    BY <1>2
  <2>2. Roman8(n) = Table[i][j]
    BY <1>2 DEF Roman8
  <2> HIDE DEF i, j
  <2>3. IsRow(Table[i])
    BY <2>1, InTable
  <2>4. Table[i][j] \in Char
    BY <2>1, <2>3, InRow
  <2> QED BY <2>2, <2>4
<1> QED BY <1>1, <1>2

\* The bits of a character that go into its bytes, and the bytes.
High(wc)  == wc \div 4096
Upper(wc) == wc \div 64
Mid(wc)   == (wc \div 64) % 64
Low(wc)   == wc % 64
Lead2(x)  == 192 + x
Lead3(x)  == 224 + x
Trail(x)  == 128 + x

LEMMA Parts ==
  ASSUME NEW wc \in Nat, wc < 65536
  PROVE  /\ High(wc) \in Nat /\ High(wc) < 16 /\ Mid(wc) \in Nat /\ Mid(wc) < 64 /\ Low(wc) \in Nat /\ Low(wc) < 64
         /\ wc < 2048 => Upper(wc) \in Nat /\ Upper(wc) < 32
         /\ wc = High(wc) * 4096 + Mid(wc) * 64 + Low(wc)
         /\ wc = Upper(wc) * 64 + Low(wc)
<1>1. High(wc) \in Nat /\ High(wc) < 16
  BY DEF High
<1>2. Mid(wc) \in Nat /\ Mid(wc) < 64
  BY DEF Mid
<1>3. Low(wc) \in Nat /\ Low(wc) < 64
  BY DEF Low
<1>4. wc < 2048 => Upper(wc) \in Nat /\ Upper(wc) < 32
  BY DEF Upper
<1>5. wc = High(wc) * 4096 + Mid(wc) * 64 + Low(wc)
  BY DEF High, Mid, Low
<1>6. wc = Upper(wc) * 64 + Low(wc)
  BY DEF Upper, Low
<1> QED BY <1>1, <1>2, <1>3, <1>4, <1>5, <1>6

LEMMA Utf8Bytes ==
  ASSUME NEW wc
  PROVE  Utf8(wc) = IF wc < 128 THEN <<wc>>
                    ELSE IF wc < 2048 THEN <<Lead2(Upper(wc)), Trail(Low(wc))>>
                    ELSE <<Lead3(High(wc)), Trail(Mid(wc)), Trail(Low(wc))>>
BY Zenon DEF Utf8, High, Upper, Mid, Low, Lead2, Lead3, Trail

LEMMA TrailBits ==
  ASSUME NEW x \in Nat, x < 64
  PROVE  Trail(x) % 64 = x /\ Trail(x) \in Nat
BY DEF Trail

LEMMA TwoBytes ==
  ASSUME NEW h \in Nat, h < 32, NEW l \in Nat, l < 64
  PROVE  /\ Utf8Read(<<Lead2(h), Trail(l)>>) = h * 64 + l
         /\ <<Lead2(h), Trail(l)>> \in Seq(Nat) /\ Len(<<Lead2(h), Trail(l)>>) = 2
<1>1. Lead2(h) % 32 = h /\ Lead2(h) \in Nat
  BY DEF Lead2
<1>2. Trail(l) % 64 = l /\ Trail(l) \in Nat
  BY TrailBits
<1> DEFINE a == Lead2(h)
           b == Trail(l)
<1>3. a % 32 = h /\ b % 64 = l /\ a \in Nat /\ b \in Nat
  BY <1>1, <1>2
<1> HIDE DEF a, b
<1>4. Len(<<a, b>>) = 2 /\ <<a, b>>[1] = a /\ <<a, b>>[2] = b
  OBVIOUS
<1>5. Utf8Read(<<a, b>>) = h * 64 + l
  BY <1>3, <1>4 DEF Utf8Read
<1>6. <<a, b>> \in Seq(Nat)
  BY <1>3
<1> QED BY <1>4, <1>5, <1>6 DEF a, b

LEMMA ThreeBytes ==
  ASSUME NEW h \in Nat, h < 16, NEW m \in Nat, m < 64, NEW l \in Nat, l < 64
  PROVE  /\ Utf8Read(<<Lead3(h), Trail(m), Trail(l)>>) = h * 4096 + m * 64 + l
         /\ <<Lead3(h), Trail(m), Trail(l)>> \in Seq(Nat)
         /\ Len(<<Lead3(h), Trail(m), Trail(l)>>) = 3
<1>1. Lead3(h) % 16 = h /\ Lead3(h) \in Nat
  BY DEF Lead3
<1>2. Trail(m) % 64 = m /\ Trail(m) \in Nat /\ Trail(l) % 64 = l /\ Trail(l) \in Nat
  BY TrailBits
<1> DEFINE a == Lead3(h)
           b == Trail(m)
           c == Trail(l)
<1>3. a % 16 = h /\ b % 64 = m /\ c % 64 = l /\ a \in Nat /\ b \in Nat /\ c \in Nat
  BY <1>1, <1>2
<1> HIDE DEF a, b, c
<1>4. Len(<<a, b, c>>) = 3 /\ <<a, b, c>>[1] = a /\ <<a, b, c>>[2] = b /\ <<a, b, c>>[3] = c
  OBVIOUS
<1>5. Utf8Read(<<a, b, c>>) = h * 4096 + m * 64 + l
  BY <1>3, <1>4 DEF Utf8Read
<1>6. <<a, b, c>> \in Seq(Nat)
  BY <1>3
<1> QED BY <1>4, <1>5, <1>6 DEF a, b, c

LEMMA Utf8IsRead ==
  ASSUME NEW wc \in Char
  PROVE  /\ Utf8(wc) \in Seq(Nat) /\ Utf8(wc) # <<10>>
         /\ Utf8Read(Utf8(wc)) = wc
<1>1. wc \in Nat /\ wc < 65536 /\ wc # 10
  BY DEF Char
<1>2. CASE wc < 128
  <2>1. Utf8(wc) = <<wc>>
    BY <1>2, Utf8Bytes
  <2>2. Len(<<wc>>) = 1 /\ <<wc>>[1] = wc /\ <<wc>> # <<10>> /\ <<wc>> \in Seq(Nat)
    BY <1>1
  <2> QED BY <2>1, <2>2 DEF Utf8Read
<1>3. CASE ~(wc < 128) /\ wc < 2048
  <2>1. Utf8(wc) = <<Lead2(Upper(wc)), Trail(Low(wc))>>
    BY <1>3, Utf8Bytes
  <2>2. Upper(wc) \in Nat /\ Upper(wc) < 32 /\ Low(wc) \in Nat /\ Low(wc) < 64 /\ wc = Upper(wc) * 64 + Low(wc)
    BY <1>1, <1>3, Parts
  <2>3. Len(<<10>>) = 1
    OBVIOUS
  <2> QED BY <2>1, <2>2, <2>3, TwoBytes
<1>4. CASE ~(wc < 128) /\ ~(wc < 2048)
  <2>1. Utf8(wc) = <<Lead3(High(wc)), Trail(Mid(wc)), Trail(Low(wc))>>
    BY <1>4, Utf8Bytes
  <2>2. /\ High(wc) \in Nat /\ High(wc) < 16 /\ Mid(wc) \in Nat /\ Mid(wc) < 64 /\ Low(wc) \in Nat /\ Low(wc) < 64
        /\ wc = High(wc) * 4096 + Mid(wc) * 64 + Low(wc)
    BY <1>1, Parts
  <2>3. Len(<<10>>) = 1
    OBVIOUS
  <2> QED BY <2>1, <2>2, <2>3, ThreeBytes
<1> QED BY <1>2, <1>3, <1>4

-----------------------------------------------------------------------------
(***************************************************************************)
(* The printer.                                                            *)
(***************************************************************************)
Mark == Byte \cup {Cleared, Restarted}

\* The reading of the text that the code takes.
Printed == [spaces |-> FALSE, joins |-> TRUE]

LEMMA TextOfType ==
  ASSUME NEW n \in Mark, NEW cr
  PROVE  TextOf(n, cr, Printed) \in Seq(Nat)
<1>1. CASE n < 128
  BY <1>1 DEF TextOf, Mark, Byte, CR, LF, Cleared, Restarted, Printed
<1>2. CASE n >= 128
  <2>1. n \in 128 .. 255
    BY <1>2 DEF Mark, Byte, Cleared, Restarted
  <2>2. Roman8(n) \in Nat
    BY <2>1, Roman8Type DEF Char
  <2>3. /\ n \notin {CR, Cleared} /\ n # LF /\ n \notin 32 .. 126 /\ n >= 128
        /\ n \notin (0 .. 31) \ {CR, LF}
    BY <2>1 DEF CR, LF, Cleared
  <2>4. TextOf(n, cr, Printed) = IF Roman8(n) = Blank THEN <<>> ELSE <<Roman8(n)>>
    BY <2>3, Zenon DEF TextOf
  <2> QED BY <2>2, <2>4
<1> QED BY <1>1, <1>2 DEF Mark, Byte, Cleared, Restarted

LEMMA AfterCrSame ==
  ASSUME NEW h \in Seq(Mark), NEW n \in Mark, NEW i \in 1 .. Len(h) + 1
  PROVE  AfterCr(Append(h, n), i, Printed) <=> AfterCr(h, i, Printed)
<1>1. \A j \in 1 .. i - 1 : Append(h, n)[j] = h[j]
  OBVIOUS
<1>2. Len(h) \in Nat
  OBVIOUS
<1> QED BY <1>1, <1>2 DEF AfterCr, Printed

LEMMA AfterCrAppend ==
  ASSUME NEW h \in Seq(Mark), NEW n \in Mark
  PROVE  AfterCr(Append(h, n), Len(h) + 2, Printed) <=> n = CR \/ (n = Cleared /\ AfterCr(h, Len(h) + 1, Printed))
<1> DEFINE g == Append(h, n)
           m == Len(h)
<1>1. /\ m \in Nat /\ g[m + 1] = n
      /\ \A j \in 1 .. m : g[j] = h[j]
  OBVIOUS
<1>2. CR # Cleared
  BY DEF CR, Cleared
<1> HIDE DEF g, m
<1>3. ASSUME AfterCr(g, m + 2, Printed) PROVE n = CR \/ (n = Cleared /\ AfterCr(h, m + 1, Printed))
  <2>1. PICK j \in 1 .. m + 1 : g[j] = CR /\ \A k \in j + 1 .. m + 1 : g[k] = Cleared
    BY <1>1, <1>3 DEF AfterCr, Printed
  <2>2. CASE j = m + 1
    BY <1>1, <2>1, <2>2
  <2>3. CASE j # m + 1
    <3>1. j \in 1 .. m /\ m + 1 \in j + 1 .. m + 1
      BY <1>1, <2>3
    <3>2. \A k \in j + 1 .. m : h[k] = Cleared
      BY <1>1, <2>1, <3>1
    <3>3. m + 1 - 1 = m
      BY <1>1
    <3> QED BY <1>1, <2>1, <3>1, <3>2, <3>3 DEF AfterCr, Printed
  <2> QED BY <2>2, <2>3
<1>4. ASSUME n = CR PROVE AfterCr(g, m + 2, Printed)
  <2>1. m + 1 \in 1 .. m + 2 - 1 /\ m + 1 + 1 .. m + 2 - 1 = {}
    BY <1>1
  <2> QED BY <1>1, <1>4, <2>1 DEF AfterCr, Printed
<1>5. ASSUME n = Cleared, AfterCr(h, m + 1, Printed) PROVE AfterCr(g, m + 2, Printed)
  <2>1. PICK j \in 1 .. m : h[j] = CR /\ \A k \in j + 1 .. m : h[k] = Cleared
    BY <1>1, <1>5 DEF AfterCr, Printed
  <2>2. \A k \in j + 1 .. m + 1 : g[k] = Cleared
    <3> TAKE k \in j + 1 .. m + 1
    <3>1. CASE k = m + 1
      BY <1>1, <1>5, <3>1
    <3>2. CASE k # m + 1
      <4>1. k \in j + 1 .. m /\ k \in 1 .. m
        BY <1>1, <3>2
      <4> QED BY <1>1, <2>1, <4>1
    <3> QED BY <3>1, <3>2
  <2>3. j \in 1 .. m + 2 - 1 /\ m + 2 - 1 = m + 1
    BY <1>1
  <2> QED BY <1>1, <2>1, <2>2, <2>3 DEF AfterCr, Printed
<1> QED BY <1>3, <1>4, <1>5 DEF g, m

LEMMA TextAppend ==
  ASSUME NEW h \in Seq(Mark), NEW n \in Mark
  PROVE  /\ Text(h, Printed) \in Seq(Nat)
         /\ Text(Append(h, n), Printed) = Text(h, Printed) \o TextOf(n, AfterCr(h, Len(h) + 1, Printed), Printed)
<1> DEFINE G(s) == [i \in DOMAIN s |-> TextAt(s, i, Printed)]
           x    == TextOf(n, AfterCr(h, Len(h) + 1, Printed), Printed)
           g    == Append(h, n)
<1>1. ASSUME NEW s \in Seq(Mark) PROVE G(s) \in Seq(Seq(Nat)) /\ Len(G(s)) = Len(s)
  <2>1. \A i \in DOMAIN s : TextAt(s, i, Printed) \in Seq(Nat)
    BY TextOfType DEF TextAt
  <2> QED BY <2>1
<1>2. /\ g \in Seq(Mark) /\ Len(g) = Len(h) + 1 /\ Len(h) \in Nat
      /\ \A i \in 1 .. Len(h) : g[i] = h[i]
      /\ g[Len(h) + 1] = n
  OBVIOUS
<1>3. \A i \in 1 .. Len(h) : TextAt(g, i, Printed) = TextAt(h, i, Printed)
  <2> TAKE i \in 1 .. Len(h)
  <2>1. AfterCr(g, i, Printed) <=> AfterCr(h, i, Printed)
    BY AfterCrSame
  <2>2. g[i] = h[i]
    BY <1>2
  <2> HIDE DEF g
  <2>3. CASE AfterCr(h, i, Printed)
    BY <2>1, <2>2, <2>3 DEF TextAt, TextOf, Printed
  <2>4. CASE ~AfterCr(h, i, Printed)
    BY <2>1, <2>2, <2>4 DEF TextAt, TextOf, Printed
  <2> QED BY <2>3, <2>4
<1>4. TextAt(g, Len(h) + 1, Printed) = x
  <2>1. Len(h) + 1 \in 1 .. Len(h) + 1
    BY <1>2
  <2>2. AfterCr(g, Len(h) + 1, Printed) <=> AfterCr(h, Len(h) + 1, Printed)
    BY <2>1, AfterCrSame
  <2> HIDE DEF g
  <2>3. CASE AfterCr(h, Len(h) + 1, Printed)
    BY <1>2, <2>2, <2>3 DEF TextAt, TextOf, Printed
  <2>4. CASE ~AfterCr(h, Len(h) + 1, Printed)
    BY <1>2, <2>2, <2>4 DEF TextAt, TextOf, Printed
  <2> QED BY <2>3, <2>4
<1>5. x \in Seq(Nat)
  BY TextOfType
<1> HIDE DEF g, x
<1>6. G(g) = Append(G(h), x)
  <2>1. /\ Len(Append(G(h), x)) = Len(h) + 1
        /\ \A i \in 1 .. Len(h) : Append(G(h), x)[i] = G(h)[i]
        /\ Append(G(h), x)[Len(h) + 1] = x
        /\ Append(G(h), x) \in Seq(Seq(Nat))
    BY <1>1, <1>5, AppendProperties
  <2>2. \A i \in 1 .. Len(h) + 1 : G(g)[i] = TextAt(g, i, Printed)
    BY <1>2
  <2>3. \A i \in 1 .. Len(h) : G(h)[i] = TextAt(h, i, Printed)
    OBVIOUS
  <2>4. G(g) \in Seq(Seq(Nat)) /\ Len(G(g)) = Len(h) + 1
    BY <1>1, <1>2
  <2> HIDE DEF G
  <2>5. \A i \in 1 .. Len(h) + 1 : G(g)[i] = Append(G(h), x)[i]
    <3> TAKE i \in 1 .. Len(h) + 1
    <3>1. CASE i = Len(h) + 1
      BY <1>4, <2>1, <2>2, <3>1
    <3>2. CASE i # Len(h) + 1
      <4>1. i \in 1 .. Len(h)
        BY <1>2, <3>2
      <4> QED BY <1>3, <2>1, <2>2, <2>3, <4>1
    <3> QED BY <3>1, <3>2
  <2> QED BY <2>1, <2>4, <2>5, SeqEqual
<1>7. G(h) = <<>> => Text(h, Printed) = <<>>
  BY FlattenEmpty DEF Text
<1> HIDE DEF G
<1>8. FlattenSeq(G(h)) \in Seq(Nat)
  BY <1>1, FlattenType
<1>9. FlattenSeq(Append(G(h), x)) = IF G(h) = <<>> THEN x ELSE FlattenSeq(G(h)) \o x
  BY <1>1, <1>5, FlattenAppend
<1>10. Text(h, Printed) = FlattenSeq(G(h)) /\ Text(g, Printed) = FlattenSeq(G(g))
  BY DEF Text, G
<1>11. <<>> \o x = x
  BY <1>5, ConcatEmptySeq
<1>12. Text(h, Printed) \in Seq(Nat) /\ Text(g, Printed) = Text(h, Printed) \o x
  BY <1>6, <1>7, <1>8, <1>9, <1>10, <1>11
<1> QED BY <1>12 DEF g, x

\* What print_char and print_on_clear write for a byte is its text.
LEMMA NewlineText ==
  ASSUME NEW cr
  PROVE  /\ Newline \in Seq(Nat) /\ Utf8Read(Newline) = LF
         /\ TextOf(CR, cr, Printed) = <<LF>> /\ TextOf(Cleared, cr, Printed) = <<LF>>
         /\ TextOf(LF, cr, Printed) = IF cr THEN <<>> ELSE <<LF>>
         /\ TextOf(Restarted, cr, Printed) = <<>>
<1>1. Newline \in Seq(Nat) /\ Utf8Read(Newline) = LF
  BY DEF Newline, LF, Utf8Read
<1>2. TextOf(CR, cr, Printed) = <<LF>> /\ TextOf(Cleared, cr, Printed) = <<LF>>
  BY DEF TextOf, Cleared, CR, LF, Printed
<1>3. TextOf(LF, cr, Printed) = IF cr THEN <<>> ELSE <<LF>>
  <2>1. LF \notin {CR, Cleared} /\ LF \notin 32 .. 126 /\ ~(LF >= 128)
    BY DEF LF, CR, Cleared
  <2> QED BY <2>1, Zenon DEF TextOf, Printed
<1>4. TextOf(Restarted, cr, Printed) = <<>>
  BY DEF TextOf, Cleared, Restarted, CR, LF, Printed
<1> QED BY <1>1, <1>2, <1>3, <1>4

LEMMA CharText ==
  ASSUME NEW n \in Byte, n # CR, n # LF, NEW cr
  PROVE  /\ Ascii(n) => /\ TextOf(n, cr, Printed) = <<Utf8Read(<<n>>)>>
                        /\ <<n>> \in Seq(Nat) /\ <<n>> # Newline
         /\ ~Ascii(n) /\ Latin(n) => /\ TextOf(n, cr, Printed) = <<Utf8Read(Utf8(Roman8(n)))>>
                                    /\ Utf8(Roman8(n)) \in Seq(Nat) /\ Utf8(Roman8(n)) # Newline
         /\ ~Ascii(n) /\ ~Latin(n) => TextOf(n, cr, Printed) = <<>>
<1>1. n \notin {CR, Cleared} /\ n \in Nat
  BY DEF Byte, Cleared
<1>2. ASSUME Ascii(n)
      PROVE  /\ TextOf(n, cr, Printed) = <<Utf8Read(<<n>>)>>
             /\ <<n>> \in Seq(Nat) /\ <<n>> # Newline
  <2>1. /\ n \in 32 .. 126 /\ ~(n >= 128)
        /\ n \notin (0 .. 31) \ {CR, LF}
    BY <1>1, <1>2 DEF Ascii
  <2>2. TextOf(n, cr, Printed) = <<n>>
    BY <1>1, <2>1, Zenon DEF TextOf
  <2>3. Utf8Read(<<n>>) = n
    BY DEF Utf8Read
  <2>4. <<n>> \in Seq(Nat) /\ <<n>> # Newline
    BY <1>1 DEF Newline
  <2> QED BY <2>2, <2>3, <2>4
<1>3. ASSUME Latin(n)
      PROVE  /\ TextOf(n, cr, Printed) = <<Utf8Read(Utf8(Roman8(n)))>>
             /\ Utf8(Roman8(n)) \in Seq(Nat) /\ Utf8(Roman8(n)) # Newline
  <2>1. /\ n >= 128 /\ n \notin 32 .. 126 /\ Roman8(n) # Blank
        /\ n \notin (0 .. 31) \ {CR, LF}
    BY <1>1, <1>3 DEF Latin
  <2>2. TextOf(n, cr, Printed) = <<Roman8(n)>>
    BY <1>1, <2>1, Zenon DEF TextOf
  <2>3. n \in 128 .. 255
    BY <2>1 DEF Byte
  <2>4. Roman8(n) \in Char
    BY <2>3, Roman8Type
  <2> QED BY <2>2, <2>4, Utf8IsRead DEF Newline, LF
<1>4. ASSUME ~Ascii(n), ~Latin(n) PROVE TextOf(n, cr, Printed) = <<>>
  <2>1. n \notin 32 .. 126 /\ (n >= 128 => Roman8(n) = Blank)
    BY <1>1, <1>4 DEF Ascii, Latin
  <2>2. CASE n >= 128
    <3>1. n \notin (0 .. 31) \ {CR, LF}
      BY <1>1, <2>2
    <3> QED BY <1>1, <2>1, <2>2, <3>1, Zenon DEF TextOf
  <2>3. CASE ~(n >= 128)
    <3>1. Printed.spaces = FALSE
      BY DEF Printed
    <3> QED BY <1>1, <2>1, <2>3, <3>1, Zenon DEF TextOf
  <2> QED BY <2>2, <2>3
<1> QED BY <1>2, <1>3, <1>4

\* The file is the text of what is safe, the file with what is pending that
\* of all; no line that is complete is pending; and last_cr is true after a
\* CR that only clears follow.
PaperTypes ==
  /\ heard \in Seq(Mark) /\ kept \in 0 .. Len(heard) /\ last_cr \in BOOLEAN
  /\ paper \in Seq(Seq(Nat)) /\ pending \in Seq(Seq(Nat))

AllIsText ==
  /\ ReadAll(paper \o pending) = Text(heard, Printed)
  /\ \A i \in DOMAIN pending : pending[i] # Newline
SafeIsText == ReadAll(paper) = Text(SubSeq(heard, 1, kept), Printed)

Paper == PaperTypes /\ AllIsText /\ SafeIsText

PaperInv ==
  /\ Paper
  /\ running => (last_cr <=> AfterCr(heard, Len(heard) + 1, Printed))

LEMMA ReadAppend ==
  ASSUME NEW w \in Seq(Seq(Nat)), NEW b \in Seq(Nat)
  PROVE  ReadAll(w \o <<b>>) = ReadAll(w) \o <<Utf8Read(b)>>
<1> DEFINE S == {Utf8Read(x) : x \in Seq(Nat)}
           v == w \o <<b>>
           x == Utf8Read(b)
<1>1. /\ v \in Seq(Seq(Nat)) /\ Len(v) = Len(w) + 1 /\ Len(w) \in Nat
      /\ \A i \in 1 .. Len(w) : v[i] = w[i]
      /\ v[Len(w) + 1] = b
  OBVIOUS
<1> HIDE DEF v
<1>2. ASSUME NEW s \in Seq(Seq(Nat))
      PROVE  /\ ReadAll(s) \in Seq(S) /\ Len(ReadAll(s)) = Len(s)
             /\ \A i \in 1 .. Len(s) : ReadAll(s)[i] = Utf8Read(s[i])
  <2>1. \A y \in Seq(Nat) : Utf8Read(y) \in S
    OBVIOUS
  <2> HIDE DEF S
  <2>2. \A i \in 1 .. Len(s) : s[i] \in Seq(Nat)
    OBVIOUS
  <2>3. \A i \in 1 .. Len(s) : Utf8Read(s[i]) \in S
    BY <2>1, <2>2
  <2>4. ReadAll(s) = [i \in 1 .. Len(s) |-> Utf8Read(s[i])] /\ Len(s) \in Nat
    BY DEF ReadAll
  <2> QED BY <2>3, <2>4
<1>3. x \in S
  OBVIOUS
<1> HIDE DEF S
<1>4. /\ ReadAll(w) \o <<x>> \in Seq(S) /\ Len(ReadAll(w) \o <<x>>) = Len(w) + 1
      /\ \A i \in 1 .. Len(w) : (ReadAll(w) \o <<x>>)[i] = ReadAll(w)[i]
      /\ (ReadAll(w) \o <<x>>)[Len(w) + 1] = x
  <2> HIDE DEF x
  <2>1. ReadAll(w) \in Seq(S) /\ Len(ReadAll(w)) = Len(w)
    BY <1>2
  <2>2. Append(ReadAll(w), x) = ReadAll(w) \o <<x>>
    BY <1>3, <2>1, AppendIsConcat
  <2>3. /\ Append(ReadAll(w), x) \in Seq(S) /\ Len(Append(ReadAll(w), x)) = Len(w) + 1
        /\ \A i \in 1 .. Len(w) : Append(ReadAll(w), x)[i] = ReadAll(w)[i]
        /\ Append(ReadAll(w), x)[Len(w) + 1] = x
    BY <1>3, <2>1, AppendProperties
  <2> QED BY <2>2, <2>3
<1>5. \A i \in 1 .. Len(w) + 1 : ReadAll(v)[i] = (ReadAll(w) \o <<x>>)[i]
  <2> TAKE i \in 1 .. Len(w) + 1
  <2>1. ReadAll(v)[i] = Utf8Read(v[i])
    BY <1>1, <1>2
  <2>2. CASE i = Len(w) + 1
    BY <1>1, <1>4, <2>1, <2>2
  <2>3. CASE i # Len(w) + 1
    <3>1. i \in 1 .. Len(w)
      BY <1>1, <2>3
    <3> QED BY <1>1, <1>2, <1>4, <2>1, <3>1
  <2> QED BY <2>2, <2>3
<1>6. ReadAll(v) = ReadAll(w) \o <<x>>
  <2>1. ReadAll(v) \in Seq(S) /\ Len(ReadAll(v)) = Len(w) + 1
    BY <1>1, <1>2
  <2> HIDE DEF x
  <2> QED BY <1>4, <1>5, <2>1, SeqEqual
<1> QED BY <1>6 DEF v

\* One mark more, and the bytes that stand for it are written.
LEMMA Written ==
  ASSUME Paper, NEW n \in Mark, heard' = Append(heard, n), last_cr' \in BOOLEAN,
         NEW b \in Seq(Nat), Write(b),
         TextOf(n, AfterCr(heard, Len(heard) + 1, Printed), Printed) = <<Utf8Read(b)>>
  PROVE  Paper'
<1> USE DEF Paper, SafeIsText
<1>1. heard' \in Seq(Mark) /\ Len(heard') = Len(heard) + 1 /\ Len(heard) \in Nat
  BY DEF PaperTypes
<1>2. Text(heard', Printed) = Text(heard, Printed) \o <<Utf8Read(b)>>
  BY TextAppend DEF PaperTypes
<1>3. ReadAll((paper \o pending) \o <<b>>) = Text(heard', Printed)
  <2>1. paper \o pending \in Seq(Seq(Nat))
    BY DEF PaperTypes
  <2>2. ReadAll((paper \o pending) \o <<b>>) = ReadAll(paper \o pending) \o <<Utf8Read(b)>>
    BY <2>1, ReadAppend
  <2> QED BY <1>2, <2>2 DEF AllIsText
<1>4. CASE b = Newline
  <2>1. paper' = paper \o pending \o <<b>> /\ pending' = <<>> /\ kept' = Len(heard) + 1
    BY <1>4 DEF Write
  <2>2. paper' \in Seq(Seq(Nat)) /\ paper' \o pending' = paper'
    BY <2>1 DEF PaperTypes
  <2>3. SubSeq(heard', 1, kept') = heard'
    BY <1>1, <2>1
  <2>4. DOMAIN pending' = {} /\ pending' \in Seq(Seq(Nat))
    BY <2>1
  <2>5. PaperTypes'
    BY <1>1, <2>1, <2>2, <2>4 DEF PaperTypes
  <2>6. ReadAll(paper') = Text(heard', Printed)
    BY <1>3, <2>1
  <2>7. AllIsText'
    BY <2>2, <2>4, <2>6 DEF AllIsText, ReadAll, Text, TextAt, AfterCr, Printed
  <2>8. SafeIsText'
    BY <2>3, <2>6
  <2> QED BY <2>5, <2>7, <2>8
<1>5. CASE b # Newline
  <2>1. paper' = paper /\ pending' = Append(pending, b) /\ kept' = kept
    BY <1>5 DEF Write
  <2>2. /\ pending' \in Seq(Seq(Nat)) /\ Len(pending') = Len(pending) + 1 /\ Len(pending) \in Nat
        /\ \A i \in 1 .. Len(pending) : pending'[i] = pending[i]
        /\ pending'[Len(pending) + 1] = b
    <3>1. pending \in Seq(Seq(Nat)) /\ b \in Seq(Nat)
      BY DEF PaperTypes
    <3>2. /\ Append(pending, b) \in Seq(Seq(Nat)) /\ Len(Append(pending, b)) = Len(pending) + 1
          /\ \A i \in 1 .. Len(pending) : Append(pending, b)[i] = pending[i]
          /\ Append(pending, b)[Len(pending) + 1] = b
      BY <3>1, AppendProperties
    <3>3. Len(pending) \in Nat
      BY <3>1
    <3> QED BY <2>1, <3>2, <3>3
  <2>3. paper' \o pending' = (paper \o pending) \o <<b>>
    <3> DEFINE S == Seq(Nat)
    <3>1. paper \in Seq(S) /\ pending \in Seq(S) /\ b \in S
      BY DEF PaperTypes
    <3> HIDE DEF S
    <3>2. paper \o Append(pending, b) = (paper \o pending) \o <<b>>
      BY <3>1, ConcatLast
    <3> QED BY <2>1, <3>2
  <2>4. SubSeq(heard', 1, kept') = SubSeq(heard, 1, kept)
    BY <1>1, <2>1 DEF PaperTypes
  <2>5. PaperTypes'
    BY <1>1, <2>1, <2>2 DEF PaperTypes
  <2>6. \A i \in DOMAIN pending' : pending'[i] # Newline
    <3> TAKE i \in DOMAIN pending'
    <3>1. i \in 1 .. Len(pending) + 1
      BY <2>2
    <3>2. CASE i = Len(pending) + 1
      BY <1>5, <2>2, <3>2
    <3>3. CASE i # Len(pending) + 1
      <4>1. i \in 1 .. Len(pending)
        BY <2>2, <3>1, <3>3
      <4>2. DOMAIN pending = 1 .. Len(pending)
        BY DEF PaperTypes
      <4> QED BY <2>2, <4>1, <4>2 DEF AllIsText
    <3> QED BY <3>2, <3>3
  <2>7. ReadAll(paper' \o pending') = Text(heard', Printed)
    BY <1>3, <2>3
  <2>8. SafeIsText'
    BY <2>1, <2>4
  <2> QED BY <2>5, <2>6, <2>7, <2>8 DEF AllIsText
<1> QED BY <1>4, <1>5

LEMMA NotWritten ==
  ASSUME Paper, NEW n \in Mark, heard' = Append(heard, n), last_cr' \in BOOLEAN, NoWrite,
         TextOf(n, AfterCr(heard, Len(heard) + 1, Printed), Printed) = <<>>
  PROVE  Paper'
<1>1. heard' \in Seq(Mark) /\ Len(heard') = Len(heard) + 1 /\ Len(heard) \in Nat
  BY DEF Paper, PaperTypes
<1>2. paper' = paper /\ pending' = pending /\ kept' = kept
  BY DEF NoWrite
<1>3. Text(heard', Printed) = Text(heard, Printed)
  <2>1. Text(heard, Printed) \in Seq(Nat) /\ Text(heard', Printed) = Text(heard, Printed) \o <<>>
    BY TextAppend DEF Paper, PaperTypes
  <2> QED BY <2>1, ConcatEmptySeq
<1>4. SubSeq(heard', 1, kept') = SubSeq(heard, 1, kept)
  BY <1>1, <1>2 DEF Paper, PaperTypes
<1>5. PaperTypes'
  BY <1>1, <1>2 DEF Paper, PaperTypes
<1>6. AllIsText'
  BY <1>2, <1>3 DEF Paper, AllIsText
<1>7. SafeIsText'
  BY <1>2, <1>4 DEF Paper, SafeIsText
<1> QED BY <1>5, <1>6, <1>7 DEF Paper

\* print_char
LEMMA PrintCharPaper ==
  ASSUME PaperInv, running, NEW n \in Byte, PrintChar(n)
  PROVE  PaperInv'
<1> DEFINE cr == AfterCr(heard, Len(heard) + 1, Printed)
<1>1. /\ Paper /\ (last_cr <=> cr) /\ last_cr \in BOOLEAN /\ heard \in Seq(Mark)
      /\ n \in Mark /\ heard' = Append(heard, n) /\ last_cr' = (n = CR)
  BY DEF PaperInv, Paper, PaperTypes, PrintChar, Mark
<1>2. last_cr' <=> AfterCr(heard', Len(heard') + 1, Printed)
  <2>1. Len(heard') + 1 = Len(heard) + 2 /\ n # Cleared
    BY <1>1 DEF Byte, Cleared
  <2> QED BY <1>1, <2>1, AfterCrAppend
<1>3. last_cr' \in BOOLEAN
  BY <1>1
<1> HIDE DEF cr
<1>4. CASE n = CR \/ (n = LF /\ ~last_cr)
  <2>1. Write(Newline)
    BY <1>4 DEF PrintChar
  <2>2. TextOf(n, cr, Printed) = <<Utf8Read(Newline)>>
    BY <1>1, <1>4, NewlineText, Zenon
  <2> QED BY <1>1, <1>2, <1>3, <2>1, <2>2, Written, NewlineText DEF PaperInv, cr
<1>5. CASE n = LF /\ last_cr
  <2>1. n # CR /\ ~Ascii(n) /\ ~Latin(n) /\ NoWrite
    BY <1>5 DEF PrintChar, Ascii, Latin, LF, CR
  <2>2. TextOf(n, cr, Printed) = <<>>
    BY <1>1, <1>5, NewlineText, Zenon
  <2> QED BY <1>1, <1>2, <1>3, <2>1, <2>2, NotWritten DEF PaperInv, cr
<1>6. CASE n # CR /\ n # LF /\ Ascii(n)
  <2>1. Write(<<n>>)
    BY <1>6 DEF PrintChar
  <2>2. TextOf(n, cr, Printed) = <<Utf8Read(<<n>>)>> /\ <<n>> \in Seq(Nat)
    BY <1>6, CharText
  <2> QED BY <1>1, <1>2, <1>3, <2>1, <2>2, Written DEF PaperInv, cr
<1>7. CASE n # CR /\ n # LF /\ ~Ascii(n) /\ Latin(n)
  <2>1. Write(Utf8(Roman8(n)))
    BY <1>7 DEF PrintChar
  <2>2. TextOf(n, cr, Printed) = <<Utf8Read(Utf8(Roman8(n)))>> /\ Utf8(Roman8(n)) \in Seq(Nat)
    BY <1>7, CharText
  <2> QED BY <1>1, <1>2, <1>3, <2>1, <2>2, Written DEF PaperInv, cr
<1>8. CASE n # CR /\ n # LF /\ ~Ascii(n) /\ ~Latin(n)
  <2>1. NoWrite
    BY <1>8 DEF PrintChar
  <2>2. TextOf(n, cr, Printed) = <<>>
    BY <1>8, CharText
  <2> QED BY <1>1, <1>2, <1>3, <2>1, <2>2, NotWritten DEF PaperInv, cr
<1> QED BY <1>1, <1>4, <1>5, <1>6, <1>7, <1>8

\* print_on_clear: last_cr stays, and so does what it stands for.
LEMMA OnClearPaper ==
  ASSUME PaperInv, running, OnClear
  PROVE  PaperInv'
<1> DEFINE cr == AfterCr(heard, Len(heard) + 1, Printed)
<1>1. /\ Paper /\ (last_cr <=> cr) /\ last_cr \in BOOLEAN /\ heard \in Seq(Mark)
      /\ Cleared \in Mark /\ heard' = Append(heard, Cleared) /\ last_cr' = last_cr
      /\ Write(Newline)
  BY DEF PaperInv, Paper, PaperTypes, OnClear, Mark
<1>2. last_cr' <=> AfterCr(heard', Len(heard') + 1, Printed)
  <2>1. Len(heard') + 1 = Len(heard) + 2 /\ CR # Cleared
    BY <1>1 DEF CR, Cleared
  <2> QED BY <1>1, <2>1, AfterCrAppend
<1> HIDE DEF cr
<1>3. TextOf(Cleared, cr, Printed) = <<Utf8Read(Newline)>>
  BY NewlineText, Zenon
<1> QED BY <1>1, <1>2, <1>3, Written, NewlineText DEF PaperInv, cr

\* init_ilprint
LEMMA PrintOpenPaper ==
  ASSUME PaperInv, PrintOpen
  PROVE  PaperInv'
<1>1. Paper /\ heard \in Seq(Mark) /\ Len(heard) \in Nat /\ Restarted \in Mark
  BY DEF PaperInv, Paper, PaperTypes, Mark
<1>2. last_cr' = FALSE /\ NoWrite
  BY DEF PrintOpen, NoWrite
<1>3. Restarted # CR /\ Restarted # Cleared /\ CR # Cleared
  BY DEF Restarted, CR, Cleared
<1>4. CASE heard = <<>> \/ heard[Len(heard)] = Restarted
  <2>1. heard' = heard
    BY <1>4 DEF PrintOpen
  <2>2. Paper'
    BY <1>1, <1>2, <2>1 DEF Paper, PaperTypes, AllIsText, SafeIsText, NoWrite
  <2>3. ~AfterCr(heard, Len(heard) + 1, Printed)
    <3> SUFFICES ASSUME NEW j \in 1 .. Len(heard), heard[j] = CR,
                        \A k \in j + 1 .. Len(heard) : heard[k] = Cleared
                 PROVE  FALSE
      BY <1>1 DEF AfterCr, Printed
    <3>1. heard # <<>> /\ Len(heard) \in 1 .. Len(heard)
      BY <1>1
    <3>2. heard[Len(heard)] = Restarted
      BY <1>4, <3>1
    <3>3. CASE j = Len(heard)
      BY <1>3, <3>2, <3>3
    <3>4. CASE j # Len(heard)
      <4>1. Len(heard) \in j + 1 .. Len(heard)
        BY <1>1, <3>4
      <4> QED BY <1>3, <3>2, <4>1
    <3> QED BY <3>3, <3>4
  <2> QED BY <1>2, <2>1, <2>2, <2>3 DEF PaperInv, AfterCr, Printed
<1>5. CASE ~(heard = <<>> \/ heard[Len(heard)] = Restarted)
  <2>1. heard' = Append(heard, Restarted)
    BY <1>5 DEF PrintOpen
  <2>2. TextOf(Restarted, AfterCr(heard, Len(heard) + 1, Printed), Printed) = <<>>
    BY NewlineText, Zenon
  <2>3. Paper'
    BY <1>1, <1>2, <2>1, <2>2, NotWritten
  <2>4. Len(heard') + 1 = Len(heard) + 2
    BY <1>1, <2>1
  <2>5. ~AfterCr(heard', Len(heard') + 1, Printed)
    BY <1>1, <1>3, <2>1, <2>4, AfterCrAppend
  <2> QED BY <1>2, <2>3, <2>5 DEF PaperInv
<1> QED BY <1>4, <1>5

\* close_ilprint, and the loss of the process.
LEMMA PaperEnd ==
  ASSUME PaperInv, PrintClose \/ PrintLost, ~running'
  PROVE  PaperInv'
<1>1. /\ Paper /\ heard \in Seq(Mark) /\ Len(heard) \in Nat /\ kept \in 0 .. Len(heard)
      /\ paper \in Seq(Seq(Nat)) /\ pending \in Seq(Seq(Nat)) /\ last_cr \in BOOLEAN
  BY DEF PaperInv, Paper, PaperTypes
<1>2. pending' = <<>> /\ last_cr' = last_cr /\ DOMAIN <<>> = {}
  BY DEF PrintClose, PrintLost
<1>3. CASE PrintClose
  <2>1. paper' = paper \o pending /\ kept' = Len(heard) /\ heard' = heard
    BY <1>3 DEF PrintClose
  <2>2. paper' \in Seq(Seq(Nat)) /\ paper' \o pending' = paper'
    BY <1>1, <1>2, <2>1
  <2>3. SubSeq(heard', 1, kept') = heard
    BY <1>1, <2>1
  <2>4. ReadAll(paper') = Text(heard, Printed)
    BY <1>1, <2>1 DEF Paper, AllIsText
  <2>5. PaperTypes'
    BY <1>1, <1>2, <2>1, <2>2 DEF PaperTypes
  <2>6. AllIsText'
    BY <1>2, <2>1, <2>2, <2>4 DEF AllIsText
  <2>7. SafeIsText'
    BY <2>3, <2>4 DEF SafeIsText
  <2> QED BY <2>5, <2>6, <2>7 DEF PaperInv, Paper
<1>4. CASE PrintLost
  <2>1. paper' = paper /\ kept' = kept /\ heard' = SubSeq(heard, 1, kept)
    BY <1>4 DEF PrintLost
  <2>2. paper' \o pending' = paper
    BY <1>1, <1>2, <2>1
  <2>3. heard' \in Seq(Mark) /\ Len(heard') = kept
    BY <1>1, <2>1
  <2>4. SubSeq(heard', 1, kept') = heard'
    BY <2>1, <2>3
  <2>5. ReadAll(paper) = Text(heard', Printed)
    BY <1>1, <2>1 DEF Paper, SafeIsText
  <2>6. PaperTypes'
    BY <1>1, <1>2, <2>1, <2>3 DEF PaperTypes
  <2>7. AllIsText'
    BY <1>2, <2>2, <2>5 DEF AllIsText
  <2>8. SafeIsText'
    BY <2>1, <2>4, <2>5 DEF SafeIsText
  <2> QED BY <2>6, <2>7, <2>8 DEF PaperInv, Paper
<1> QED BY <1>3, <1>4

\* The argument of a frame is a byte.
LEMMA DoeByte ==
  ASSUME NEW code \in Nat
  PROVE  DoeOf(code).n \in Byte
<1>1. DoeOf(code).n = code % 256
  BY DEF DoeOf, F
<1>2. code % 256 \in Byte
  BY DEF Byte
<1> QED BY <1>1, <1>2

LEMMA CmdByte ==
  ASSUME NEW n \in Byte
  PROVE  CmdOf(n).n \in Byte
<1>1. n % 32 \in Byte /\ 0 \in Byte
  BY DEF Byte
<1>2. CmdOf(n).n \in {0, n % 32, n}
  BY DEF CmdOf, F
<1> QED BY <1>1, <1>2

LEMMA RdyByte ==
  ASSUME NEW n \in Byte
  PROVE  RdyOf(n).n \in Byte
<1>1. n % 32 \in Byte /\ 0 \in Byte
  BY DEF Byte
<1>2. RdyOf(n).n \in {0, n % 32, n}
  BY DEF RdyOf, F, Eto
<1> QED BY <1>1, <1>2

LEMMA FrameByte ==
  ASSUME NEW code \in Nat, code < 2048
  PROVE  FrameOf(code).n \in Byte
<1> DEFINE n == code % 256
<1>1. n \in Byte /\ code \in Nat
  BY DEF Byte
<1>2. F("IDY", 0).n \in Byte /\ F("IDY", 1).n \in Byte
  BY DEF F, Byte
<1>3. CASE code < 1024
  <2>1. FrameOf(code).n = DoeOf(code).n
    BY <1>3 DEF FrameOf
  <2> QED BY <1>1, <2>1, DoeByte
<1>4. CASE code >= 1024
  <2>1. ~(code < 1024) /\ code \div 256 \in {4, 5, 6, 7}
    BY <1>4
  <2>2. FrameOf(code) \in {CmdOf(n), RdyOf(n), F("IDY", 0), F("IDY", 1)}
    BY <2>1 DEF FrameOf
  <2> HIDE DEF n
  <2> QED BY <1>1, <1>2, <2>2, CmdByte, RdyByte
<1> QED BY <1>3, <1>4

LEMMA PaperStays ==
  ASSUME PaperInv, UNCHANGED printVars, running' => running
  PROVE  PaperInv'
<1>1. heard' = heard /\ paper' = paper /\ pending' = pending /\ kept' = kept /\ last_cr' = last_cr
  BY DEF printVars
<1> QED BY <1>1 DEF PaperInv, Paper, PaperTypes, AllIsText, SafeIsText

LEMMA PaperStep ==
  ASSUME PaperInv, [Next]_vars
  PROVE  PaperInv'
<1>1. ASSUME NEW code \in Codes, Transmit(code) PROVE PaperInv'
  <2> DEFINE f == FrameOf(code)
  <2>1. f.n \in Byte
    <3>1. code \in Nat /\ code < 2048
      BY OutputsAssumption
    <3> QED BY <3>1, FrameByte
  <2>2. running /\ running' /\ ILprint(f)
    BY <1>1 DEF Transmit
  <2> HIDE DEF f
  <2>3. CASE PrintChar(f.n)
    BY <2>1, <2>2, <2>3, PrintCharPaper
  <2>4. CASE OnClear
    BY <2>2, <2>4, OnClearPaper
  <2>5. CASE UNCHANGED printVars
    BY <2>2, <2>5, PaperStays
  <2> QED BY <2>2, <2>3, <2>4, <2>5 DEF ILprint
<1>2. CASE Start
  BY <1>2, PrintOpenPaper DEF Start
<1>3. CASE Quit \/ Crash
  BY <1>3, PaperEnd DEF Quit, Crash
<1>4. CASE UNCHANGED vars
  BY <1>4, PaperStays DEF vars
<1> QED BY <1>1, <1>2, <1>3, <1>4 DEF Next

\* The file and what is pending are the text of what was received, in runs
\* of any length, over any stops, crashes and starts (ilprint.c:53-108).
THEOREM PaperIsTheText == Spec => []PaperIsText
<1>1. Init => PaperInv
  <2> SUFFICES ASSUME Init PROVE PaperInv
    OBVIOUS
  <2>1. /\ heard = <<>> /\ paper = <<>> /\ pending = <<>> /\ kept = 0 /\ last_cr = FALSE
        /\ ~running
    BY DEF Init, PrintInit
  <2>2. Text(<<>>, Printed) = <<>> /\ ReadAll(<<>>) = <<>>
    BY FlattenEmpty DEF Text, ReadAll
  <2>3. SubSeq(<<>>, 1, 0) = <<>> /\ <<>> \o <<>> = <<>>
    OBVIOUS
  <2>4. <<>> \in Seq(Mark) /\ <<>> \in Seq(Seq(Nat)) /\ Len(<<>>) = 0 /\ DOMAIN <<>> = {}
    OBVIOUS
  <2>5. PaperTypes
    <3>1. kept = 0 /\ Len(heard) = 0
      BY <2>1, <2>4
    <3>2. kept \in 0 .. Len(heard)
      BY <3>1
    <3>3. last_cr \in BOOLEAN
      BY <2>1
    <3> QED BY <2>1, <2>4, <3>2, <3>3, Zenon DEF PaperTypes
  <2>6. AllIsText /\ SafeIsText
    BY <2>1, <2>2, <2>3, <2>4 DEF AllIsText, SafeIsText
  <2> QED BY <2>1, <2>5, <2>6 DEF PaperInv, Paper
<1>2. PaperInv => PaperIsText
  <2>1. Printed \in Readings
    BY DEF Printed, Readings
  <2> QED BY <2>1 DEF PaperInv, Paper, AllIsText, PaperIsText
<1> QED BY <1>1, <1>2, PaperStep, PTL DEF Spec

-----------------------------------------------------------------------------
(***************************************************************************)
(* A line tells its frames: the code is read back from the mnemonic.       *)
(***************************************************************************)

\* The frames there are.
Code == {c \in Nat : c < 2048}

\* The code a name stands for, and the first one of a group.
AcgNames == {"NUL", "GTL", "SDC", "PPD", "GET", "ELN"}
AcgCode(s) ==
  CASE s = "NUL" -> 0 [] s = "GTL" -> 1 [] s = "SDC" -> 4 [] s = "PPD" -> 5 [] s = "GET" -> 8
    [] s = "ELN" -> 15

UcgNames == {"NOP", "LLO", "DCL", "PPU", "EAR", "UNL", "UNT", "IFC", "REN", "NRE", "AAU", "LPD"}
UcgCode(s) ==
  CASE s = "NOP" -> 16 [] s = "LLO" -> 17 [] s = "DCL" -> 20 [] s = "PPU" -> 21 [] s = "EAR" -> 24
    [] s = "UNL" -> 63 [] s = "UNT" -> 95 [] s = "IFC" -> 144 [] s = "REN" -> 146 [] s = "NRE" -> 147
    [] s = "AAU" -> 154 [] s = "LPD" -> 155

ArgNames == {"RFC", "ETO", "ETE", "NRD", "SDA", "SST", "SDI", "SAI", "TCT"}
ArgCode(s) ==
  CASE s = "RFC" -> 0 [] s = "ETO" -> 64 [] s = "ETE" -> 65 [] s = "NRD" -> 66 [] s = "SDA" -> 96
    [] s = "SST" -> 97 [] s = "SDI" -> 98 [] s = "SAI" -> 99 [] s = "TCT" -> 100

AagNames == {"IAA", "IEP", "ZES", "IES", "IMP"}
AagCode(s) ==
  CASE s = "IAA" -> 159 [] s = "IEP" -> 191 [] s = "ZES" -> 192 [] s = "IES" -> 223 [] s = "IMP" -> 255

NameCode(s) ==
  IF s \in AcgNames THEN 1024 + AcgCode(s)
  ELSE IF s \in UcgNames THEN 1024 + UcgCode(s)
  ELSE IF s \in ArgNames THEN 1280 + ArgCode(s)
  ELSE 1280 + AagCode(s)

GroupCode(s) ==
  CASE s = "DAB"      -> 0    [] s = "CMD"      -> 1024 [] s = "PPE"      -> 1152 [] s = "RDY"      -> 1280
    [] s = "IDY"      -> 1536 [] s = "IDY(SRQ)" -> 1792 [] s = "LAD"      -> 1056 [] s = "TAD"      -> 1088
    [] s = "SAD"      -> 1120 [] s = "DDL"      -> 1184 [] s = "DDT"      -> 1216 [] s = "AAD"      -> 1408
    [] s = "AEP"      -> 1440 [] s = "AES"      -> 1472 [] s = "AMP"      -> 1504

ReadMnemo(m) == IF Len(m) = 1 THEN NameCode(m[1]) ELSE GroupCode(m[1]) + m[2]

LEMMA AcgRead ==
  ASSUME NEW n \in Nat, AcgName(n) # NoName
  PROVE  AcgCode(AcgName(n)) = n
BY DEF AcgName, NoName, AcgCode

LEMMA AcgKnown ==
  ASSUME NEW n \in Nat, AcgName(n) # NoName
  PROVE  AcgName(n) \in AcgNames
BY DEF AcgName, NoName, AcgNames

LEMMA UcgRead ==
  ASSUME NEW n \in Nat, UcgName(n) # NoName
  PROVE  UcgCode(UcgName(n)) = n
BY DEF UcgName, NoName, UcgCode

LEMMA UcgKnown ==
  ASSUME NEW n \in Nat, UcgName(n) # NoName
  PROVE  UcgName(n) \in UcgNames /\ UcgName(n) \notin AcgNames
BY DEF UcgName, NoName, AcgNames, UcgNames

LEMMA ArgRead ==
  ASSUME NEW n \in Nat, ArgName(n) # NoName
  PROVE  ArgCode(ArgName(n)) = n
BY DEF ArgName, NoName, ArgCode

LEMMA ArgKnown ==
  ASSUME NEW n \in Nat, ArgName(n) # NoName
  PROVE  ArgName(n) \in ArgNames /\ ArgName(n) \notin AcgNames /\ ArgName(n) \notin UcgNames
BY DEF ArgName, NoName, AcgNames, UcgNames, ArgNames

LEMMA AagRead ==
  ASSUME NEW n \in Nat, AagName(n) # NoName
  PROVE  AagCode(AagName(n)) = n
BY DEF AagName, NoName, AagCode

LEMMA AagKnown ==
  ASSUME NEW n \in Nat, AagName(n) # NoName
  PROVE  AagName(n) \in AagNames /\ AagName(n) \notin AcgNames /\ AagName(n) \notin UcgNames /\ AagName(n) \notin ArgNames
BY DEF AagName, NoName, AcgNames, UcgNames, ArgNames, AagNames

LEMMA CmdNameRead ==
  ASSUME NEW n \in Nat, CmdName(n) # NoName
  PROVE  NameCode(CmdName(n)) = 1024 + n
<1>1. CASE n < 16
  BY <1>1, AcgRead, AcgKnown DEF CmdName, NameCode
<1>2. CASE ~(n < 16)
  BY <1>2, UcgRead, UcgKnown DEF CmdName, NameCode
<1> QED BY <1>1, <1>2

LEMMA RdyNameRead ==
  ASSUME NEW n \in Nat, RdyName(n) # NoName
  PROVE  NameCode(RdyName(n)) = 1280 + n
<1>1. CASE n < 128
  BY <1>1, ArgRead, ArgKnown DEF RdyName, NameCode
<1>2. CASE ~(n < 128)
  BY <1>2, AagRead, AagKnown DEF RdyName, NameCode
<1> QED BY <1>1, <1>2

LEMMA CmdGroupRead ==
  ASSUME NEW g \in Nat, CmdGroup(g) # NoName
  PROVE  GroupCode(CmdGroup(g)) = 1024 + 32 * g
BY DEF CmdGroup, NoName, GroupCode

LEMMA RdyGroupRead ==
  ASSUME NEW g \in Nat, RdyGroup(g) # NoName
  PROVE  GroupCode(RdyGroup(g)) = 1280 + 32 * g
BY DEF RdyGroup, NoName, GroupCode

LEMMA OtherRead ==
  /\ GroupCode("DAB") = 0 /\ GroupCode("CMD") = 1024 /\ GroupCode("PPE") = 1152
  /\ GroupCode("RDY") = 1280 /\ GroupCode("IDY") = 1536 /\ GroupCode("IDY(SRQ)") = 1792
BY DEF GroupCode

\* How a mnemonic of one word, and one of a word and a number, are read.
LEMMA WordRead ==
  ASSUME NEW w
  PROVE  ReadMnemo(<<w>>) = NameCode(w)
<1>1. Len(<<w>>) = 1 /\ <<w>>[1] = w
  OBVIOUS
<1> QED BY <1>1 DEF ReadMnemo

LEMMA PairRead ==
  ASSUME NEW w, NEW x
  PROVE  ReadMnemo(<<w, x>>) = GroupCode(w) + x
<1>1. Len(<<w, x>>) = 2 /\ <<w, x>>[1] = w /\ <<w, x>>[2] = x
  OBVIOUS
<1> QED BY <1>1 DEF ReadMnemo

LEMMA CmdRead ==
  ASSUME NEW n \in Nat
  PROVE  ReadMnemo(CmdMnemo(n)) = 1024 + n
<1> DEFINE g == n \div 32
           x == n % 32
<1>1. CASE CmdName(n) # NoName
  BY <1>1, WordRead, CmdNameRead DEF CmdMnemo
<1>2. CASE CmdName(n) = NoName /\ n \div 16 = 8
  <2>1. n = 128 + (n % 16) /\ n % 16 \in Nat
    BY <1>2
  <2>2. CmdMnemo(n) = <<"PPE", n % 16>>
    BY <1>2 DEF CmdMnemo
  <2>3. ReadMnemo(CmdMnemo(n)) = 1152 + (n % 16)
    BY <2>1, <2>2, PairRead, OtherRead
  <2> QED BY <2>1, <2>3
<1>3. CASE CmdName(n) = NoName /\ n \div 16 # 8 /\ CmdGroup(g) # NoName
  <2>1. n = 32 * g + x /\ g \in Nat /\ x \in Nat
    OBVIOUS
  <2>2. CmdMnemo(n) = <<CmdGroup(g), x>>
    BY <1>3 DEF CmdMnemo
  <2> HIDE DEF g, x
  <2> QED BY <1>3, <2>1, <2>2, PairRead, CmdGroupRead
<1>4. CASE CmdName(n) = NoName /\ n \div 16 # 8 /\ CmdGroup(g) = NoName
  <2>1. CmdMnemo(n) = <<"CMD", n>>
    BY <1>4 DEF CmdMnemo
  <2> QED BY <2>1, PairRead, OtherRead
<1> QED BY <1>1, <1>2, <1>3, <1>4

LEMMA RdyRead ==
  ASSUME NEW n \in Nat
  PROVE  ReadMnemo(RdyMnemo(n)) = 1280 + n
<1> DEFINE g == n \div 32
           x == n % 32
<1>1. CASE RdyName(n) # NoName
  BY <1>1, WordRead, RdyNameRead DEF RdyMnemo
<1>2. CASE RdyName(n) = NoName /\ RdyGroup(g) # NoName
  <2>1. n = 32 * g + x /\ g \in Nat /\ x \in Nat
    OBVIOUS
  <2>2. RdyMnemo(n) = <<RdyGroup(g), x>>
    BY <1>2 DEF RdyMnemo
  <2> HIDE DEF g, x
  <2> QED BY <1>2, <2>1, <2>2, PairRead, RdyGroupRead
<1>3. CASE RdyName(n) = NoName /\ RdyGroup(g) = NoName
  <2>1. RdyMnemo(n) = <<"RDY", n>>
    BY <1>3 DEF RdyMnemo
  <2> QED BY <2>1, PairRead, OtherRead
<1> QED BY <1>1, <1>2, <1>3

\* Every code of a class that is shown whole is read back.
LEMMA MnemoRead ==
  ASSUME NEW code \in Code, code \div 256 \notin 1 .. 3
  PROVE  ReadMnemo(ILMnemo(code)) = code
<1> DEFINE g == code \div 256
           n == code % 256
<1>1. code = 256 * g + n /\ n \in Nat
  BY DEF Code
<1>2. g \in {0, 4, 5, 6, 7}
  BY DEF Code
<1>3. /\ g = 0 => ILMnemo(code) = <<"DAB", n>>
      /\ g = 4 => ILMnemo(code) = CmdMnemo(n)
      /\ g = 5 => ILMnemo(code) = RdyMnemo(n)
      /\ g = 6 => ILMnemo(code) = <<"IDY", n>>
      /\ g = 7 => ILMnemo(code) = <<"IDY(SRQ)", n>>
  BY DEF ILMnemo
<1> HIDE DEF g, n
<1>4. ReadMnemo(CmdMnemo(n)) = 1024 + n /\ ReadMnemo(RdyMnemo(n)) = 1280 + n
  BY <1>1, CmdRead, RdyRead
<1>5. /\ ReadMnemo(<<"DAB", n>>) = n /\ ReadMnemo(<<"IDY", n>>) = 1536 + n
      /\ ReadMnemo(<<"IDY(SRQ)", n>>) = 1792 + n
  BY <1>1, PairRead, OtherRead
<1> QED BY <1>1, <1>2, <1>3, <1>4, <1>5

LEMMA LineTells ==
  ASSUME NEW a \in Code \X Code, NEW b \in Code \X Code, Shown(a), Shown(b),
         LineOf(a[1], a[2]) = LineOf(b[1], b[2])
  PROVE  a = b
<1>1. /\ a[1] \in Code /\ a[2] \in Code /\ b[1] \in Code /\ b[2] \in Code
      /\ a = <<a[1], a[2]>> /\ b = <<b[1], b[2]>>
  OBVIOUS
<1>2. /\ ReadMnemo(ILMnemo(a[1])) = a[1] /\ ReadMnemo(ILMnemo(a[2])) = a[2]
      /\ ReadMnemo(ILMnemo(b[1])) = b[1] /\ ReadMnemo(ILMnemo(b[2])) = b[2]
  BY <1>1, MnemoRead DEF Shown
<1>3. \A x, y, z : <<x>> # <<y, z>>
  OBVIOUS
<1>4. CASE a[1] = a[2] /\ b[1] = b[2]
  BY <1>1, <1>2, <1>4 DEF LineOf
<1>5. CASE a[1] # a[2] /\ b[1] # b[2]
  BY <1>1, <1>2, <1>5 DEF LineOf
<1> QED BY <1>3, <1>4, <1>5 DEF LineOf

-----------------------------------------------------------------------------
(***************************************************************************)
(* What goes out is a frame of 11 bits.                                    *)
(***************************************************************************)

\* The pointer into the identification stays inside it.
EngineInv ==
  /\ dev \in [Device -> DevRecord]
  /\ \A d \in Device : dev[d].ptsdi \in 0 .. Len(DeviceId[d])

\* What the engine makes of a frame for the printer: the frame itself, or a
\* new one of three kinds.
Answers(f) ==
  \/ frame' = f /\ ~(IsSource(Printer) /\ f.k \in DoeKinds)
  \/ frame'.k \in {"DAB", "ETO", "AAD"} /\ frame'.n \in Byte

LEMMA PrinterIs == Printer \in Device
BY LoopAssumption DEF Printer, Device

LEMMA IdOf ==
  /\ DeviceId[Printer] \in Seq(Byte) /\ Len(DeviceId[Printer]) \in Nat /\ Len(DeviceId[Printer]) >= 2
  /\ \A i \in 1 .. Len(DeviceId[Printer]) :
       DeviceId[Printer][i] \in Byte /\ (DeviceId[Printer][i] = CR <=> i = Len(DeviceId[Printer]))
  /\ Aid[Printer] \in Byte /\ DefAddr[Printer] \in 1 .. 30
BY PrinterIs, DeviceIdAssumption, LoopAssumption

\* One field of the device's record, or several, are set.
LEMMA EngineSet ==
  ASSUME EngineInv, NEW r \in DevRecord, r.ptsdi <= Len(DeviceId[Printer]),
         dev' = [dev EXCEPT ![Printer] = r]
  PROVE  EngineInv'
<1>1. /\ Printer \in Device /\ dev' \in [Device -> DevRecord] /\ dev'[Printer] = r
      /\ \A d \in Device \ {Printer} : dev'[d] = dev[d]
  BY PrinterIs DEF EngineInv
<1>2. r.ptsdi \in 0 .. Len(DeviceId[Printer])
  BY IdOf DEF DevRecord
<1> QED BY <1>1, <1>2 DEF EngineInv

LEMMA EngineOf ==
  ASSUME EngineInv
  PROVE  /\ dev[Printer] \in DevRecord /\ dev[Printer].ptsdi \in 0 .. Len(DeviceId[Printer])
         /\ \A s \in SUBSET Flags : [dev[Printer] EXCEPT !.state = s] \in DevRecord
BY PrinterIs DEF EngineInv, DevRecord

LEMMA EngineEnter ==
  ASSUME EngineInv, NEW f, NEW s \in SUBSET Flags, Enter(Printer, s, f)
  PROVE  EngineInv' /\ frame' = f
<1> DEFINE r == [dev[Printer] EXCEPT !.state = s]
<1>1. r \in DevRecord
  BY EngineOf
<1>2. r.ptsdi = dev[Printer].ptsdi
  BY EngineOf DEF DevRecord
<1>3. dev' = [dev EXCEPT ![Printer] = r] /\ frame' = f
  BY DEF Enter
<1> HIDE DEF r
<1>4. r.ptsdi <= Len(DeviceId[Printer])
  BY <1>2, EngineOf, IdOf
<1> QED BY <1>1, <1>3, <1>4, EngineSet

\* The states the engine enters.
LEMMA StatesAre ==
  /\ Idle \in SUBSET Flags /\ Listener \in SUBSET Flags /\ Talker \in SUBSET Flags
  /\ LastByteOut \in SUBSET Flags /\ Sending \in SUBSET Flags
  /\ Identifying \in SUBSET Flags /\ StatusPending \in SUBSET Flags
BY DEF Flags, Idle, Listener, Talker, LastByteOut, Sending, Identifying, StatusPending

\* A record of which the pointer, the pointer and the state, or the address
\* is set.
LEMMA PointerSet ==
  ASSUME NEW r \in DevRecord, NEW p \in Nat
  PROVE  [r EXCEPT !.ptsdi = p] \in DevRecord /\ [r EXCEPT !.ptsdi = p].ptsdi = p
BY DEF DevRecord

LEMMA StateSet ==
  ASSUME NEW r \in DevRecord, NEW p \in Nat, NEW s \in SUBSET Flags
  PROVE  /\ [r EXCEPT !.ptsdi = p, !.state = s] \in DevRecord
         /\ [r EXCEPT !.ptsdi = p, !.state = s].ptsdi = p
BY DEF DevRecord

LEMMA AddressSet ==
  ASSUME NEW r \in DevRecord, NEW a \in 0 .. 30, NEW b \in BOOLEAN
  PROVE  /\ [r EXCEPT !.adr = a, !.aad = b] \in DevRecord
         /\ [r EXCEPT !.adr = a, !.aad = b].ptsdi = r.ptsdi
BY DEF DevRecord

LEMMA QuietAnswers ==
  ASSUME EngineInv, NEW f, f.n \in Byte, Quiet(Printer, f)
  PROVE  EngineInv' /\ Answers(f)
<1> DEFINE r == dev[Printer]
<1>1. /\ r \in DevRecord /\ r.adr \in 0 .. 30 /\ r.aad \in BOOLEAN /\ r.state \in SUBSET Flags
      /\ r.ptsdi \in Nat /\ r.ptsdi <= Len(DeviceId[Printer])
  BY EngineOf, IdOf DEF DevRecord
<1>2. Dab(0).k = "DAB" /\ Eto.k = "ETO" /\ Eto.n \in Byte
  BY DEF Dab, Eto, F, Byte
<1>14. /\ 0 \in Nat /\ 0 <= Len(DeviceId[Printer])
       /\ 2 \in Nat /\ 2 <= Len(DeviceId[Printer])
  BY IdOf
<1>3. \A b : Dab(b).k = "DAB" /\ Dab(b).n = b
  BY DEF Dab, F
<1>4. CASE NextIdByte(Printer, f)
  <2>1. r.ptsdi \in 1 .. Len(DeviceId[Printer]) /\ r.ptsdi # Len(DeviceId[Printer])
    BY <1>1, <1>4, IdOf DEF NextIdByte
  <2>2. DeviceId[Printer][r.ptsdi] \in Byte
    BY <2>1, IdOf
  <2>3. dev' = [dev EXCEPT ![Printer] = [r EXCEPT !.ptsdi = r.ptsdi + 1]]
    BY <1>4 DEF NextIdByte
  <2>4. r.ptsdi + 1 \in Nat /\ r.ptsdi + 1 <= Len(DeviceId[Printer])
    BY <2>1, IdOf
  <2>5. frame' = Dab(DeviceId[Printer][r.ptsdi])
    BY <1>4 DEF NextIdByte
  <2> HIDE DEF r
  <2>6. /\ [r EXCEPT !.ptsdi = r.ptsdi + 1] \in DevRecord
        /\ [r EXCEPT !.ptsdi = r.ptsdi + 1].ptsdi <= Len(DeviceId[Printer])
    BY <1>1, <2>4, PointerSet
  <2>7. EngineInv'
    BY <2>3, <2>6, EngineSet
  <2> QED BY <1>3, <2>2, <2>5, <2>7 DEF Answers
<1>5. CASE EndOfId(Printer, f)
  <2>1. dev' = [dev EXCEPT ![Printer] = [r EXCEPT !.ptsdi = 0, !.state = Talker]] /\ frame' = Eto
    BY <1>5 DEF EndOfId
  <2> HIDE DEF r
  <2>2. /\ [r EXCEPT !.ptsdi = 0, !.state = Talker] \in DevRecord
        /\ [r EXCEPT !.ptsdi = 0, !.state = Talker].ptsdi <= Len(DeviceId[Printer])
    <3>1. r \in DevRecord /\ 0 \in Nat /\ Talker \in SUBSET Flags
      BY <1>1, <1>14, StatesAre
    <3>2. 0 <= Len(DeviceId[Printer])
      BY <1>14
    <3>3. /\ [r EXCEPT !.ptsdi = 0, !.state = Talker] \in DevRecord
          /\ [r EXCEPT !.ptsdi = 0, !.state = Talker].ptsdi = 0
      BY <3>1, StateSet, Zenon
    <3> QED BY <3>2, <3>3
  <2>3. EngineInv'
    BY <2>1, <2>2, EngineSet
  <2> QED BY <1>2, <2>1, <2>3 DEF Answers
<1>6. CASE SendDone(Printer, f)
  BY <1>2, <1>6, EngineEnter, StatesAre DEF SendDone, Answers
<1>7. CASE Listen(Printer, f) \/ Unlisten(Printer, f) \/ Talk(Printer, f) \/ Untalk(Printer, f)
           \/ InterfaceClear(Printer, f)
  <2>1. f.k \notin DoeKinds
    BY <1>7 DEF Listen, Unlisten, Talk, Untalk, InterfaceClear, DoeKinds
  <2>2. \E s \in SUBSET Flags : Enter(Printer, s, f)
    BY <1>7, StatesAre DEF Listen, Unlisten, Talk, Untalk, InterfaceClear
  <2> QED BY <2>1, <2>2, EngineEnter DEF Answers
<1>8. CASE Unconfigure(Printer, f)
  <2>1. /\ dev' = [dev EXCEPT ![Printer] = [r EXCEPT !.adr = DefAddr[Printer], !.aad = FALSE]]
        /\ frame' = f /\ f.k \notin DoeKinds
    BY <1>8 DEF Unconfigure, DoeKinds
  <2>2. DefAddr[Printer] \in 0 .. 30
    BY IdOf
  <2> HIDE DEF r
  <2>3. /\ [r EXCEPT !.adr = DefAddr[Printer], !.aad = FALSE] \in DevRecord
        /\ [r EXCEPT !.adr = DefAddr[Printer], !.aad = FALSE].ptsdi <= Len(DeviceId[Printer])
    BY <1>1, <2>2, AddressSet
  <2>4. EngineInv'
    BY <2>1, <2>3, EngineSet
  <2> QED BY <2>1, <2>4 DEF Answers
<1>9. CASE NotReady(Printer, f)
  <2>1. /\ dev' = [dev EXCEPT ![Printer] = [r EXCEPT !.ptsdi = 0, !.state = r.state \ {"sda"}]]
        /\ frame' = f /\ f.k \notin DoeKinds
    BY <1>9 DEF NotReady, DoeKinds
  <2>2. r.state \ {"sda"} \in SUBSET Flags
    BY <1>1
  <2> HIDE DEF r
  <2>3. /\ [r EXCEPT !.ptsdi = 0, !.state = r.state \ {"sda"}] \in DevRecord
        /\ [r EXCEPT !.ptsdi = 0, !.state = r.state \ {"sda"}].ptsdi <= Len(DeviceId[Printer])
    <3>1. r \in DevRecord /\ 0 \in Nat /\ r.state \ {"sda"} \in SUBSET Flags
      BY <1>1, <1>14, <2>2
    <3>2. 0 <= Len(DeviceId[Printer])
      BY <1>14
    <3>3. /\ [r EXCEPT !.ptsdi = 0, !.state = r.state \ {"sda"}] \in DevRecord
          /\ [r EXCEPT !.ptsdi = 0, !.state = r.state \ {"sda"}].ptsdi = 0
      BY <3>1, StateSet, Zenon
    <3> QED BY <3>2, <3>3
  <2>4. EngineInv'
    BY <2>1, <2>3, EngineSet
  <2> QED BY <2>1, <2>4 DEF Answers
<1>10. CASE Identify(Printer, f)
  <2>1. /\ dev' = [dev EXCEPT ![Printer] = [r EXCEPT !.ptsdi = 2, !.state = Identifying]]
        /\ frame' = Dab(DeviceId[Printer][1])
    BY <1>10 DEF Identify
  <2>2. DeviceId[Printer][1] \in Byte
    BY IdOf
  <2> HIDE DEF r
  <2> DEFINE p == 2
  <2> HIDE DEF p
  <2>3. /\ [r EXCEPT !.ptsdi = p, !.state = Identifying] \in DevRecord
        /\ [r EXCEPT !.ptsdi = p, !.state = Identifying].ptsdi <= Len(DeviceId[Printer])
    <3>1. r \in DevRecord /\ p \in Nat /\ Identifying \in SUBSET Flags /\ p <= Len(DeviceId[Printer])
      BY <1>1, <1>14, StatesAre DEF p
    <3>2. /\ [r EXCEPT !.ptsdi = p, !.state = Identifying] \in DevRecord
          /\ [r EXCEPT !.ptsdi = p, !.state = Identifying].ptsdi = p
      BY <3>1, StateSet, Zenon
    <3> QED BY <3>1, <3>2
  <2>4. EngineInv'
    BY <2>1, <2>3, EngineSet DEF p
  <2> QED BY <1>3, <2>1, <2>2, <2>4 DEF Answers
<1>11. CASE SendAid(Printer, f)
  BY <1>3, <1>11, EngineEnter, StatesAre, IdOf DEF SendAid, Answers
<1>12. CASE TakeAddress(Printer, f)
  <2>1. /\ dev' = [dev EXCEPT ![Printer] = [r EXCEPT !.adr = f.n, !.aad = TRUE]]
        /\ frame' = F("AAD", f.n + 1) /\ f.n < 30
    BY <1>12 DEF TakeAddress
  <2>2. f.n \in 0 .. 30 /\ f.n + 1 \in Byte
    BY <2>1 DEF Byte
  <2> HIDE DEF r
  <2>3. /\ [r EXCEPT !.adr = f.n, !.aad = TRUE] \in DevRecord
        /\ [r EXCEPT !.adr = f.n, !.aad = TRUE].ptsdi <= Len(DeviceId[Printer])
    BY <1>1, <2>2, AddressSet
  <2>4. EngineInv'
    BY <2>1, <2>3, EngineSet
  <2>5. frame'.k = "AAD" /\ frame'.n = f.n + 1
    BY <2>1 DEF F
  <2> QED BY <2>2, <2>4, <2>5 DEF Answers
<1>13. CASE Ignore(Printer, f)
  <2>1. frame' = f /\ dev' = dev
    BY <1>13 DEF Ignore, Pass
  <2>2. ~(IsSource(Printer) /\ f.k \in DoeKinds)
    BY <1>13 DEF Ignore, IsSource, DoeKinds
  <2> QED BY <2>1, <2>2 DEF EngineInv, Answers
<1> QED BY <1>4, <1>5, <1>6, <1>7, <1>8, <1>9, <1>10, <1>11, <1>12, <1>13 DEF Quiet

\* ILprint
LEMMA PrinterAnswers ==
  ASSUME EngineInv, NEW f, f.n \in Byte, ILprint(f)
  PROVE  EngineInv' /\ Answers(f)
<1>1. Eto.k = "ETO" /\ Eto.n \in Byte /\ Dab(0).k = "DAB" /\ Dab(0).n \in Byte
  BY DEF Dab, Eto, F, Byte
<1>2. CASE Quiet(Printer, f)
  BY <1>2, QuietAnswers
<1>3. CASE Poll(Printer, f, FALSE)
  <2>1. frame' = f /\ dev' = dev /\ f.k \notin DoeKinds
    BY <1>3 DEF Poll, Pass, DoeKinds
  <2> QED BY <2>1 DEF EngineInv, Answers
<1>4. CASE Hear(Printer, f)
  <2>1. frame' = f /\ dev' = dev /\ ~IsSource(Printer)
    BY <1>4 DEF Hear, Pass, IsListener, IsSource
  <2> QED BY <2>1 DEF EngineInv, Answers
<1>5. CASE Send(Printer, f, NoByte)
  <2>1. Enter(Printer, Talker, Eto)
    BY <1>5 DEF Send, SendFirst, SendNext
  <2> QED BY <1>1, <2>1, EngineEnter, StatesAre DEF Answers
<1>6. CASE Status(Printer, f, 0)
  <2>1. \E s \in SUBSET Flags : Enter(Printer, s, Dab(0))
    BY <1>6, StatesAre DEF Status
  <2> QED BY <1>1, <2>1, EngineEnter DEF Answers
<1>7. CASE Clear(Printer, f) \/ Command(Printer, f)
  <2>1. frame' = f /\ dev' = dev /\ f.k \notin DoeKinds
    BY <1>7 DEF Clear, Command, Pass, DoeKinds
  <2> QED BY <2>1 DEF EngineInv, Answers
<1> QED BY <1>2, <1>3, <1>4, <1>5, <1>6, <1>7 DEF ILprint

LEMMA OutIsCode ==
  ASSUME EngineInv, NEW code \in Code, ILprint(FrameOf(code))
  PROVE  EngineInv' /\ Out(code) \in Code
<1>1. EngineInv' /\ Answers(FrameOf(code))
  BY FrameByte, PrinterAnswers DEF Code
<1>2. CASE frame' = FrameOf(code) /\ ~Made(FrameOf(code))
  BY <1>1, <1>2 DEF Out
<1>3. CASE ~(frame' = FrameOf(code) /\ ~Made(FrameOf(code)))
  <2>1. Out(code) = CodeOf(frame')
    BY <1>3 DEF Out
  <2>2. frame'.k \in {"DAB", "ETO", "AAD"} /\ frame'.n \in Byte
    BY <1>1, <1>3 DEF Answers, Made
  <2>3. CodeOf(frame') \in Code
    BY <2>2 DEF CodeOf, Code, Byte
  <2> QED BY <1>1, <2>1, <2>3
<1> QED BY <1>2, <1>3

\* init_hpil
LEMMA EngineStart ==
  /\ dev = [d \in Device |-> PowerOn(d)] => EngineInv
  /\ dev' = [d \in Device |-> PowerOn(d)] => EngineInv'
<1>1. ASSUME NEW d \in Device
      PROVE  PowerOn(d) \in DevRecord /\ PowerOn(d).ptsdi = 0 /\ Len(DeviceId[d]) \in Nat
  BY LoopAssumption, DeviceIdAssumption DEF PowerOn, DevRecord, Idle
<1> QED BY <1>1 DEF EngineInv

CodesInv == EngineInv /\ passed \in Seq(Code \X Code)

LEMMA CodesStep ==
  ASSUME CodesInv, [Next]_vars
  PROVE  CodesInv'
<1>1. ASSUME NEW code \in Codes, Transmit(code) PROVE CodesInv'
  <2>1. code \in Code
    BY OutputsAssumption DEF Code
  <2>2. EngineInv' /\ Out(code) \in Code
    BY <1>1, <2>1, OutIsCode DEF CodesInv, Transmit
  <2>3. passed' = Append(passed, <<code, Out(code)>>)
    BY <1>1 DEF Transmit
  <2> QED BY <2>1, <2>2, <2>3 DEF CodesInv
<1>2. CASE Start
  BY <1>2, EngineStart DEF Start, CodesInv
<1>3. CASE Quit \/ Crash \/ UNCHANGED vars
  <2>1. dev' = dev /\ passed' = passed
    BY <1>3 DEF Quit, Crash, vars
  <2> QED BY <2>1 DEF CodesInv, EngineInv
<1> QED BY <1>1, <1>2, <1>3 DEF Next

\* A line of the log tells the frames, whatever comes in: lines are equal
\* only if the frames are (scope.c:85-97, :289).
THEOREM LinesTellFrames == Spec => []Legible
<1>1. Init => CodesInv
  <2> SUFFICES ASSUME Init PROVE CodesInv
    OBVIOUS
  <2>1. EngineInv
    BY EngineStart DEF Init
  <2> QED BY <2>1 DEF Init, CodesInv
<1>2. CodesInv => Legible
  <2> SUFFICES ASSUME CodesInv, NEW i \in DOMAIN passed, NEW j \in DOMAIN passed,
                      Shown(passed[i]), Shown(passed[j]),
                      LineOf(passed[i][1], passed[i][2]) = LineOf(passed[j][1], passed[j][2])
               PROVE  passed[i] = passed[j]
    BY DEF Legible
  <2>1. passed[i] \in Code \X Code /\ passed[j] \in Code \X Code
    BY DEF CodesInv
  <2> QED BY <2>1, LineTells
<1> QED BY <1>1, <1>2, CodesStep, PTL DEF Spec

=============================================================================
