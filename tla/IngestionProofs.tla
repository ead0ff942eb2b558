-------------------------- MODULE IngestionProofs ---------------------------
(***************************************************************************)
(* Ingestion of one transcript by any number of overlapping processes that *)
(* may be killed at any point, of a file that grows and is started over    *)
(* only while nobody has it open: a stored checkpoint covers no call that  *)
(* was not handed to the store, and carries exactly the calls its prefix   *)
(* leaves open.  While the processes take turns, none dies and the file    *)
(* only grows, it also only advances, and a deleted event stays away.      *)
(*                                                                         *)
(* All of it rests on what the parser computes, by induction over lines:   *)
(* parsing a prefix and then the rest from the calls it left open is the   *)
(* same as parsing the whole (ParseSplit).                                 *)
(***************************************************************************)
EXTENDS QuietIngestion, FiniteSetTheorems, SequenceTheorems, TLAPS

-----------------------------------------------------------------------------
(* Induction up to a bound, on a set instead of a predicate.               *)
LEMMA UpTo ==
  ASSUME NEW m \in Nat, NEW S, 0 \in S, \A i \in 0..(m - 1) : i \in S => i + 1 \in S
  PROVE  0..m \subseteq S
<1> DEFINE T == {i \in Nat : i <= m /\ i \notin S}
<1> SUFFICES ASSUME T # {}
             PROVE  FALSE
  OBVIOUS
<1>1. IsWellFoundedOn(OpToRel(<, Nat), Nat)
  BY NatLessThanWellFounded
<1>2. PICK k \in T : \A j \in T : ~(<<j, k>> \in OpToRel(<, Nat))
  BY <1>1, WFMin
<1>3. k \in Nat /\ k # 0 /\ k <= m /\ k \notin S
  OBVIOUS
<1>4. k - 1 \in Nat /\ k - 1 <= m /\ k - 1 \in 0..(m - 1)
  BY <1>3
<1>5. <<k - 1, k>> \in OpToRel(<, Nat)
  BY <1>3, <1>4 DEF OpToRel
<1>6. k - 1 \in S
  BY <1>2, <1>4, <1>5
<1> QED
  BY <1>3, <1>4, <1>6

-----------------------------------------------------------------------------
(* Parsing. *)

(* A function that follows the parser through its lines.                   *)
Follows(f, p, lines, m) ==
  f = [n \in 0..m |-> IF n = 0 THEN [pending |-> p, done |-> {}]
                               ELSE ParseLine(f[n - 1], lines[n])]

LEMMA RunExists ==
  ASSUME NEW p, NEW lines, NEW m \in Nat
  PROVE  \E f : Follows(f, p, lines, m)
<1> DEFINE S == {k \in 0..m : \E f : Follows(f, p, lines, k)}
<1>1. 0 \in S
  <2> DEFINE f == [n \in 0..0 |-> [pending |-> p, done |-> {}]]
  <2>1. Follows(f, p, lines, 0)
    BY DEF Follows
  <2> QED
    BY <2>1
<1>2. ASSUME NEW i \in 0..(m - 1), i \in S
      PROVE  i + 1 \in S
  <2>1. PICK f : Follows(f, p, lines, i)
    BY <1>2
  <2> DEFINE g == [n \in 0..(i + 1) |-> IF n = i + 1 THEN ParseLine(f[i], lines[i + 1]) ELSE f[n]]
  <2>2. ASSUME NEW n \in 0..(i + 1)
        PROVE  g[n] = IF n = 0 THEN [pending |-> p, done |-> {}] ELSE ParseLine(g[n - 1], lines[n])
    <3>1. \A k \in 0..i : f[k] = IF k = 0 THEN [pending |-> p, done |-> {}]
                                          ELSE ParseLine(f[k - 1], lines[k])
      BY <2>1 DEF Follows
    <3>2. CASE n = i + 1
      BY <3>2
    <3>3. CASE n # i + 1
      BY <3>1, <3>3
    <3> QED
      BY <3>2, <3>3
  <2>3. g = [n \in 0..(i + 1) |-> IF n = 0 THEN [pending |-> p, done |-> {}]
                                           ELSE ParseLine(g[n - 1], lines[n])]
    BY <2>2
  <2>4. Follows(g, p, lines, i + 1)
    BY <2>3 DEF Follows
  <2> QED
    BY <2>4
<1> HIDE DEF S
<1>3. 0..m \subseteq S
  BY <1>1, <1>2, UpTo
<1> QED
  BY <1>3 DEF S

LEMMA RunOfParse ==
  ASSUME NEW p, NEW lines, Len(lines) \in Nat
  PROVE  \E f : Follows(f, p, lines, Len(lines)) /\ Parse(p, lines) = f[Len(lines)]
<1>1. \E f : Follows(f, p, lines, Len(lines))
  BY RunExists
<1> QED
  BY <1>1 DEF Parse, Follows
(* What one line does to the open and the completed calls.                  *)
NextPending(p, l) ==
  IF l.kind = "call" THEN p \cup {l.call} ELSE IF l.kind = "output" THEN p \ {l.call} ELSE p
NextDone(p, d, l) == IF l.kind = "output" /\ l.call \in p THEN d \cup {l.call} ELSE d

LEMMA ParseLineForm ==
  ASSUME NEW st, st = [pending |-> st.pending, done |-> st.done], NEW l \in Lines
  PROVE  ParseLine(st, l) = [pending |-> NextPending(st.pending, l),
                             done |-> NextDone(st.pending, st.done, l)]
<1> USE DEF NextPending, NextDone
<1> PICK p, d : st = [pending |-> p, done |-> d]
  OBVIOUS
<1>1. CASE \E e \in EventIds : l = CallLine(e)
  BY <1>1 DEF ParseLine, CallLine
<1>2. CASE \E e \in EventIds : l = OutputLine(e)
  BY <1>2 DEF ParseLine, OutputLine
<1>3. CASE l = Torn
  BY <1>3 DEF ParseLine, Torn
<1> QED
  BY <1>1, <1>2, <1>3 DEF Lines

LEMMA LineCall ==
  ASSUME NEW l \in Lines
  PROVE  l.kind \in {"call", "output"} => l.call \in EventIds
BY DEF Lines, CallLine, OutputLine, Torn

States == [pending : SUBSET EventIds, done : SUBSET EventIds]

LEMMA ParseLineType ==
  ASSUME NEW st \in States, NEW l \in Lines
  PROVE  ParseLine(st, l) \in States
<1>1. st = [pending |-> st.pending, done |-> st.done]
  BY DEF States
<1>2. ParseLine(st, l) = [pending |-> NextPending(st.pending, l),
                          done |-> NextDone(st.pending, st.done, l)]
  BY <1>1, ParseLineForm
<1>3. st.pending \in SUBSET EventIds /\ st.done \in SUBSET EventIds
  BY DEF States
<1>4. NextPending(st.pending, l) \in SUBSET EventIds
      /\ NextDone(st.pending, st.done, l) \in SUBSET EventIds
  BY <1>3, LineCall DEF NextPending, NextDone
<1> QED
  BY <1>2, <1>4 DEF States

LEMMA RunType ==
  ASSUME NEW p \in SUBSET EventIds, NEW lines \in Seq(Lines), NEW m \in 0..Len(lines),
         NEW f, Follows(f, p, lines, m)
  PROVE  \A n \in 0..m : f[n] \in States
<1> DEFINE S == {n \in 0..m : f[n] \in States}
<1>1. \A n \in 0..m : f[n] = IF n = 0 THEN [pending |-> p, done |-> {}]
                                     ELSE ParseLine(f[n - 1], lines[n])
  BY DEF Follows
<1>2. 0 \in S
  BY <1>1 DEF States
<1>3. ASSUME NEW i \in 0..(m - 1), i \in S
      PROVE  i + 1 \in S
  <2>1. i + 1 \in 0..m /\ lines[i + 1] \in Lines /\ f[i + 1] = ParseLine(f[i], lines[i + 1])
    BY <1>1
  <2> QED
    BY <1>3, <2>1, ParseLineType
<1> HIDE DEF S
<1>4. m \in Nat
  OBVIOUS
<1>5. 0..m \subseteq S
  BY <1>2, <1>3, <1>4, UpTo
<1> QED
  BY <1>5 DEF S

(* Two readers of the same lines are in the same state.                    *)
LEMMA RunUnique ==
  ASSUME NEW p, NEW a, NEW b, NEW m \in Nat, NEW k \in Nat, NEW j \in Nat, m <= k, m <= j,
         \A n \in 1..m : a[n] = b[n],
         NEW f, Follows(f, p, a, k), NEW g, Follows(g, p, b, j)
  PROVE  f[m] = g[m]
<1> DEFINE S == {n \in 0..m : f[n] = g[n]}
<1>0. 0..m \subseteq 0..k /\ 0..m \subseteq 0..j
  OBVIOUS
<1>1. \A n \in 0..k : f[n] = IF n = 0 THEN [pending |-> p, done |-> {}]
                                     ELSE ParseLine(f[n - 1], a[n])
  BY DEF Follows
<1>2. \A n \in 0..j : g[n] = IF n = 0 THEN [pending |-> p, done |-> {}]
                                     ELSE ParseLine(g[n - 1], b[n])
  BY DEF Follows
<1>3. 0 \in S
  BY <1>0, <1>1, <1>2
<1>4. ASSUME NEW i \in 0..(m - 1), i \in S
      PROVE  i + 1 \in S
  <2>1. i + 1 \in 0..m /\ i + 1 \in 1..m /\ i + 1 # 0 /\ (i + 1) - 1 = i
    OBVIOUS
  <2> QED
    BY <1>0, <1>1, <1>2, <1>4, <2>1
<1> HIDE DEF S
<1>5. 0..m \subseteq S
  BY <1>3, <1>4, UpTo
<1> QED
  BY <1>5 DEF S

LEMMA ParseType ==
  ASSUME NEW p \in SUBSET EventIds, NEW lines \in Seq(Lines)
  PROVE  Parse(p, lines) \in States
<1>1. Len(lines) \in Nat /\ Len(lines) \in 0..Len(lines)
  OBVIOUS
<1>2. PICK f : Follows(f, p, lines, Len(lines)) /\ Parse(p, lines) = f[Len(lines)]
  BY <1>1, RunOfParse
<1> QED
  BY <1>1, <1>2, RunType

LEMMA ParseEmpty ==
  ASSUME NEW p
  PROVE  Parse(p, <<>>) = [pending |-> p, done |-> {}]
<1>1. Len(<<>>) = 0
  OBVIOUS
<1>2. PICK f : Follows(f, p, <<>>, 0) /\ Parse(p, <<>>) = f[0]
  BY <1>1, RunOfParse
<1> QED
  BY <1>2 DEF Follows

LEMMA ParseAppend ==
  ASSUME NEW p, NEW lines \in Seq(Lines), NEW l \in Lines
  PROVE  Parse(p, Append(lines, l)) = ParseLine(Parse(p, lines), l)
<1> DEFINE more == Append(lines, l)
           m == Len(lines)
<1>1. /\ m \in Nat /\ Len(more) = m + 1 /\ more[m + 1] = l
      /\ \A n \in 1..m : lines[n] = more[n]
  OBVIOUS
<1> HIDE DEF more, m
<1>2. PICK f : Follows(f, p, lines, m) /\ Parse(p, lines) = f[m]
  BY <1>1, RunOfParse DEF m
<1>3. PICK g : Follows(g, p, more, m + 1) /\ Parse(p, more) = g[m + 1]
  <2>1. Len(more) \in Nat
    BY <1>1
  <2> QED
    BY <1>1, <2>1, RunOfParse
<1>4. f[m] = g[m]
  <2>1. m + 1 \in Nat /\ m <= m /\ m <= m + 1
    BY <1>1
  <2>2. \A n \in 1..m : lines[n] = more[n]
    BY <1>1
  <2>3. Follows(f, p, lines, m) /\ Follows(g, p, more, m + 1) /\ m \in Nat
    BY <1>1, <1>2, <1>3
  <2> QED
    BY <2>1, <2>2, <2>3, RunUnique
<1>5. g[m + 1] = ParseLine(g[m], more[m + 1])
  <2>1. m + 1 \in 0..(m + 1) /\ m + 1 # 0 /\ (m + 1) - 1 = m
    BY <1>1
  <2>2. \A n \in 0..(m + 1) : g[n] = IF n = 0 THEN [pending |-> p, done |-> {}]
                                              ELSE ParseLine(g[n - 1], more[n])
    BY <1>3 DEF Follows
  <2> QED
    BY <2>1, <2>2
<1> QED
  BY <1>1, <1>2, <1>3, <1>4, <1>5 DEF more
LEMMA NothingDone == \A p : Parse(p, <<>>).pending = p /\ Parse(p, <<>>).done = {}
<1> TAKE p
<1>1. Parse(p, <<>>) = [pending |-> p, done |-> {}]
  BY ParseEmpty
<1> QED
  BY <1>1

LEMMA NothingCovered == Open(<<>>) = {} /\ Completed(<<>>) = {} /\ Readable(<<>>)
BY NothingDone DEF Open, Completed, Readable

-----------------------------------------------------------------------------
(* Slices of a transcript. *)

LEMMA SliceType ==
  ASSUME NEW lines \in Seq(Lines), NEW i \in Nat \ {0}, NEW m \in 0..Len(lines), i <= m + 1
  PROVE  SubSeq(lines, i, m) \in Seq(Lines) /\ Len(SubSeq(lines, i, m)) = (m + 1) - i
OBVIOUS

LEMMA SliceEmpty ==
  ASSUME NEW lines \in Seq(Lines), NEW n \in 0..Len(lines)
  PROVE  SubSeq(lines, n + 1, n) = <<>>
<1>1. Len(SubSeq(lines, n + 1, n)) = 0 /\ SubSeq(lines, n + 1, n) \in Seq(Lines)
  BY SliceType
<1> QED
  BY <1>1

LEMMA SliceExtends ==
  ASSUME NEW lines \in Seq(Lines), NEW i \in Nat \ {0}, NEW m \in 0..(Len(lines) - 1), i <= m + 1
  PROVE  SubSeq(lines, i, m + 1) = Append(SubSeq(lines, i, m), lines[m + 1])
<1> DEFINE a == SubSeq(lines, i, m + 1)
           b == SubSeq(lines, i, m)
           c == Append(b, lines[m + 1])
<1>1. m + 1 \in 0..Len(lines) /\ m \in 0..Len(lines) /\ lines[m + 1] \in Lines
  OBVIOUS
<1>2. a \in Seq(Lines) /\ Len(a) = (m + 2) - i
  BY <1>1
<1>3. b \in Seq(Lines) /\ Len(b) = (m + 1) - i
  BY <1>1
<1>4. c \in Seq(Lines) /\ Len(c) = (m + 2) - i
  BY <1>1, <1>3
<1>5. ASSUME NEW k \in 1..((m + 2) - i)
      PROVE  a[k] = c[k]
  <2>1. a[k] = lines[(i + k) - 1]
    BY <1>1
  <2>2. CASE k = (m + 2) - i
    BY <1>3, <2>1, <2>2
  <2>3. CASE k # (m + 2) - i
    <3>1. k \in 1..((m + 1) - i)
      BY <2>3
    <3>2. c[k] = b[k] /\ b[k] = lines[(i + k) - 1]
      BY <1>1, <1>3, <3>1
    <3> QED
      BY <2>1, <3>2
  <2> QED
    BY <2>2, <2>3
<1> HIDE DEF a, b, c
<1>6. a = c
  BY <1>2, <1>4, <1>5, SeqEqual
<1> QED
  BY <1>6 DEF a, b, c

LEMMA SliceKept ==
  ASSUME NEW lines \in Seq(Lines), NEW l \in Lines,
         NEW i \in Nat \ {0}, NEW m \in 0..Len(lines), i <= m + 1
  PROVE  SubSeq(Append(lines, l), i, m) = SubSeq(lines, i, m)
<1> DEFINE more == Append(lines, l)
           a == SubSeq(more, i, m)
           b == SubSeq(lines, i, m)
<1>1. more \in Seq(Lines) /\ Len(more) = Len(lines) + 1 /\ \A k \in 1..Len(lines) : more[k] = lines[k]
  OBVIOUS
<1> HIDE DEF more
<1>2. a \in Seq(Lines) /\ Len(a) = (m + 1) - i
  BY <1>1
<1>3. b \in Seq(Lines) /\ Len(b) = (m + 1) - i
  BY <1>1
<1>4. ASSUME NEW k \in 1..((m + 1) - i)
      PROVE  a[k] = b[k]
  BY <1>1
<1> HIDE DEF a, b
<1>5. a = b
  BY <1>2, <1>3, <1>4, SeqEqual
<1> QED
  BY <1>5 DEF a, b, more

LEMMA SliceWhole ==
  ASSUME NEW lines \in Seq(Lines)
  PROVE  SubSeq(lines, 1, Len(lines)) = lines
BY SubSeqFull

LEMMA SliceOfPrefix ==
  ASSUME NEW lines \in Seq(Lines), NEW m \in 0..Len(lines), NEW i \in Nat \ {0},
         NEW n \in 0..m, i <= n + 1
  PROVE  SubSeq(SubSeq(lines, 1, m), i, n) = SubSeq(lines, i, n)
<1> DEFINE front == SubSeq(lines, 1, m)
           a == SubSeq(front, i, n)
           b == SubSeq(lines, i, n)
<1>1. front \in Seq(Lines) /\ Len(front) = m /\ \A k \in 1..m : front[k] = lines[k]
  OBVIOUS
<1> HIDE DEF front
<1>2. a \in Seq(Lines) /\ Len(a) = (n + 1) - i
  BY <1>1
<1>3. b \in Seq(Lines) /\ Len(b) = (n + 1) - i
  OBVIOUS
<1>4. ASSUME NEW k \in 1..((n + 1) - i)
      PROVE  a[k] = b[k]
  BY <1>1
<1> HIDE DEF a, b
<1>5. a = b
  BY <1>2, <1>3, <1>4, SeqEqual
<1> QED
  BY <1>5 DEF a, b, front

(* Parsing a prefix, then the rest from the calls it left open, is parsing  *)
(* the whole.                                                              *)
LEMMA ParseSplit ==
  ASSUME NEW p \in SUBSET EventIds, NEW lines \in Seq(Lines), NEW n \in 0..Len(lines)
  PROVE  LET first == Parse(p, SubSeq(lines, 1, n))
             rest == Parse(first.pending, SubSeq(lines, n + 1, Len(lines))) IN
           /\ Parse(p, lines).pending = rest.pending
           /\ Parse(p, lines).done = first.done \cup rest.done
<1> DEFINE first == Parse(p, SubSeq(lines, 1, n))
           whole(m) == Parse(p, SubSeq(lines, 1, n + m))
           rest(m) == Parse(first.pending, SubSeq(lines, n + 1, n + m))
           S == {m \in 0..(Len(lines) - n) : /\ whole(m).pending = rest(m).pending
                                             /\ whole(m).done = first.done \cup rest(m).done}
           last == Len(lines) - n
<1>0. last \in Nat /\ Len(lines) \in Nat /\ n \in Nat /\ n + last = Len(lines)
  OBVIOUS
<1>1. first \in States
  <2>1. SubSeq(lines, 1, n) \in Seq(Lines)
    BY <1>0
  <2> QED
    BY <2>1, ParseType
<1>a. whole(0) = first
  BY <1>0
<1> HIDE DEF first
<1>2. 0 \in S
  <2>1. SubSeq(lines, n + 1, n + 0) = <<>>
    BY SliceEmpty
  <2>2. whole(0) = first /\ rest(0) = [pending |-> first.pending, done |-> {}]
    BY <1>a, <2>1, ParseEmpty
  <2> HIDE DEF whole, rest
  <2> QED
    BY <1>0, <2>2
<1>3. ASSUME NEW i \in 0..(last - 1), i \in S
      PROVE  i + 1 \in S
  <2> DEFINE l == lines[n + i + 1]
             a == SubSeq(lines, 1, n + i)
             b == SubSeq(lines, n + 1, n + i)
  <2>1. n + i \in 0..(Len(lines) - 1) /\ l \in Lines /\ 1 <= (n + i) + 1 /\ n + 1 <= (n + i) + 1
    BY <1>0
  <2>2. a \in Seq(Lines) /\ b \in Seq(Lines)
    BY <2>1
  <2>3. SubSeq(lines, 1, (n + i) + 1) = Append(a, l) /\ SubSeq(lines, n + 1, (n + i) + 1) = Append(b, l)
    BY <2>1, SliceExtends
  <2>4. n + (i + 1) = (n + i) + 1
    OBVIOUS
  <2> HIDE DEF a, b, l
  <2>5. whole(i + 1) = ParseLine(Parse(p, a), l) /\ rest(i + 1) = ParseLine(Parse(first.pending, b), l)
    <3>1. whole(i + 1) = Parse(p, Append(a, l)) /\ rest(i + 1) = Parse(first.pending, Append(b, l))
      BY <2>3, <2>4
    <3> QED
      BY <2>1, <2>2, <3>1, ParseAppend
  <2>6. Parse(p, a) \in States /\ Parse(first.pending, b) \in States
    <3>1. first.pending \in SUBSET EventIds
      BY <1>1 DEF States
    <3> QED
      BY <2>2, <3>1, ParseType
  <2> PICK st, tl : st = Parse(p, a) /\ tl = Parse(first.pending, b)
    OBVIOUS
  <2>7. /\ whole(i + 1) = [pending |-> NextPending(st.pending, l), done |-> NextDone(st.pending, st.done, l)]
        /\ rest(i + 1) = [pending |-> NextPending(tl.pending, l), done |-> NextDone(tl.pending, tl.done, l)]
    <3>1. st = [pending |-> st.pending, done |-> st.done] /\ tl = [pending |-> tl.pending, done |-> tl.done]
      BY <2>6 DEF States
    <3> QED
      BY <2>1, <2>5, <3>1, ParseLineForm
  <2>8. st.pending = tl.pending /\ st.done = first.done \cup tl.done
    BY <1>3 DEF a, b
  <2>9. i + 1 \in 0..last
    BY <1>0
  <2> HIDE DEF whole, rest, last
  <2>10. /\ whole(i + 1).pending = rest(i + 1).pending
         /\ whole(i + 1).done = first.done \cup rest(i + 1).done
    BY <2>7, <2>8 DEF NextDone
  <2> QED
    BY <2>9, <2>10 DEF last
<1> HIDE DEF S
<1>4. 0..last \subseteq S
  <2> HIDE DEF last
  <2> QED
    BY <1>0, <1>2, <1>3, UpTo
<1>5. last \in S
  BY <1>0, <1>4
<1>6. whole(last) = Parse(p, lines) /\ rest(last) = Parse(first.pending, SubSeq(lines, n + 1, Len(lines)))
  BY <1>0, SliceWhole
<1> QED
  BY <1>5, <1>6 DEF S, first
-----------------------------------------------------------------------------
(* The calls a transcript completes: those with an output after the call.   *)
Paired(lines, m) ==
  {e \in EventIds : \E j \in 1..m : /\ lines[j] = OutputLine(e)
                                    /\ \E i \in 1..(j - 1) : lines[i] = CallLine(e)}

(* The calls it leaves open: those with no output after the call.          *)
Unpaired(lines, m) ==
  {e \in EventIds : \E i \in 1..m : /\ lines[i] = CallLine(e)
                                    /\ \A j \in (i + 1)..m : lines[j] # OutputLine(e)}

(* Line by line, the parser (codex_incremental.rs) finds exactly the calls  *)
(* that have an output after them, and keeps open exactly those that have   *)
(* none after the last time they were made: for any transcript, whatever    *)
(* lines it repeats or leaves out.                                          *)
THEOREM ParsePairs ==
  \A lines \in Seq(Lines) : /\ Completed(lines) = Paired(lines, Len(lines))
                            /\ Open(lines) = Unpaired(lines, Len(lines))
<1> TAKE lines \in Seq(Lines)
<1> DEFINE run(m) == Parse({}, SubSeq(lines, 1, m))
           S == {m \in 0..Len(lines) : /\ run(m).done = Paired(lines, m)
                                       /\ run(m).pending = Unpaired(lines, m)}
<1>0. Len(lines) \in Nat
  OBVIOUS
<1>1. 0 \in S
  <2>1. SubSeq(lines, 1, 0) = <<>>
    BY SliceEmpty
  <2>2. run(0).pending = {} /\ run(0).done = {}
    BY <2>1, NothingCovered DEF Open, Completed
  <2>3. Paired(lines, 0) = {} /\ Unpaired(lines, 0) = {}
    BY DEF Paired, Unpaired
  <2>4. 0 \in 0..Len(lines)
    BY <1>0
  <2> HIDE DEF run
  <2> QED
    BY <2>2, <2>3, <2>4
<1>2. ASSUME NEW i \in 0..(Len(lines) - 1), i \in S
      PROVE  i + 1 \in S
  <2> DEFINE l == lines[i + 1]
             before == SubSeq(lines, 1, i)
  <2>1. i + 1 \in 0..Len(lines) /\ i \in Nat /\ l \in Lines /\ before \in Seq(Lines)
        /\ SubSeq(lines, 1, i + 1) = Append(before, l)
    BY <1>0, SliceExtends, SliceType
  <2>2. run(i).done = Paired(lines, i) /\ run(i).pending = Unpaired(lines, i)
    BY <1>2
  <2>3. run(i) \in States /\ run(i) = Parse({}, before)
    BY <2>1, ParseType
  <2>4. run(i + 1) = ParseLine(run(i), l)
    <3> HIDE DEF before, l
    <3> QED
      BY <2>1, <2>3, ParseAppend
  <2> HIDE DEF run
  <2>5. run(i + 1) = [pending |-> NextPending(Unpaired(lines, i), l),
                      done |-> NextDone(Unpaired(lines, i), Paired(lines, i), l)]
    BY <2>1, <2>2, <2>3, <2>4, ParseLineForm DEF States
  <2>6. ASSUME NEW e \in EventIds
        PROVE  /\ e \in Unpaired(lines, i + 1)
                    <=> l = CallLine(e) \/ (e \in Unpaired(lines, i) /\ l # OutputLine(e))
               /\ e \in Paired(lines, i + 1)
                    <=> e \in Paired(lines, i)
                        \/ (l = OutputLine(e) /\ \E k \in 1..i : lines[k] = CallLine(e))
    BY <2>1 DEF Paired, Unpaired
  <2>7. ASSUME NEW e \in EventIds, \E k \in 1..i : lines[k] = CallLine(e)
        PROVE  e \in Unpaired(lines, i) \/ e \in Paired(lines, i)
    BY <2>1, <2>7 DEF Paired, Unpaired
  <2>8. ASSUME NEW e \in EventIds
        PROVE  /\ l = CallLine(e) <=> l.kind = "call" /\ l.call = e
               /\ l = OutputLine(e) <=> l.kind = "output" /\ l.call = e
    BY <2>1 DEF Lines, CallLine, OutputLine, Torn
  <2>9. ASSUME NEW e \in Unpaired(lines, i)
        PROVE  e \in EventIds /\ \E k \in 1..i : lines[k] = CallLine(e)
    BY DEF Unpaired
  <2>10. /\ Paired(lines, i) \subseteq EventIds /\ Paired(lines, i + 1) \subseteq EventIds
         /\ Unpaired(lines, i) \subseteq EventIds /\ Unpaired(lines, i + 1) \subseteq EventIds
    BY DEF Paired, Unpaired
  <2>11. l.kind \in {"call", "output"} => l.call \in EventIds
    BY <2>1, LineCall
  <2> HIDE DEF l
  <2>12. NextPending(Unpaired(lines, i), l) = Unpaired(lines, i + 1)
    <3>1. ASSUME NEW e \in EventIds
          PROVE  e \in NextPending(Unpaired(lines, i), l) <=> e \in Unpaired(lines, i + 1)
      BY <2>6, <2>8 DEF NextPending
    <3>2. NextPending(Unpaired(lines, i), l) \subseteq EventIds
      BY <2>10, <2>11 DEF NextPending
    <3> QED
      BY <2>10, <3>1, <3>2
  <2>13. NextDone(Unpaired(lines, i), Paired(lines, i), l) = Paired(lines, i + 1)
    <3>1. ASSUME NEW e \in EventIds
          PROVE  e \in NextDone(Unpaired(lines, i), Paired(lines, i), l) <=> e \in Paired(lines, i + 1)
      BY <2>6, <2>7, <2>8, <2>9 DEF NextDone
    <3>2. NextDone(Unpaired(lines, i), Paired(lines, i), l) \subseteq EventIds
      BY <2>10, <2>11 DEF NextDone
    <3> QED
      BY <2>10, <3>1, <3>2
  <2> QED
    BY <2>1, <2>5, <2>12, <2>13
<1> HIDE DEF S
<1>3. 0..Len(lines) \subseteq S
  BY <1>0, <1>1, <1>2, UpTo
<1>4. Len(lines) \in S
  BY <1>0, <1>3
<1> QED
  BY <1>4, SliceWhole DEF S, Open, Completed

-----------------------------------------------------------------------------
(* The inductive invariant. *)

(* A checkpoint that carries the open calls of the prefix it covers.       *)
Exact(c) == c.pending = Open(c.digest) /\ c.offset = Len(c.digest) /\ Readable(c.digest)

(* What an ingester knows at each point of its run.  Its checkpoint stays   *)
(* that of the file because nobody starts the file over while it reads.    *)
Inspecting(g) ==
  base[g] # None => Exact(base[g]) /\ Completed(base[g].digest) \subseteq settled
Reading(g) ==
  /\ Exact(base[g]) /\ Completed(base[g].digest) \subseteq settled
  /\ base[g].offset <= Len(transcript) /\ base[g].digest = Prefix(base[g].offset)
Hashing(g) ==
  LET covered == Prefix(base[g].offset) IN
    /\ base[g].offset <= Len(transcript)
    /\ base[g].pending = Open(covered) /\ Readable(covered)
    /\ Completed(covered) \subseteq settled \cup batch[g]
Storing(g) == Exact(next[g]) /\ Completed(next[g].digest) \subseteq settled \cup batch[g]

StoringStages == {"load", "insert", "reload", "append"}

Sound(g) ==
  /\ pc[g] = "inspect" => Inspecting(g)
  /\ pc[g] = "read" => Reading(g)
  /\ pc[g] = "digest" => Hashing(g)
  /\ pc[g] \in StoringStages => Storing(g)

IInv == TypeOK /\ CursorNeverAhead /\ CursorExact /\ \A g \in Ingesters : Sound(g)

(* The host completes a call at most once: what a tail completes, no line   *)
(* before it did.                                                          *)
CompletedOnce ==
  /\ Open(transcript) \cap Completed(transcript) = {}
  /\ \A m \in 0..Len(transcript) :
       Parse(Open(Prefix(m)), SubSeq(transcript, m + 1, Len(transcript))).done
         \cap Completed(Prefix(m)) = {}

(* Deleted events had been handed to the store.                            *)
DeletedSettled ==
  /\ erased \cup pruned \subseteq settled
  /\ \A e \in EventIds : events[e] # None => e \in settled

Covered == IF cursor = None THEN {} ELSE Completed(cursor.digest)
Beyond(c) == cursor # None => cursor.offset <= c.offset
OfFile(c) == c.offset <= Len(transcript) /\ c.digest = Prefix(c.offset)
Exactly(done, g) == done = settled \cup batch[g] /\ settled \cap batch[g] = {}

(* Undisturbed, exactly the calls the checkpoint covers have been handed    *)
(* over, and those of the one ingester's batch never were.                 *)
AloneAt(g) ==
  /\ pc[g] # "append" => settled = Covered
  /\ pc[g] = "inspect" => base[g] = cursor
  /\ pc[g] = "read" => base[g] = IF cursor = None THEN EmptyCursor ELSE cursor
  /\ pc[g] = "digest" => Beyond(base[g]) /\ Exactly(Completed(Prefix(base[g].offset)), g)
  /\ pc[g] \in StoringStages =>
       Beyond(next[g]) /\ OfFile(next[g]) /\ Exactly(Completed(next[g].digest), g)

Alone ==
  /\ \A g, h \in Ingesters : pc[g] # "idle" /\ pc[h] # "idle" => g = h
  /\ cursor # None => OfFile(cursor)
  /\ (\A g \in Ingesters : pc[g] = "idle") => settled = Covered
  /\ \A g \in Ingesters : pc[g] # "idle" => AloneAt(g)
  /\ \A e \in erased \cup pruned : events[e] = None

QInv == IInv /\ CompletedOnce /\ DeletedSettled /\ (~disturbed => Alone)
-----------------------------------------------------------------------------
(* Types. *)

LEMMA EmptyType == EmptyCursor \in Cursors
BY EmptySeq DEF EmptyCursor, Cursors

LEMMA ValidatedType ==
  ASSUME NEW c \in Cursors \cup {None}
  PROVE  Validated(c) \in Cursors
BY EmptyType DEF Validated

LEMMA CursorFields ==
  ASSUME NEW c \in Cursors
  PROVE  /\ c.offset \in Nat /\ c.digest \in Seq(Lines) /\ c.pending \in SUBSET EventIds
         /\ c = [offset |-> c.offset, digest |-> c.digest, pending |-> c.pending]
BY DEF Cursors

LEMMA TailType ==
  ASSUME NEW lines \in Seq(Lines), NEW n \in Nat
  PROVE  /\ SubSeq(lines, n + 1, Len(lines)) \in Seq(Lines)
         /\ Len(SubSeq(lines, n + 1, Len(lines))) = IF n <= Len(lines) THEN Len(lines) - n ELSE 0
OBVIOUS

LEMMA PrefixType ==
  ASSUME NEW lines \in Seq(Lines), NEW n \in Nat, n <= Len(lines)
  PROVE  SubSeq(lines, 1, n) \in Seq(Lines) /\ Len(SubSeq(lines, 1, n)) = n
OBVIOUS

(* An ingester that ends or is killed. *)
LEMMA ExitType ==
  ASSUME TypeOK, NEW g \in Ingesters, Exit(g)
  PROVE  /\ pc' \in [Ingesters -> Stages]
         /\ base' \in [Ingesters -> Cursors \cup {None}]
         /\ next' \in [Ingesters -> Cursors \cup {None}]
         /\ batch' \in [Ingesters -> SUBSET EventIds]
         /\ held' \in [Ingesters -> ProjectIds \cup {None}]
         /\ pc'[g] = "idle"
         /\ \A h \in Ingesters \ {g} : pc'[h] = pc[h] /\ base'[h] = base[h] /\ next'[h] = next[h]
                                       /\ batch'[h] = batch[h] /\ held'[h] = held[h]
BY DEF TypeOK, Exit, Goto, Stages

LEMMA LoadCursorType ==
  ASSUME TypeOK, NEW g \in Ingesters, LoadCursor(g)
  PROVE  TypeOK'
BY DEF TypeOK, LoadCursor, Goto, Stages, hostVars, historyVars, storeVars, StoreTypeOK

LEMMA InspectType ==
  ASSUME TypeOK, NEW g \in Ingesters, Inspect(g)
  PROVE  TypeOK'
<1>1. Validated(base[g]) \in Cursors
  BY ValidatedType DEF TypeOK
<1> QED
  BY <1>1 DEF TypeOK, Inspect, Goto, Stages, hostVars, historyVars, storeVars, StoreTypeOK

LEMMA ReadTailType ==
  ASSUME TypeOK, NEW g \in Ingesters, ReadTail(g)
  PROVE  TypeOK'
<1> DEFINE tail == SubSeq(transcript, base[g].offset + 1, Len(transcript))
           parsed == Parse(base[g].pending, tail)
           new == [offset |-> base[g].offset + Len(tail), digest |-> base[g].digest,
                   pending |-> parsed.pending]
<1>1. base[g] \in Cursors /\ pc[g] = "read"
  BY DEF TypeOK, ReadTail
<1>2. tail \in Seq(Lines) /\ Len(tail) \in Nat
  BY <1>1, CursorFields, TailType DEF TypeOK
<1>3. parsed.done \in SUBSET EventIds /\ parsed.pending \in SUBSET EventIds
  BY <1>1, <1>2, CursorFields, ParseType DEF States
<1>4. /\ pc' = [pc EXCEPT ![g] = "digest"]
      /\ base' = [base EXCEPT ![g] = new]
      /\ batch' = [batch EXCEPT ![g] = parsed.done]
      /\ UNCHANGED <<storeVars, hostVars, crashes, cursor, next, held, historyVars>>
  BY DEF ReadTail, Goto
<1> HIDE DEF tail, parsed
<1>5. new \in Cursors
  BY <1>1, <1>2, <1>3, CursorFields DEF Cursors
<1> HIDE DEF new
<1> QED
  BY <1>3, <1>4, <1>5 DEF TypeOK, Stages, hostVars, historyVars, storeVars, StoreTypeOK

LEMMA RefuseTailType ==
  ASSUME TypeOK, NEW g \in Ingesters, RefuseTail(g)
  PROVE  TypeOK'
BY ExitType DEF TypeOK, RefuseTail, hostVars, historyVars, storeVars, StoreTypeOK

LEMMA DigestType ==
  ASSUME TypeOK, NEW g \in Ingesters, Digest(g)
  PROVE  TypeOK'
<1>1. base[g] \in Cursors
  BY DEF TypeOK, Digest
<1>2. CASE /\ base[g].offset <= Len(transcript)
           /\ Goto(g, "load")
           /\ next' = [next EXCEPT ![g] = [base[g] EXCEPT !.digest = Prefix(base[g].offset)]]
           /\ base' = [base EXCEPT ![g] = None]
           /\ UNCHANGED <<batch, held>>
  <2> DEFINE new == [base[g] EXCEPT !.digest = Prefix(base[g].offset)]
  <2>1. Prefix(base[g].offset) \in Seq(Lines)
    BY <1>1, <1>2, CursorFields, PrefixType DEF TypeOK, Prefix
  <2>2. new \in Cursors
    BY <1>1, <2>1 DEF Cursors
  <2> HIDE DEF new
  <2> QED
    BY <1>2, <2>2 DEF new, TypeOK, Digest, Goto, Stages, hostVars, historyVars, storeVars, StoreTypeOK
<1>3. CASE Exit(g)
  BY <1>3, ExitType DEF TypeOK, Digest, hostVars, historyVars, storeVars, StoreTypeOK
<1> QED
  BY <1>2, <1>3 DEF Digest

LEMMA ResolvedType ==
  ASSUME TypeOK, NEW g \in Ingesters, pc[g] \in {"load", "reload"}, Resolved(g),
         UNCHANGED <<hostVars, crashes, cursor, historyVars>>
  PROVE  TypeOK'
<1>1. projects[Home] \in ProjectIds
  BY IngestionAssumption DEF TypeOK, StoreTypeOK, Resolved
<1> QED
  BY <1>1 DEF TypeOK, Resolved, Goto, Stages, hostVars, historyVars, storeVars, StoreTypeOK

LEMMA LoadProjectType ==
  ASSUME TypeOK, NEW g \in Ingesters, LoadProject(g)
  PROVE  TypeOK'
<1>1. CASE Resolved(g)
  BY <1>1, ResolvedType DEF LoadProject
<1>2. CASE projects[Home] = None /\ Goto(g, "insert") /\ UNCHANGED <<storeVars, base, next, batch, held>>
  BY <1>2 DEF TypeOK, LoadProject, Goto, Stages, hostVars, historyVars, storeVars, StoreTypeOK
<1> QED
  BY <1>1, <1>2 DEF LoadProject

LEMMA InsertMappingType ==
  ASSUME StoreTypeOK, InsertMapping(Home)
  PROVE  StoreTypeOK'
BY DEF StoreTypeOK, InsertMapping

LEMMA InsertProjectType ==
  ASSUME TypeOK, NEW g \in Ingesters, InsertProject(g)
  PROVE  TypeOK'
<1>1. StoreTypeOK'
  BY InsertMappingType DEF TypeOK, InsertProject
<1> QED
  BY <1>1 DEF TypeOK, InsertProject, Goto, Stages, hostVars, historyVars

LEMMA ReloadProjectType ==
  ASSUME TypeOK, NEW g \in Ingesters, ReloadProject(g)
  PROVE  TypeOK'
<1>1. CASE Resolved(g)
  BY <1>1, ResolvedType DEF ReloadProject
<1>2. CASE Exit(g) /\ UNCHANGED storeVars
  BY <1>2, ExitType DEF TypeOK, ReloadProject, hostVars, historyVars, storeVars, StoreTypeOK
<1> QED
  BY <1>1, <1>2 DEF ReloadProject

LEMMA AppendOneType ==
  ASSUME TypeOK, NEW g \in Ingesters, AppendOne(g)
  PROVE  TypeOK'
<1> PICK e \in batch[g] : /\ AppendEvent(e, held[g])
                          /\ batch' = [batch EXCEPT ![g] = @ \ {e}]
                          /\ settled' = settled \cup {e}
  BY DEF AppendOne
<1>1. e \in EventIds /\ held[g] \in ProjectIds
  BY DEF TypeOK, AppendOne
<1>2. StoreTypeOK'
  BY <1>1 DEF TypeOK, StoreTypeOK, AppendEvent
<1> QED
  BY <1>1, <1>2 DEF TypeOK, AppendOne, Stages, hostVars

LEMMA SaveCursorType ==
  ASSUME TypeOK, NEW g \in Ingesters, SaveCursor(g)
  PROVE  TypeOK'
<1>1. next[g] \in Cursors
  BY DEF TypeOK, SaveCursor
<1> QED
  BY <1>1, ExitType DEF TypeOK, SaveCursor, hostVars, historyVars, storeVars, StoreTypeOK

LEMMA CrashType ==
  ASSUME TypeOK, NEW g \in Ingesters, Crash(g)
  PROVE  TypeOK'
<1>1. crashes' \in 0..MaxCrashes
  BY IngestionAssumption DEF TypeOK, Crash
<1> QED
  BY <1>1, ExitType DEF TypeOK, Crash, hostVars, historyVars, storeVars, StoreTypeOK

LEMMA WriteLine ==
  ASSUME Write
  PROVE  \E l \in Lines : transcript' = Append(transcript, l)
BY DEF Write, Lines

LEMMA WriteType ==
  ASSUME TypeOK, Write
  PROVE  TypeOK'
<1>1. transcript' \in Seq(Lines)
  BY WriteLine, AppendProperties DEF TypeOK
<1> QED
  BY <1>1 DEF TypeOK, Write, runVars, historyVars, storeVars, StoreTypeOK

LEMMA RewriteType ==
  ASSUME TypeOK, Rewrite
  PROVE  TypeOK'
<1>1. transcript' \in Seq(Lines) /\ rewrites' \in 0..MaxRewrites
  BY EmptySeq, IngestionAssumption DEF TypeOK, Rewrite
<1> QED
  BY <1>1 DEF TypeOK, Rewrite, runVars, historyVars, storeVars, StoreTypeOK

LEMMA ForgetType ==
  ASSUME TypeOK, Forget
  PROVE  TypeOK'
<1>1. projects[Home] \in ProjectIds
  BY IngestionAssumption DEF TypeOK, StoreTypeOK, Forget, EraseProject
<1>2. StoreTypeOK'
  BY <1>1 DEF TypeOK, StoreTypeOK, Forget, EraseProject
<1> QED
  BY <1>2 DEF TypeOK, Forget, runVars, hostVars

LEMMA PruneType ==
  ASSUME TypeOK, Prune
  PROVE  TypeOK'
<1> PICK es \in SUBSET {e \in EventIds : events[e] # None} :
          /\ DeleteBatch(es, {})
          /\ pruned' = pruned \cup es
          /\ UNCHANGED <<hostVars, crashes, cursor, runVars, settled, erased>>
  BY DEF Prune
<1>1. StoreTypeOK'
  BY DEF TypeOK, StoreTypeOK, DeleteBatch
<1> QED
  BY <1>1 DEF TypeOK, runVars, hostVars

LEMMA TypeStep == TypeOK /\ [Next]_vars => TypeOK'
<1> SUFFICES ASSUME TypeOK, [Next]_vars
             PROVE  TypeOK'
  OBVIOUS
<1>1. CASE UNCHANGED vars
  BY <1>1 DEF TypeOK, vars, runVars, storeVars, StoreTypeOK
<1>2. ASSUME NEW g \in Ingesters, Step(g) \/ Crash(g)
      PROVE  TypeOK'
  BY <1>2, LoadCursorType, InspectType, ReadTailType, RefuseTailType, DigestType, LoadProjectType,
     InsertProjectType, ReloadProjectType, AppendOneType, SaveCursorType, CrashType DEF Step
<1>3. CASE Write \/ Rewrite \/ Forget \/ Prune
  BY <1>3, WriteType, RewriteType, ForgetType, PruneType
<1> QED
  BY <1>1, <1>2, <1>3 DEF Next

LEMMA TypeInit == Init => TypeOK
BY EmptySeq, IngestionAssumption DEF Init, TypeOK, Stages, StoreInit, StoreTypeOK

(* Every variable keeps its type: an append only ever uses an identity that *)
(* was resolved, and what is stored is a checkpoint.                        *)
THEOREM TypeCorrect == Spec => []TypeOK
<1> QED
  BY TypeInit, TypeStep, PTL DEF Spec
-----------------------------------------------------------------------------
(* What a checkpoint covers. *)

LEMMA EmptyExact == Exact(EmptyCursor) /\ Completed(EmptyCursor.digest) = {}
                    /\ EmptyCursor.offset = 0 /\ EmptyCursor.digest = <<>>
BY NothingCovered, EmptySeq DEF Exact, EmptyCursor

(* Reading on from an exact checkpoint of the file gives an exact one of    *)
(* the whole file, and the calls the tail completes.                        *)
LEMMA ReadOn ==
  ASSUME NEW lines \in Seq(Lines), NEW n \in Nat, n <= Len(lines),
         NEW pending, pending = Open(SubSeq(lines, 1, n)), Readable(SubSeq(lines, 1, n)),
         Readable(SubSeq(lines, n + 1, Len(lines)))
  PROVE  LET parsed == Parse(pending, SubSeq(lines, n + 1, Len(lines))) IN
           /\ Open(lines) = parsed.pending
           /\ Completed(lines) = Completed(SubSeq(lines, 1, n)) \cup parsed.done
           /\ Readable(lines)
           /\ n + Len(SubSeq(lines, n + 1, Len(lines))) = Len(lines)
<1>1. n \in 0..Len(lines) /\ {} \in SUBSET EventIds
  OBVIOUS
<1>2. /\ Parse({}, lines).pending
           = Parse(Parse({}, SubSeq(lines, 1, n)).pending, SubSeq(lines, n + 1, Len(lines))).pending
      /\ Parse({}, lines).done = Parse({}, SubSeq(lines, 1, n)).done
           \cup Parse(Parse({}, SubSeq(lines, 1, n)).pending, SubSeq(lines, n + 1, Len(lines))).done
  BY <1>1, ParseSplit
<1>3. ASSUME NEW i \in 1..Len(lines)
      PROVE  lines[i] # Torn
  <2>1. CASE i <= n
    <3>1. i \in DOMAIN SubSeq(lines, 1, n) /\ SubSeq(lines, 1, n)[i] = lines[i]
      BY <2>1
    <3> QED
      BY <3>1 DEF Readable
  <2>2. CASE i > n
    <3>1. i - n \in DOMAIN SubSeq(lines, n + 1, Len(lines))
          /\ SubSeq(lines, n + 1, Len(lines))[i - n] = lines[i]
      BY <2>2
    <3> QED
      BY <3>1 DEF Readable
  <2> QED
    BY <2>1, <2>2
<1>4. Readable(lines)
  BY <1>3 DEF Readable
<1>5. n + Len(SubSeq(lines, n + 1, Len(lines))) = Len(lines)
  BY TailType
<1> QED
  BY <1>2, <1>4, <1>5 DEF Open, Completed

(* Nothing of an ingester's knowledge is lost by what others do, as long as *)
(* the file only grows while it reads.                                     *)
Grows == Len(transcript') >= Len(transcript)
         /\ \A m \in 0..Len(transcript) : Prefix(m)' = Prefix(m)

LEMMA SoundKept ==
  ASSUME TypeOK, TypeOK', NEW h \in Ingesters, Sound(h),
         pc'[h] = pc[h], base'[h] = base[h], next'[h] = next[h], batch'[h] = batch[h],
         settled \subseteq settled', pc[h] \in {"read", "digest"} => Grows
  PROVE  Sound(h)'
<1>1. pc[h] = "inspect" => Inspecting(h)'
  BY DEF Sound, Inspecting, Exact
<1>2. ASSUME pc[h] \in {"read", "digest"}, base[h].offset <= Len(transcript)
      PROVE  /\ base[h].offset <= Len(transcript')
             /\ SubSeq(transcript', 1, base[h].offset) = Prefix(base[h].offset)
  <2>1. base[h].offset \in Nat /\ Len(transcript) \in Nat /\ Len(transcript') \in Nat
    BY <1>2, CursorFields DEF TypeOK
  <2>2. base[h].offset \in 0..Len(transcript)
    BY <1>2, <2>1
  <2> QED
    BY <1>2, <2>1, <2>2 DEF Grows, Prefix
<1>3. pc[h] = "read" => Reading(h)'
  BY <1>2 DEF Sound, Reading, Exact, Prefix
<1>4. pc[h] = "digest" => Hashing(h)'
  <2> SUFFICES ASSUME pc[h] = "digest"
               PROVE  Hashing(h)'
    OBVIOUS
  <2>1. Hashing(h)
    BY DEF Sound
  <2>2. /\ base[h].offset <= Len(transcript')
        /\ SubSeq(transcript', 1, base[h].offset) = Prefix(base[h].offset)
    BY <1>2, <2>1 DEF Hashing
  <2> QED
    BY <2>1, <2>2 DEF Hashing, Prefix
<1>5. pc[h] \in StoringStages => Storing(h)'
  BY DEF Sound, Storing, Exact
<1> QED
  BY <1>1, <1>3, <1>4, <1>5 DEF Sound

(* What a step of ingester g leaves alone. *)
OthersKept(g) ==
  /\ \A h \in Ingesters \ {g} : /\ pc'[h] = pc[h] /\ base'[h] = base[h]
                                /\ next'[h] = next[h] /\ batch'[h] = batch[h]
  /\ transcript' = transcript
  /\ settled \subseteq settled'

LEMMA ExitKeeps ==
  ASSUME TypeOK, NEW g \in Ingesters, Exit(g), transcript' = transcript, settled' = settled
  PROVE  OthersKept(g) /\ Sound(g)'
BY ExitType DEF OthersKept, Sound, StoringStages

LEMMA LoadCursorSound ==
  ASSUME IInv, NEW g \in Ingesters, LoadCursor(g)
  PROVE  OthersKept(g) /\ Sound(g)'
<1>1. OthersKept(g) /\ pc'[g] = "inspect" /\ base'[g] = cursor /\ settled' = settled
  BY DEF IInv, TypeOK, LoadCursor, Goto, hostVars, historyVars, OthersKept
<1>2. cursor # None => Exact(cursor) /\ Completed(cursor.digest) \subseteq settled
  BY DEF IInv, CursorExact, CursorNeverAhead, Exact
<1> QED
  BY <1>1, <1>2 DEF Sound, Inspecting, Exact, StoringStages

LEMMA InspectSound ==
  ASSUME IInv, NEW g \in Ingesters, Inspect(g)
  PROVE  OthersKept(g) /\ Sound(g)'
<1>1. OthersKept(g) /\ pc'[g] = "read" /\ base'[g] = Validated(base[g]) /\ settled' = settled
      /\ transcript' = transcript
  BY DEF IInv, TypeOK, Inspect, Goto, hostVars, historyVars, OthersKept
<1>2. Inspecting(g) /\ transcript \in Seq(Lines)
  BY DEF IInv, TypeOK, Sound, Inspect
<1> DEFINE v == Validated(base[g])
<1>3. /\ Exact(v) /\ Completed(v.digest) \subseteq settled
      /\ v.offset <= Len(transcript) /\ v.digest = Prefix(v.offset)
  <2>1. CASE v = EmptyCursor
    BY <1>2, <2>1, EmptyExact DEF Prefix
  <2>2. CASE v # EmptyCursor
    BY <1>2, <2>2 DEF Validated, Inspecting
  <2> QED
    BY <2>1, <2>2
<1> HIDE DEF v
<1>4. Reading(g)'
  BY <1>1, <1>3 DEF Reading, Exact, Prefix, v
<1> QED
  BY <1>1, <1>4 DEF Sound, StoringStages

LEMMA ReadTailSound ==
  ASSUME IInv, NEW g \in Ingesters, ReadTail(g)
  PROVE  /\ OthersKept(g) /\ Sound(g)'
         /\ batch'[g] = Parse(base[g].pending,
                              SubSeq(transcript, base[g].offset + 1, Len(transcript))).done
         /\ base'[g].offset = Len(transcript) /\ pc'[g] = "digest" /\ settled' = settled
         /\ Prefix(base'[g].offset) = transcript
         /\ Completed(transcript) = Completed(Prefix(base[g].offset)) \cup batch'[g]
<1> DEFINE n == base[g].offset
           tail == SubSeq(transcript, n + 1, Len(transcript))
           parsed == Parse(base[g].pending, tail)
           new == [offset |-> n + Len(tail), digest |-> base[g].digest, pending |-> parsed.pending]
<1>1. base[g] \in Cursors /\ Reading(g) /\ transcript \in Seq(Lines)
  BY DEF IInv, TypeOK, Sound, ReadTail
<1>2. n \in Nat /\ n <= Len(transcript) /\ Readable(tail)
      /\ base[g].pending = Open(SubSeq(transcript, 1, n)) /\ Readable(SubSeq(transcript, 1, n))
      /\ Completed(SubSeq(transcript, 1, n)) \subseteq settled
  BY <1>1, CursorFields DEF Reading, Exact, Prefix, ReadTail
<1>3. /\ pc' = [pc EXCEPT ![g] = "digest"]
      /\ base' = [base EXCEPT ![g] = new]
      /\ batch' = [batch EXCEPT ![g] = parsed.done]
      /\ UNCHANGED <<hostVars, next, historyVars>>
  BY DEF ReadTail, Goto
<1>4. /\ Open(transcript) = parsed.pending
      /\ Completed(transcript) = Completed(SubSeq(transcript, 1, n)) \cup parsed.done
      /\ Readable(transcript)
      /\ n + Len(tail) = Len(transcript)
  BY <1>1, <1>2, ReadOn
<1>5. SubSeq(transcript, 1, Len(transcript)) = transcript /\ Len(transcript) \in Nat
  BY <1>1, SliceWhole
<1> HIDE DEF tail, parsed
<1>6. OthersKept(g) /\ transcript' = transcript /\ settled' = settled
  BY <1>3 DEF OthersKept, hostVars, historyVars, IInv, TypeOK
<1>7. pc'[g] = "digest" /\ base'[g] = new /\ batch'[g] = parsed.done
  BY <1>3 DEF IInv, TypeOK
<1>8. new.offset = Len(transcript) /\ new.pending = Open(transcript)
  BY <1>4
<1> HIDE DEF new
<1>9. Hashing(g)'
  <2>1. /\ SubSeq(transcript', 1, base'[g].offset) = transcript
        /\ base'[g].offset <= Len(transcript')
    BY <1>5, <1>6, <1>7, <1>8
  <2>2. base'[g].pending = Open(transcript) /\ Completed(transcript) \subseteq settled' \cup batch'[g]
    BY <1>2, <1>4, <1>6, <1>7, <1>8
  <2> QED
    BY <1>4, <2>1, <2>2 DEF Hashing, Prefix
<1>10. Sound(g)'
  BY <1>7, <1>9 DEF Sound, StoringStages
<1> QED
  BY <1>4, <1>5, <1>6, <1>7, <1>8, <1>10 DEF Prefix, parsed, tail

LEMMA DigestSound ==
  ASSUME IInv, NEW g \in Ingesters, Digest(g)
  PROVE  /\ OthersKept(g) /\ Sound(g)' /\ settled' = settled
         /\ pc'[g] = "load" /\ batch'[g] = batch[g]
         /\ next'[g].offset = base[g].offset /\ next'[g].digest = Prefix(base[g].offset)
<1> DEFINE new == [base[g] EXCEPT !.digest = Prefix(base[g].offset)]
<1>1. base[g] \in Cursors /\ Hashing(g) /\ transcript \in Seq(Lines)
  BY DEF IInv, TypeOK, Sound, Digest
<1>2. base[g].offset \in Nat /\ base[g].offset <= Len(transcript)
  BY <1>1, CursorFields DEF Hashing
<1>3. /\ pc' = [pc EXCEPT ![g] = "load"]
      /\ next' = [next EXCEPT ![g] = new]
      /\ base' = [base EXCEPT ![g] = None]
      /\ batch' = batch
      /\ UNCHANGED <<hostVars, historyVars>>
  BY <1>1, <1>2 DEF Digest, Goto
<1>4. new.offset = base[g].offset /\ new.pending = base[g].pending
      /\ new.digest = Prefix(base[g].offset)
  BY <1>1 DEF Cursors
<1> HIDE DEF new
<1>5. OthersKept(g) /\ settled' = settled /\ pc'[g] = "load" /\ next'[g] = new /\ batch'[g] = batch[g]
  BY <1>3 DEF OthersKept, hostVars, historyVars, IInv, TypeOK
<1>6. Len(Prefix(base[g].offset)) = base[g].offset
  BY <1>1, <1>2, PrefixType DEF Prefix
<1>7. Storing(g)'
  BY <1>1, <1>4, <1>5, <1>6 DEF Hashing, Storing, Exact
<1> QED
  BY <1>4, <1>5, <1>7 DEF Sound, StoringStages

(* Resolving the project leaves what is to be stored alone, or ends.        *)
LEMMA ResolvingSound ==
  ASSUME IInv, NEW g \in Ingesters, LoadProject(g) \/ InsertProject(g) \/ ReloadProject(g)
  PROVE  /\ OthersKept(g) /\ Sound(g)' /\ settled' = settled /\ cursor' = cursor
         /\ pc[g] \in StoringStages \ {"append"}
         /\ \/ pc'[g] = "idle"
            \/ pc'[g] \in StoringStages /\ next'[g] = next[g] /\ batch'[g] = batch[g]
<1> USE DEF IInv
<1>1. ASSUME NEW stage \in StoringStages, Goto(g, stage), UNCHANGED <<base, next, batch, hostVars, historyVars>>,
             pc[g] \in StoringStages \ {"append"}
      PROVE  OthersKept(g) /\ Sound(g)' /\ settled' = settled /\ pc'[g] = stage
             /\ next'[g] = next[g] /\ batch'[g] = batch[g]
  <2>1. OthersKept(g) /\ settled' = settled /\ pc'[g] = stage
    BY <1>1 DEF Goto, OthersKept, TypeOK, hostVars, historyVars
  <2>2. Storing(g)'
    BY <1>1, <2>1 DEF Sound, Storing, Exact
  <2> QED
    BY <1>1, <2>1, <2>2 DEF Sound, StoringStages
<1>2. CASE Exit(g) /\ ReloadProject(g)
  BY <1>2, ExitType, ExitKeeps DEF ReloadProject, hostVars, historyVars, StoringStages
<1>3. CASE Resolved(g) /\ (LoadProject(g) \/ ReloadProject(g))
  BY <1>1, <1>3 DEF Resolved, LoadProject, ReloadProject, StoringStages
<1>4. CASE LoadProject(g) /\ ~Resolved(g)
  BY <1>1, <1>4 DEF LoadProject, StoringStages
<1>5. CASE InsertProject(g)
  BY <1>1, <1>5 DEF InsertProject, StoringStages
<1> QED
  BY <1>2, <1>3, <1>4, <1>5 DEF ReloadProject

LEMMA AppendOneSound ==
  ASSUME IInv, NEW g \in Ingesters, AppendOne(g)
  PROVE  OthersKept(g) /\ Sound(g)'
<1> PICK e \in batch[g] : /\ batch' = [batch EXCEPT ![g] = @ \ {e}]
                          /\ settled' = settled \cup {e}
  BY DEF AppendOne
<1>1. OthersKept(g) /\ pc'[g] = "append" /\ next'[g] = next[g] /\ batch'[g] = batch[g] \ {e}
  BY DEF AppendOne, OthersKept, IInv, TypeOK, hostVars
<1>2. Storing(g)
  BY DEF IInv, Sound, AppendOne, StoringStages
<1>3. Storing(g)'
  BY <1>1, <1>2 DEF Storing, Exact
<1> QED
  BY <1>1, <1>3 DEF Sound, StoringStages

LEMMA SaveCursorSound ==
  ASSUME IInv, NEW g \in Ingesters, SaveCursor(g)
  PROVE  OthersKept(g) /\ Sound(g)' /\ CursorExact' /\ CursorNeverAhead'
<1>1. OthersKept(g) /\ Sound(g)' /\ settled' = settled /\ cursor' = next[g]
  BY ExitKeeps DEF SaveCursor, hostVars, historyVars, IInv
<1>2. Storing(g) /\ batch[g] = {}
  BY DEF IInv, Sound, SaveCursor, StoringStages
<1> QED
  BY <1>1, <1>2 DEF Storing, Exact, CursorExact, CursorNeverAhead

LEMMA StepSound ==
  ASSUME IInv, NEW g \in Ingesters, Step(g) \/ Crash(g)
  PROVE  OthersKept(g) /\ Sound(g)' /\ CursorExact' /\ CursorNeverAhead'
<1>1. CASE SaveCursor(g)
  BY <1>1, SaveCursorSound
<1>2. CASE RefuseTail(g) \/ Crash(g)
  <2>1. OthersKept(g) /\ Sound(g)'
    BY <1>2, ExitKeeps DEF RefuseTail, Crash, hostVars, historyVars, IInv
  <2>2. cursor' = cursor /\ settled' = settled
    BY <1>2 DEF RefuseTail, Crash, historyVars
  <2> QED
    BY <2>1, <2>2 DEF IInv, CursorExact, CursorNeverAhead
<1>3. CASE LoadCursor(g) \/ Inspect(g) \/ ReadTail(g) \/ Digest(g) \/ LoadProject(g) \/ InsertProject(g)
           \/ ReloadProject(g) \/ AppendOne(g)
  <2>1. OthersKept(g) /\ Sound(g)'
    BY <1>3, LoadCursorSound, InspectSound, ReadTailSound, DigestSound, ResolvingSound, AppendOneSound
  <2>2. cursor' = cursor
    BY <1>3 DEF LoadCursor, Inspect, ReadTail, Digest, LoadProject, InsertProject, ReloadProject, AppendOne
  <2> QED
    BY <2>1, <2>2 DEF IInv, CursorExact, CursorNeverAhead, OthersKept
<1> QED
  BY <1>1, <1>2, <1>3 DEF Step

LEMMA SameGrows ==
  ASSUME TypeOK, transcript' = transcript
  PROVE  Grows
BY DEF Grows, TypeOK, Prefix

LEMMA WriteGrows ==
  ASSUME TypeOK, Write
  PROVE  Grows
<1> PICK l \in Lines : transcript' = Append(transcript, l)
  BY WriteLine
<1>1. Len(transcript') = Len(transcript) + 1 /\ Len(transcript) \in Nat
  BY DEF TypeOK
<1>2. \A m \in 0..Len(transcript) : SubSeq(transcript', 1, m) = SubSeq(transcript, 1, m)
  BY SliceKept DEF TypeOK
<1> QED
  BY <1>1, <1>2 DEF Grows, Prefix

LEMMA IStep == IInv /\ [QuietNext]_quietVars => IInv'
<1> SUFFICES ASSUME IInv, [QuietNext]_quietVars
             PROVE  IInv'
  OBVIOUS
<1>1. TypeOK /\ TypeOK'
  BY TypeStep DEF IInv, QuietNext, quietVars
<1>2. ASSUME NEW g \in Ingesters, Step(g) \/ Crash(g)
      PROVE  IInv'
  <2>1. OthersKept(g) /\ Sound(g)' /\ CursorExact' /\ CursorNeverAhead'
    BY <1>2, StepSound
  <2>2. \A h \in Ingesters \ {g} : Sound(h)'
    BY <1>1, <2>1, SoundKept, SameGrows DEF IInv, OthersKept
  <2> QED
    BY <1>1, <2>1, <2>2 DEF IInv
<1>3. CASE Write \/ Rewrite \/ Forget \/ Prune \/ UNCHANGED quietVars
  <2>1. UNCHANGED <<cursor, pc, base, next, batch, settled>>
    BY <1>3 DEF Write, Rewrite, Forget, Prune, quietVars, vars, runVars, historyVars
  <2>2. CASE Rewrite
    <3>1. rewrites' # rewrites
      BY <1>1, <2>2 DEF Rewrite, TypeOK
    <3>2. \A h \in Ingesters : pc[h] \notin {"read", "digest"}
      BY <3>1 DEF QuietNext, quietVars, vars
    <3> QED
      BY <1>1, <2>1, <3>2, SoundKept DEF IInv, CursorExact, CursorNeverAhead
  <2>3. CASE ~Rewrite
    <3>1. Grows
      BY <1>1, <1>3, <2>3, WriteGrows, SameGrows DEF Forget, Prune, hostVars, quietVars, vars
    <3> QED
      BY <1>1, <2>1, <3>1, SoundKept DEF IInv, CursorExact, CursorNeverAhead
  <2> QED
    BY <2>2, <2>3
<1> QED
  BY <1>2, <1>3 DEF QuietNext, Next

LEMMA IInit == QuietInit => IInv
BY TypeInit DEF QuietInit, Init, IInv, CursorNeverAhead, CursorExact, Sound, StoringStages

(* The invariant holds whenever the file is started over only between runs. *)
THEOREM IngestionInvariant == QuietSpec => []IInv
BY IInit, IStep, PTL DEF QuietSpec

(* A stored checkpoint is never ahead of the store: an append was executed  *)
(* for every call completed in the prefix it covers.                        *)
THEOREM NeverAhead == QuietSpec => []CursorNeverAhead
<1>1. IInv => CursorNeverAhead
  BY DEF IInv
<1> QED
  BY <1>1, IngestionInvariant, PTL

(* A stored checkpoint carries exactly the open calls of its prefix, which  *)
(* holds no torn line, whatever runs and checkpoints led to it.             *)
THEOREM AlwaysExact == QuietSpec => []CursorExact
<1>1. IInv => CursorExact
  BY DEF IInv
<1> QED
  BY <1>1, IngestionInvariant, PTL
-----------------------------------------------------------------------------
(* Undisturbed ingesters. *)

LEMMA WriteOnce ==
  ASSUME TypeOK, CompletedOnce, Write
  PROVE  CompletedOnce'
<1> DEFINE T == transcript
           len == Len(transcript)
           open == Open(transcript)
           done == Completed(transcript)
<1>1. T \in Seq(Lines) /\ len \in Nat /\ Parse({}, T) \in States
  BY ParseType DEF TypeOK
<1>2. PICK l \in Lines : /\ transcript' = Append(T, l)
                         /\ l.kind = "call" => l.call \notin open \cup done
                         /\ l.kind = "output" => l.call \in open
  <2>1. CASE \E e \in EventIds : /\ e \notin Open(transcript) \cup Completed(transcript)
                                 /\ transcript' = Append(transcript, CallLine(e))
    BY <2>1 DEF Lines, CallLine
  <2>2. CASE \E e \in EventIds : /\ e \in Open(transcript)
                                 /\ transcript' = Append(transcript, OutputLine(e))
    BY <2>2 DEF Lines, OutputLine
  <2>3. CASE transcript' = Append(transcript, Torn)
    BY <2>3 DEF Lines, Torn
  <2> QED
    BY <2>1, <2>2, <2>3 DEF Write
<1>3. transcript' \in Seq(Lines) /\ Len(transcript') = len + 1
      /\ transcript'[len + 1] = l
  BY <1>1, <1>2
<1>4. Open(transcript') = NextPending(open, l) /\ Completed(transcript') = NextDone(open, done, l)
  <2>1. Parse({}, transcript') = ParseLine(Parse({}, T), l)
    BY <1>1, <1>2, ParseAppend
  <2>2. Parse({}, T) = [pending |-> open, done |-> done]
    BY <1>1 DEF States, Open, Completed
  <2>3. Parse({}, transcript') = [pending |-> NextPending(open, l), done |-> NextDone(open, done, l)]
    <3> HIDE DEF open, done
    <3> QED
      BY <2>1, <2>2, ParseLineForm
  <2> QED
    BY <2>3 DEF Open, Completed
<1>5. Open(transcript') \cap Completed(transcript') = {}
  <2>1. open \cap done = {}
    BY DEF CompletedOnce
  <2> QED
    BY <1>2, <1>4, <2>1 DEF NextPending, NextDone
<1>6. ASSUME NEW m \in 0..(len + 1)
      PROVE  Parse(Open(SubSeq(transcript', 1, m)), SubSeq(transcript', m + 1, len + 1)).done
               \cap Completed(SubSeq(transcript', 1, m)) = {}
  <2>1. CASE m = len + 1
    <3>1. SubSeq(transcript', m + 1, len + 1) = <<>>
      BY <1>1, <1>3, <2>1, SliceEmpty
    <3> QED
      BY <3>1, NothingDone
  <2>2. CASE m # len + 1
    <3> DEFINE front == SubSeq(T, 1, m)
               tail == SubSeq(T, m + 1, len)
               rest == Parse(Open(front), tail)
    <3>1. m \in 0..len /\ m + 1 \in Nat \ {0} /\ m + 1 <= len + 1 /\ m <= len
      BY <1>1, <2>2
    <3>2. SubSeq(transcript', 1, m) = front
      BY <1>1, <1>2, <3>1, SliceKept
    <3>3. SubSeq(transcript', m + 1, len + 1) = Append(tail, l)
      <4>1. SubSeq(transcript', m + 1, len) = tail
        BY <1>1, <1>2, <3>1, SliceKept
      <4>2. len \in 0..(Len(transcript') - 1)
        BY <1>1, <1>3
      <4> HIDE DEF len
      <4> QED
        BY <1>3, <3>1, <4>1, <4>2, SliceExtends
    <3>4. front \in Seq(Lines) /\ tail \in Seq(Lines)
      <4>1. m \in Nat
        OBVIOUS
      <4> QED
        BY <1>1, <3>1, <4>1, PrefixType, TailType
    <3>5. open = rest.pending /\ done = Completed(front) \cup rest.done
      BY <1>1, <3>1, ParseSplit DEF Open, Completed
    <3>6. rest.done \cap Completed(front) = {} /\ open \cap done = {}
      BY <3>1 DEF CompletedOnce, Prefix
    <3>7. rest \in States
      <4>1. Open(front) \in SUBSET EventIds
        BY <3>4, ParseType DEF Open, States
      <4> QED
        BY <3>4, <4>1, ParseType
    <3> HIDE DEF front, tail
    <3>8. Parse(Open(front), Append(tail, l)) = ParseLine(rest, l)
      BY <3>4, ParseAppend
    <3> HIDE DEF rest
    <3>9. ParseLine(rest, l).done = NextDone(rest.pending, rest.done, l)
      BY <3>7, ParseLineForm DEF States
    <3> QED
      BY <3>2, <3>3, <3>5, <3>6, <3>8, <3>9 DEF NextDone
  <2> QED
    BY <2>1, <2>2
<1> QED
  BY <1>3, <1>5, <1>6 DEF CompletedOnce, Prefix

LEMMA OnceStep ==
  ASSUME TypeOK, CompletedOnce, [QuietNext]_quietVars
  PROVE  CompletedOnce'
<1>1. CASE transcript' = transcript
  BY <1>1 DEF CompletedOnce, Prefix
<1>2. CASE Rewrite
  <2>1. transcript' = <<>> /\ Len(<<>>) = 0 /\ <<>> \in Seq(Lines)
    BY <1>2, EmptySeq DEF Rewrite
  <2>2. SubSeq(<<>>, 0 + 1, 0) = <<>>
    BY <2>1, SliceEmpty
  <2>3. \A p : Parse(p, SubSeq(<<>>, 0 + 1, 0)).done = {}
    BY <2>2, NothingDone
  <2>4. 0..0 = {0}
    OBVIOUS
  <2> QED
    BY <2>1, <2>3, <2>4, NothingCovered DEF CompletedOnce, Prefix
<1>3. CASE Write
  BY <1>3, WriteOnce
<1>4. Write \/ Rewrite \/ transcript' = transcript
  BY DEF QuietNext, Next, Step, quietVars, vars, LoadCursor, Inspect, ReadTail, RefuseTail, Digest,
     LoadProject, InsertProject, ReloadProject, AppendOne, SaveCursor, Crash, Forget, Prune, hostVars
<1> QED
  BY <1>1, <1>2, <1>3, <1>4

LEMMA DeletedStep ==
  ASSUME TypeOK, DeletedSettled, [QuietNext]_quietVars
  PROVE  DeletedSettled'
<1>1. CASE UNCHANGED <<events, settled, erased, pruned>>
  BY <1>1 DEF DeletedSettled
<1>2. ASSUME NEW g \in Ingesters, AppendOne(g)
      PROVE  DeletedSettled'
  BY <1>2 DEF AppendOne, AppendEvent, EventAccepted, TypeOK, StoreTypeOK, DeletedSettled
<1>3. CASE Forget
  BY <1>3 DEF Forget, EraseProject, EventsOf, TypeOK, StoreTypeOK, DeletedSettled
<1>4. CASE Prune
  BY <1>4 DEF Prune, DeleteBatch, TypeOK, StoreTypeOK, DeletedSettled
<1>5. ASSUME NEW g \in Ingesters, (Step(g) \/ Crash(g)) /\ ~AppendOne(g)
      PROVE  UNCHANGED <<events, settled, erased, pruned>>
  BY <1>5 DEF Step, LoadCursor, Inspect, ReadTail, RefuseTail, Digest, LoadProject, Resolved,
     InsertProject, InsertMapping, ReloadProject, SaveCursor, Crash, historyVars, storeVars
<1>6. CASE Write \/ Rewrite \/ UNCHANGED quietVars
  BY <1>1, <1>6 DEF Write, Rewrite, quietVars, vars, historyVars, storeVars
<1> QED
  BY <1>1, <1>2, <1>3, <1>4, <1>5, <1>6 DEF QuietNext, Next
(* An undisturbed step is one of one ingester, nobody else being at work,   *)
(* or leaves them all alone on a file that only grows.                     *)
LEMMA Undisturbed ==
  ASSUME TypeOK, TypeOK', [QuietNext]_quietVars, ~disturbed'
  PROVE  /\ ~disturbed
         /\ \/ UNCHANGED vars
            \/ /\ \A g, h \in Ingesters : pc'[g] # "idle" /\ pc'[h] # "idle" => g = h
               /\ (\E g \in Ingesters : Step(g)) \/ Write \/ Forget \/ Prune
<1>1. CASE UNCHANGED quietVars
  BY <1>1 DEF quietVars
<1>2. CASE QuietNext
  <2>1. ~disturbed /\ ~Overlap' /\ crashes' = crashes /\ rewrites' = rewrites
    BY <1>2 DEF QuietNext
  <2>2. ~Rewrite /\ \A g \in Ingesters : ~Crash(g)
    BY <2>1 DEF Rewrite, Crash, TypeOK
  <2>3. \A g, h \in Ingesters : pc'[g] # "idle" /\ pc'[h] # "idle" => g = h
    BY <2>1 DEF Overlap
  <2> QED
    BY <1>2, <2>1, <2>2, <2>3 DEF QuietNext, Next
<1> QED
  BY <1>1, <1>2

LEMMA NoneNoCursor == None \notin Cursors
BY IngestionAssumption

(* What holds of the ingester that has just made a step, or has ended.      *)
Left(g) == /\ pc'[g] = "idle" => settled' = Covered'
           /\ pc'[g] # "idle" => AloneAt(g)'

LEMMA LoadCursorAlone ==
  ASSUME QInv, Alone, NEW g \in Ingesters, LoadCursor(g), \A h \in Ingesters : pc[h] = "idle"
  PROVE  Left(g)
<1>1. pc'[g] = "inspect" /\ base'[g] = cursor /\ settled' = settled /\ cursor' = cursor
  BY DEF QInv, IInv, TypeOK, LoadCursor, Goto, historyVars
<1>2. settled = Covered
  BY DEF Alone
<1> QED
  BY <1>1, <1>2 DEF Left, AloneAt, Covered, StoringStages

LEMMA InspectAlone ==
  ASSUME QInv, Alone, NEW g \in Ingesters, Inspect(g), AloneAt(g)
  PROVE  Left(g)
<1>1. pc'[g] = "read" /\ base'[g] = Validated(cursor) /\ settled' = settled /\ cursor' = cursor
  BY DEF QInv, IInv, TypeOK, Inspect, Goto, historyVars, AloneAt
<1>2. settled = Covered
  BY DEF AloneAt, Inspect
<1>3. Validated(cursor) = IF cursor = None THEN EmptyCursor ELSE cursor
  BY DEF Alone, OfFile, Validated
<1> QED
  BY <1>1, <1>2, <1>3 DEF Left, AloneAt, Covered, StoringStages

LEMMA ReadTailAlone ==
  ASSUME QInv, Alone, NEW g \in Ingesters, ReadTail(g), AloneAt(g)
  PROVE  Left(g)
<1> DEFINE n == base[g].offset
           done == Parse(base[g].pending, SubSeq(transcript, n + 1, Len(transcript))).done
<1>1. /\ batch'[g] = done
      /\ base'[g].offset = Len(transcript) /\ pc'[g] = "digest" /\ settled' = settled
      /\ Prefix(base'[g].offset) = transcript
      /\ Completed(transcript) = Completed(Prefix(n)) \cup batch'[g]
  BY ReadTailSound DEF QInv
<1>2. settled = Covered /\ base[g] = IF cursor = None THEN EmptyCursor ELSE cursor
  BY DEF AloneAt, ReadTail, StoringStages
<1>3. base[g] \in Cursors /\ Reading(g) /\ transcript' = transcript /\ cursor' = cursor
  BY DEF QInv, IInv, TypeOK, Sound, ReadTail, hostVars
<1>4. Completed(Prefix(n)) = Covered /\ Open(Prefix(n)) = base[g].pending
  BY <1>2, <1>3, EmptyExact DEF Reading, Exact, Covered
<1>5. done \cap Completed(Prefix(n)) = {}
  <2>1. n \in 0..Len(transcript)
    BY <1>3, CursorFields DEF Reading, QInv, IInv, TypeOK
  <2> QED
    BY <1>4, <2>1 DEF QInv, CompletedOnce
<1>6. cursor # None => cursor.offset <= Len(transcript)
  BY DEF Alone, OfFile
<1> HIDE DEF done
<1>7. settled' \cap batch'[g] = {} /\ Completed(transcript) = settled' \cup batch'[g]
  BY <1>1, <1>2, <1>4, <1>5
<1>8. SubSeq(transcript', 1, base'[g].offset) = transcript
  BY <1>1, <1>3 DEF Prefix
<1>9. Beyond(base[g])' /\ Exactly(Completed(Prefix(base[g].offset)), g)'
  BY <1>1, <1>3, <1>6, <1>7, <1>8 DEF Beyond, Exactly, Prefix
<1>10. settled' = Covered'
  BY <1>1, <1>2, <1>3 DEF Covered
<1> QED
  BY <1>1, <1>9, <1>10 DEF Left, AloneAt, StoringStages

LEMMA DigestAlone ==
  ASSUME QInv, Alone, NEW g \in Ingesters, Digest(g), AloneAt(g)
  PROVE  Left(g)
<1>1. /\ settled' = settled /\ pc'[g] = "load" /\ batch'[g] = batch[g]
      /\ next'[g].offset = base[g].offset /\ next'[g].digest = Prefix(base[g].offset)
      /\ transcript' = transcript /\ cursor' = cursor
  BY DigestSound DEF QInv, Digest, hostVars
<1>2. /\ settled = Covered
      /\ Beyond(base[g]) /\ Exactly(Completed(Prefix(base[g].offset)), g)
  BY DEF AloneAt, Digest
<1>3. base[g].offset <= Len(transcript)
  BY DEF QInv, IInv, Sound, Hashing, Digest
<1> QED
  BY <1>1, <1>2, <1>3 DEF Left, AloneAt, StoringStages, Covered, Beyond, OfFile, Exactly, Prefix

LEMMA ResolvingAlone ==
  ASSUME QInv, Alone, NEW g \in Ingesters, AloneAt(g),
         LoadProject(g) \/ InsertProject(g) \/ ReloadProject(g)
  PROVE  Left(g)
<1>1. /\ settled' = settled /\ cursor' = cursor /\ pc[g] \in StoringStages \ {"append"}
      /\ transcript' = transcript
      /\ \/ pc'[g] = "idle"
         \/ pc'[g] \in StoringStages /\ next'[g] = next[g] /\ batch'[g] = batch[g]
  BY ResolvingSound DEF QInv, OthersKept
<1>2. /\ settled = Covered
      /\ Beyond(next[g]) /\ OfFile(next[g]) /\ Exactly(Completed(next[g].digest), g)
  BY <1>1 DEF AloneAt
<1> QED
  BY <1>1, <1>2 DEF Left, AloneAt, StoringStages, Covered, Beyond, OfFile, Exactly, Prefix

LEMMA AppendOneAlone ==
  ASSUME QInv, Alone, NEW g \in Ingesters, AppendOne(g), AloneAt(g)
  PROVE  Left(g) /\ \A e \in erased' \cup pruned' : events'[e] = None
<1> PICK e \in batch[g] : /\ AppendEvent(e, held[g])
                          /\ batch' = [batch EXCEPT ![g] = @ \ {e}]
                          /\ settled' = settled \cup {e}
  BY DEF AppendOne
<1>1. /\ pc'[g] = "append" /\ next'[g] = next[g] /\ batch'[g] = batch[g] \ {e}
      /\ transcript' = transcript /\ cursor' = cursor /\ erased' = erased /\ pruned' = pruned
  BY DEF QInv, IInv, TypeOK, AppendOne, hostVars
<1>2. Beyond(next[g]) /\ OfFile(next[g]) /\ Exactly(Completed(next[g].digest), g)
  BY DEF AloneAt, AppendOne, StoringStages
<1>3. e \notin erased \cup pruned
  BY <1>2 DEF Exactly, QInv, DeletedSettled
<1>4. \A x \in erased \cup pruned : x \in EventIds
  BY DEF QInv, IInv, TypeOK
<1>5. \A x \in erased \cup pruned : events'[x] = None
  BY <1>3, <1>4 DEF AppendEvent, Alone, QInv, IInv, TypeOK, StoreTypeOK
<1>6. Exactly(Completed(next[g].digest), g)'
  BY <1>1, <1>2 DEF Exactly
<1> QED
  BY <1>1, <1>2, <1>5, <1>6 DEF Left, AloneAt, StoringStages, Beyond, OfFile, Prefix

LEMMA SaveCursorAlone ==
  ASSUME QInv, Alone, NEW g \in Ingesters, SaveCursor(g), AloneAt(g)
  PROVE  /\ Left(g) /\ (cursor' # None => OfFile(cursor)')
         /\ cursor # None => cursor'.offset >= cursor.offset
<1>1. /\ pc'[g] = "idle" /\ settled' = settled /\ cursor' = next[g] /\ transcript' = transcript
  BY ExitType DEF QInv, IInv, SaveCursor, hostVars, historyVars
<1>2. Beyond(next[g]) /\ OfFile(next[g]) /\ Exactly(Completed(next[g].digest), g) /\ batch[g] = {}
  BY DEF AloneAt, SaveCursor, StoringStages
<1>3. next[g] \in Cursors /\ cursor' # None /\ next[g].offset \in Nat
  BY <1>1, NoneNoCursor, CursorFields DEF QInv, IInv, TypeOK, SaveCursor
<1>4. cursor # None => cursor.offset \in Nat
  BY CursorFields DEF QInv, IInv, TypeOK
<1> QED
  BY <1>1, <1>2, <1>3, <1>4 DEF Left, Covered, Beyond, OfFile, Exactly, Prefix

LEMMA RefuseTailAlone ==
  ASSUME QInv, Alone, NEW g \in Ingesters, RefuseTail(g), AloneAt(g)
  PROVE  Left(g)
<1>1. pc'[g] = "idle" /\ settled' = settled /\ cursor' = cursor
  BY ExitType DEF QInv, IInv, RefuseTail, historyVars
<1>2. settled = Covered
  BY DEF AloneAt, RefuseTail
<1> QED
  BY <1>1, <1>2 DEF Left, Covered

LEMMA StepAlone ==
  ASSUME QInv, Alone, NEW g \in Ingesters, Step(g),
         \A h, i \in Ingesters : pc'[h] # "idle" /\ pc'[i] # "idle" => h = i
  PROVE  Alone'
<1>1. OthersKept(g)
  BY StepSound DEF QInv
<1>2. pc[g] # "idle" => AloneAt(g) /\ \A h \in Ingesters \ {g} : pc[h] = "idle"
  BY DEF Alone
<1>3. LoadCursor(g) => pc[g] = "idle" /\ pc'[g] # "idle"
  BY DEF LoadCursor, Goto, QInv, IInv, TypeOK
<1>4. ~LoadCursor(g) => pc[g] # "idle"
  BY DEF Step, Inspect, ReadTail, RefuseTail, Digest, LoadProject, InsertProject, ReloadProject,
     AppendOne, SaveCursor
<1>5. \A h \in Ingesters \ {g} : pc[h] = "idle" /\ pc'[h] = "idle"
  BY <1>1, <1>2, <1>3, <1>4 DEF OthersKept
<1>6. Left(g)
  BY <1>2, <1>3, <1>4, <1>5, LoadCursorAlone, InspectAlone, ReadTailAlone, RefuseTailAlone, DigestAlone,
     ResolvingAlone, AppendOneAlone, SaveCursorAlone DEF Step
<1>7. cursor' # None => OfFile(cursor)'
  <2>1. CASE SaveCursor(g)
    BY <1>2, <1>3, <1>4, <2>1, SaveCursorAlone DEF SaveCursor
  <2>2. CASE ~SaveCursor(g)
    <3>1. cursor' = cursor
      BY <2>2 DEF Step, LoadCursor, Inspect, ReadTail, RefuseTail, Digest, LoadProject, InsertProject,
         ReloadProject, AppendOne
    <3> QED
      BY <1>1, <3>1 DEF OthersKept, Alone, OfFile, Prefix
  <2> QED
    BY <2>1, <2>2
<1>8. \A e \in erased' \cup pruned' : events'[e] = None
  <2>1. CASE AppendOne(g)
    BY <1>2, <2>1, AppendOneAlone DEF AppendOne
  <2>2. CASE ~AppendOne(g)
    <3>1. UNCHANGED <<events, erased, pruned>>
      BY <2>2 DEF Step, LoadCursor, Inspect, ReadTail, RefuseTail, Digest, LoadProject, Resolved,
         InsertProject, InsertMapping, ReloadProject, SaveCursor, historyVars, storeVars
    <3> QED
      BY <3>1 DEF Alone
  <2> QED
    BY <2>1, <2>2
<1>9. \A h \in Ingesters : pc'[h] # "idle" => AloneAt(h)'
  BY <1>5, <1>6 DEF Left
<1>10. (\A h \in Ingesters : pc'[h] = "idle") => settled' = Covered'
  BY <1>6 DEF Left
<1> QED
  BY <1>7, <1>8, <1>9, <1>10 DEF Alone

LEMMA BystanderAlone ==
  ASSUME QInv, TypeOK', Alone, Grows, UNCHANGED <<cursor, runVars, settled>>,
         \A e \in erased' \cup pruned' : events'[e] = None
  PROVE  Alone'
<1>1. UNCHANGED <<cursor, pc, base, next, batch, held, settled>>
  BY DEF runVars
<1>2. ASSUME NEW c \in Cursors, c.offset <= Len(transcript)
      PROVE  c.offset <= Len(transcript') /\ SubSeq(transcript', 1, c.offset) = Prefix(c.offset)
  <2>1. c.offset \in 0..Len(transcript) /\ Len(transcript) \in Nat /\ Len(transcript') \in Nat
    BY <1>2, CursorFields DEF QInv, IInv, TypeOK
  <2>2. Len(transcript') >= Len(transcript) /\ Prefix(c.offset)' = Prefix(c.offset)
    BY <2>1 DEF Grows
  <2> QED
    BY <2>1, <2>2 DEF Prefix
<1>3. cursor' # None => OfFile(cursor)'
  <2>1. cursor # None => cursor \in Cursors
    BY DEF QInv, IInv, TypeOK
  <2> QED
    BY <1>1, <1>2, <2>1 DEF Alone, OfFile, Prefix
<1>4. ASSUME NEW g \in Ingesters, pc'[g] # "idle"
      PROVE  AloneAt(g)'
  <2>1. AloneAt(g) /\ Sound(g)
    BY <1>1, <1>4 DEF Alone, QInv, IInv
  <2>2. pc[g] = "digest" => SubSeq(transcript', 1, base[g].offset) = Prefix(base[g].offset)
    BY <1>2, <2>1 DEF Sound, Hashing, QInv, IInv, TypeOK
  <2>3. pc[g] = "digest" => Beyond(base[g])' /\ Exactly(Completed(Prefix(base[g].offset)), g)'
    BY <1>1, <2>1, <2>2 DEF AloneAt, Beyond, Exactly, Prefix
  <2>4. pc[g] \in StoringStages => OfFile(next[g])'
    <3>1. pc[g] \in StoringStages => next[g] \in Cursors /\ OfFile(next[g])
      BY <2>1 DEF AloneAt, StoringStages, QInv, IInv, TypeOK
    <3> QED
      BY <1>1, <1>2, <3>1 DEF OfFile, Prefix
  <2>5. pc[g] \in StoringStages => Beyond(next[g])' /\ Exactly(Completed(next[g].digest), g)'
    BY <1>1, <2>1 DEF AloneAt, Beyond, Exactly
  <2>6. Covered' = Covered
    BY <1>1 DEF Covered
  <2> QED
    BY <1>1, <2>1, <2>3, <2>4, <2>5, <2>6 DEF AloneAt
<1>5. Covered' = Covered
  BY <1>1 DEF Covered
<1> QED
  BY <1>1, <1>3, <1>4, <1>5 DEF Alone

LEMMA AloneStep ==
  ASSUME QInv, IInv', [QuietNext]_quietVars, ~disturbed'
  PROVE  Alone'
<1>1. TypeOK /\ TypeOK'
  BY DEF QInv, IInv
<1>2. Alone
  BY <1>1, Undisturbed DEF QInv
<1>3. CASE UNCHANGED vars
  <2>1. Grows
    BY <1>1, <1>3, SameGrows DEF vars
  <2>2. UNCHANGED <<cursor, runVars, settled, erased, pruned, events>>
    BY <1>3 DEF vars, storeVars
  <2>3. \A e \in erased' \cup pruned' : events'[e] = None
    BY <1>2, <2>2 DEF Alone
  <2> QED
    BY <1>1, <1>2, <2>1, <2>2, <2>3, BystanderAlone
<1>4. CASE \E g \in Ingesters : Step(g) /\ ~UNCHANGED vars
  BY <1>1, <1>2, <1>4, Undisturbed, StepAlone
<1>5. CASE Write
  <2>1. UNCHANGED <<cursor, runVars, settled, erased, pruned, events>>
    BY <1>5 DEF Write, historyVars, storeVars
  <2>2. \A e \in erased' \cup pruned' : events'[e] = None
    BY <1>2, <2>1 DEF Alone
  <2> QED
    BY <1>1, <1>2, <1>5, <2>1, <2>2, WriteGrows, BystanderAlone
<1>6. CASE Forget
  <2>1. UNCHANGED <<cursor, runVars, settled, transcript>>
    BY <1>6 DEF Forget, hostVars
  <2>2. \A e \in erased' \cup pruned' : events'[e] = None
    BY <1>1, <1>2, <1>6 DEF Forget, EraseProject, EventsOf, Alone, TypeOK, StoreTypeOK
  <2> QED
    BY <1>1, <1>2, <2>1, <2>2, SameGrows, BystanderAlone
<1>7. CASE Prune
  <2>1. UNCHANGED <<cursor, runVars, settled, transcript>>
    BY <1>7 DEF Prune, hostVars
  <2>2. \A e \in erased' \cup pruned' : events'[e] = None
    BY <1>1, <1>2, <1>7 DEF Prune, DeleteBatch, Alone, TypeOK, StoreTypeOK
  <2> QED
    BY <1>1, <1>2, <2>1, <2>2, SameGrows, BystanderAlone
<1> QED
  BY <1>1, <1>3, <1>4, <1>5, <1>6, <1>7, Undisturbed

LEMMA QStep == QInv /\ [QuietNext]_quietVars => QInv'
<1> SUFFICES ASSUME QInv, [QuietNext]_quietVars
             PROVE  QInv'
  OBVIOUS
<1>1. IInv' /\ CompletedOnce' /\ DeletedSettled'
  BY IStep, OnceStep, DeletedStep DEF QInv, IInv
<1>2. ~disturbed' => Alone'
  BY <1>1, AloneStep
<1> QED
  BY <1>1, <1>2 DEF QInv

LEMMA QInit == QuietInit => QInv
<1> SUFFICES ASSUME QuietInit
             PROVE  QInv
  OBVIOUS
<1> USE DEF QuietInit, Init, StoreInit
<1>1. IInv
  BY IInit
<1>2. CompletedOnce
  <2>1. transcript = <<>> /\ Len(<<>>) = 0 /\ <<>> \in Seq(Lines) /\ 0..0 = {0}
    BY EmptySeq
  <2>2. SubSeq(<<>>, 0 + 1, 0) = <<>>
    BY <2>1, SliceEmpty
  <2> QED
    BY <2>1, <2>2, NothingDone, NothingCovered DEF CompletedOnce, Prefix
<1>3. DeletedSettled /\ Alone
  BY DEF DeletedSettled, Alone, Covered
<1> QED
  BY <1>1, <1>2, <1>3 DEF QInv

LEMMA AdvanceStep == QInv /\ QInv' /\ [QuietNext]_quietVars
                     => [~disturbed' /\ cursor # None => cursor'.offset >= cursor.offset]_quietVars
<1> SUFFICES ASSUME QInv, QInv', [QuietNext]_quietVars, ~disturbed', cursor # None
             PROVE  cursor'.offset >= cursor.offset
  OBVIOUS
<1>1. TypeOK /\ TypeOK' /\ cursor.offset \in Nat
  BY CursorFields DEF QInv, IInv, TypeOK
<1>2. CASE cursor' = cursor
  BY <1>1, <1>2
<1>3. CASE cursor' # cursor
  <2>1. ~UNCHANGED vars
    BY <1>3 DEF vars
  <2>2. PICK g \in Ingesters : Step(g)
    BY <1>1, <1>3, <2>1, Undisturbed DEF Write, Forget, Prune
  <2>3. SaveCursor(g)
    BY <1>3, <2>2 DEF Step, LoadCursor, Inspect, ReadTail, RefuseTail, Digest, LoadProject, InsertProject,
       ReloadProject, AppendOne
  <2>4. Alone /\ AloneAt(g)
    BY <1>1, <2>3, Undisturbed DEF QInv, Alone, SaveCursor
  <2> QED
    BY <2>3, <2>4, SaveCursorAlone
<1> QED
  BY <1>2, <1>3

(* The invariant of undisturbed ingesters, kept by every step of the others. *)
THEOREM QuietInvariant == QuietSpec => []QInv
BY QInit, QStep, PTL DEF QuietSpec

(* Undisturbed, an event deleted by a forget or by retention stays away.    *)
THEOREM NoResurrection == QuietSpec => []QuietNoResurrection
<1>1. QInv => QuietNoResurrection
  BY DEF QInv, Alone, QuietNoResurrection
<1> QED
  BY <1>1, QuietInvariant, PTL

(* Undisturbed, a stored checkpoint never moves back.                       *)
THEOREM CursorAdvances == QuietSpec => QuietCursorAdvances
<1>1. QInv /\ QInv' /\ [QuietNext]_quietVars
      => [~disturbed' /\ cursor # None => cursor'.offset >= cursor.offset]_quietVars
  BY AdvanceStep
<1> QED
  BY <1>1, QuietInvariant, PTL DEF QuietSpec, QuietCursorAdvances
=============================================================================
