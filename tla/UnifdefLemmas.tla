---------------------------- MODULE UnifdefLemmas ----------------------------
(***************************************************************************)
(* What the proofs about unifdef rest on: how the stack of #if states, the *)
(* groups of the file and the groups of the output correspond; what each   *)
(* step and each family of transition functions does to the machine; what  *)
(* the table says; what the preprocessor makes of one line; and that what  *)
(* parseline says of a condition is right (LineTypeIsRight).               *)
(*                                                                         *)
(* The stack of #if states says how far each open group of the file is in  *)
(* the output, and with which of its branches read (Corresponds).  A line  *)
(* opens a group, goes on with it or closes it, on both sides: for every   *)
(* line and every verdict on it that is right, the functions of the table  *)
(* keep the correspondence, or the line is one to fail for (LineKeeps).    *)
(* What was written before makes no difference to the machine              *)
(* (ApplyBehind), so this holds of the whole file as well (FileKept).      *)
(***************************************************************************)
EXTENDS UnifdefLines, RecursionLemmas, SequenceTheorems

Group == [on : BOOLEAN, done : BOOLEAN, else : BOOLEAN]

\* Cutting off the last element, and changing it.
LEMMA FrontFacts ==
    ASSUME NEW S, NEW s \in Seq(S), Len(s) >= 1
    PROVE  /\ Front(s) \in Seq(S) /\ Len(Front(s)) = Len(s) - 1
           /\ \A i \in 1..(Len(s) - 1) : Front(s)[i] = s[i]
           /\ Last(s) \in S
           /\ s = Append(Front(s), Last(s))
<1>1. Len(s) \in Nat /\ \A i \in 1..Len(s) : s[i] \in S
  OBVIOUS
<1> DEFINE n == Len(s) - 1
           f == SubSeq(s, 1, n)
<1>2. n \in Nat /\ \A i \in 1..n : s[i] \in S
  BY <1>1
<1>3. f \in Seq(S) /\ Len(f) = n /\ \A i \in 1..n : f[i] = s[i]
  <2> HIDE DEF n
  <2>1. /\ f \in Seq(S) /\ Len(f) = IF 1 <= n THEN n - 1 + 1 ELSE 0
        /\ \A i \in 1..(n - 1 + 1) : f[i] = s[1 + i - 1]
    BY <1>2, SubSeqProperties
  <2>2. QED
    BY <1>2, <2>1
<1>4. s[Len(s)] \in S
  BY <1>1
<1>5. s = Append(f, s[Len(s)])
  <2> DEFINE t == Append(f, s[Len(s)])
  <2>1. t \in Seq(S) /\ Len(t) = Len(s)
    BY <1>1, <1>3, <1>4
  <2>2. \A i \in 1..Len(s) : s[i] = t[i]
    BY <1>1, <1>3, <1>4
  <2> HIDE DEF t
  <2>3. s = t
    BY <2>1, <2>2, SeqEqual
  <2>4. QED
    BY <2>3 DEF t
<1>6. QED
  BY <1>3, <1>4, <1>5 DEF Front, Last

\* Putting an element at the end.
LEMMA AppendFacts ==
    ASSUME NEW S, NEW s \in Seq(S), NEW x \in S
    PROVE  /\ Append(s, x) \in Seq(S) /\ Len(Append(s, x)) = Len(s) + 1
           /\ \A i \in 1..Len(s) : Append(s, x)[i] = s[i]
           /\ Append(s, x)[Len(s) + 1] = x
           /\ Front(Append(s, x)) = s /\ Last(Append(s, x)) = x
<1> DEFINE t == Append(s, x)
<1>1. t \in Seq(S) /\ Len(t) = Len(s) + 1 /\ (\A i \in 1..Len(s) : t[i] = s[i]) /\ t[Len(s) + 1] = x
  OBVIOUS
<1> HIDE DEF t
<1>2. Front(t) \in Seq(S) /\ Len(Front(t)) = Len(t) - 1 /\ \A i \in 1..(Len(t) - 1) : Front(t)[i] = t[i]
  BY <1>1, FrontFacts
<1>3. Front(t) = s
  BY <1>1, <1>2, SeqEqual
<1>4. Last(t) = x
  BY <1>1 DEF Last
<1>5. QED
  BY <1>1, <1>3, <1>4 DEF t

\* Changing the last element is cutting it off and putting another one there.
LEMMA ExceptLast ==
    ASSUME NEW S, NEW s \in Seq(S), Len(s) >= 1, NEW x \in S
    PROVE  [s EXCEPT ![Len(s)] = x] = Append(Front(s), x)
<1> DEFINE n == Len(s)
           e == [s EXCEPT ![n] = x]
           t == Append(Front(s), x)
<1>1. n \in Nat /\ n \in 1..n
  OBVIOUS
<1>2. e \in Seq(S) /\ Len(e) = n /\ \A j \in 1..n : e[j] = IF j = n THEN x ELSE s[j]
  BY <1>1, ExceptSeq
<1>3. Front(s) \in Seq(S) /\ Len(Front(s)) = n - 1 /\ \A i \in 1..(n - 1) : Front(s)[i] = s[i]
  BY FrontFacts
<1>4. t \in Seq(S) /\ Len(t) = n /\ (\A i \in 1..(n - 1) : t[i] = s[i]) /\ t[n] = x
  <2> HIDE DEF n, e
  <2>1. t \in Seq(S) /\ Len(t) = Len(Front(s)) + 1 /\ (\A i \in 1..Len(Front(s)) : t[i] = Front(s)[i])
        /\ t[Len(Front(s)) + 1] = x
    BY <1>3
  <2>2. QED
    BY <1>1, <1>3, <2>1
<1> HIDE DEF n, e, t
<1>5. \A j \in 1..n : e[j] = t[j]
  BY <1>1, <1>2, <1>4
<1>6. e = t
  BY <1>2, <1>4, <1>5, SeqEqual
<1>7. QED
  BY <1>6 DEF n, e, t

-----------------------------------------------------------------------------
(* The three stacks *)

\* The states in which the group is in the output, too.
Emitting == {"PASS_MIDDLE", "FALSE_MIDDLE", "TRUE_MIDDLE", "PASS_ELSE"}
Inside == IfStates \ {"OUTSIDE"}

\* What a state says of the group g of the file and the group o of the output,
\* where all of the groups around are printed, and where one is not.
Level(s, g, o) ==
    CASE s = "TRUE_PREFIX" -> g.on /\ g.done /\ ~g.else
      [] s = "FALSE_PREFIX" -> ~g.on /\ ~g.done /\ ~g.else
      [] s = "PASS_MIDDLE" -> (g.on <=> o.on) /\ (g.done <=> o.done) /\ ~g.else /\ ~o.else
      [] s = "FALSE_MIDDLE" -> ~g.on /\ (g.done <=> o.done) /\ ~g.else /\ ~o.else
      [] s = "TRUE_MIDDLE" -> (g.on <=> o.on) /\ g.done /\ ~g.else /\ o.else
      [] s = "PASS_ELSE" -> (g.on <=> o.on) /\ g.else /\ o.else
      [] s = "TRUE_ELSE" -> g.on /\ g.else
      [] s = "FALSE_ELSE" -> ~g.on /\ g.else
      [] s = "FALSE_TRAILER" -> ~g.on /\ g.done /\ ~g.else
Dead(s, g) == (s = "FALSE_TRAILER" /\ ~g.else) \/ (s = "FALSE_ELSE" /\ g.else)

AllPrint(st) == \A j \in 1..Len(st) : st[j] \in Printing
PrintsBelow(st, k) == \A j \in 1..(k - 1) : st[j] \in Printing
OnUpTo(gs, k) == \A j \in 1..k : gs[j].on

\* h[k] is the level of the output at level k of the file; n levels, and top
\* of the output.
Heights(n, st, top, h) ==
    /\ h[1] = 1 /\ h[n] = top
    /\ \A k \in 1..n : h[k] \in Nat /\ h[k] >= 1
    /\ \A k \in 1..n : \A j \in 1..k : h[j] <= h[k]
    /\ \A k \in 1..n : k # 1 => h[k] = IF st[k] \in Emitting THEN h[k - 1] + 1 ELSE h[k - 1]
Levels(n, st, ig, og, h) ==
    \A k \in 1..n : k # 1 =>
        IF PrintsBelow(st, k) THEN Level(st[k], ig[k], og[h[k]]) ELSE Dead(st[k], ig[k])
Hidden(n, st, ig) ==
    \A k \in 1..n : st[k] \notin Printing => ~OnUpTo(ig, k)
SameText(n, st, ig, og, h) ==
    \A k \in 1..n : PrintsBelow(st, k + 1) => (OnUpTo(ig, k) <=> OnUpTo(og, h[k]))
Stacks(st, ig, og, h) ==
    /\ st \in Seq(IfStates) /\ ig \in Seq(Group) /\ og \in Seq(Group) /\ h \in Seq(Nat)
    /\ Len(st) >= 1 /\ Len(ig) = Len(st) /\ Len(h) = Len(st)
    /\ st[1] = "OUTSIDE" /\ ig[1] = WholeFile /\ og[1] = WholeFile
    /\ \A k \in 1..Len(st) : k # 1 => st[k] \in Inside
    /\ Heights(Len(st), st, Len(og), h)
    /\ Levels(Len(st), st, ig, og, h)
    /\ Hidden(Len(st), st, ig)
    /\ SameText(Len(st), st, ig, og, h)
Corresponds(st, ig, og) == \E h : Stacks(st, ig, og, h)

Agree(n, s, t) == \A i \in 1..n : s[i] = t[i]

\* The level on top fits the groups around.
Fits(st, s, g, o) == IF AllPrint(st) THEN Level(s, g, o) ELSE Dead(s, g)

\* The state on top prints exactly if all of them do, and then the compiler
\* reads here what it reads there; otherwise it reads nothing.
LEMMA TopDecides ==
    ASSUME NEW st, NEW ig, NEW og, Corresponds(st, ig, og)
    PROVE  /\ Last(st) \in Printing <=> AllPrint(st)
           /\ Last(st) \in Printing => ((\A i \in DOMAIN ig : ig[i].on) <=> (\A i \in DOMAIN og : og[i].on))
           /\ Last(st) \notin Printing => ~(\A i \in DOMAIN ig : ig[i].on)
<1>1. PICK h : Stacks(st, ig, og, h)
  BY DEF Corresponds
<1> DEFINE n == Len(st)
<1>2. n \in Nat \ {0} /\ Last(st) = st[n] /\ DOMAIN ig = 1..n /\ DOMAIN og = 1..h[n] /\ n \in 1..n
  BY <1>1 DEF Stacks, Heights, Last
<1>3. (st[n] \in Printing) <=> AllPrint(st)
  <2>1. AllPrint(st) => st[n] \in Printing
    BY <1>2 DEF AllPrint
  <2>2. ASSUME st[n] \in Printing PROVE AllPrint(st)
    <3>1. CASE n = 1
      BY <2>2, <3>1 DEF AllPrint
    <3>2. CASE n # 1
      <4>1. ~Dead(st[n], ig[n])
        BY <2>2 DEF Dead, Printing
      <4>2. PrintsBelow(st, n)
        BY <1>1, <1>2, <3>2, <4>1 DEF Stacks, Levels
      <4>3. QED
        BY <2>2, <4>2, <1>2 DEF PrintsBelow, AllPrint
    <3>3. QED
      BY <3>1, <3>2
  <2>3. QED
    BY <2>1, <2>2
<1>4. ASSUME st[n] \in Printing PROVE (\A i \in DOMAIN ig : ig[i].on) <=> (\A i \in DOMAIN og : og[i].on)
  <2>1. PrintsBelow(st, n + 1)
    BY <1>2, <1>3, <1>4 DEF AllPrint, PrintsBelow
  <2>2. OnUpTo(ig, n) <=> OnUpTo(og, h[n])
    BY <1>1, <1>2, <2>1 DEF Stacks, SameText
  <2>3. QED
    BY <1>2, <2>2 DEF OnUpTo
<1>5. ASSUME st[n] \notin Printing PROVE ~(\A i \in DOMAIN ig : ig[i].on)
  <2>1. ~OnUpTo(ig, n)
    BY <1>1, <1>2, <1>5 DEF Stacks, Hidden
  <2>2. QED
    BY <1>2, <2>1 DEF OnUpTo
<1>6. QED
  BY <1>2, <1>3, <1>4, <1>5

SameBelow(n, st, ig, og, h, st2, ig2, og2, h2) ==
    /\ Agree(n, st, st2) /\ Agree(n, ig, ig2) /\ Agree(n, h, h2)
    /\ \A k \in 1..n : h[k] \in Nat /\ h[k] >= 1 /\ Agree(h[k], og, og2)

\* What is said of the levels does not look above them.
LEMMA BelowAgree ==
    ASSUME NEW n \in Nat, NEW st, NEW ig, NEW og, NEW h, NEW st2, NEW ig2, NEW og2, NEW h2,
           SameBelow(n, st, ig, og, h, st2, ig2, og2, h2)
    PROVE  /\ \A k \in 1..n : PrintsBelow(st, k) <=> PrintsBelow(st2, k)
           /\ \A k \in 1..n : PrintsBelow(st, k + 1) <=> PrintsBelow(st2, k + 1)
           /\ \A k \in 1..n : OnUpTo(ig, k) <=> OnUpTo(ig2, k)
           /\ \A k \in 1..n : OnUpTo(og, h[k]) <=> OnUpTo(og2, h2[k])
<1>1. ASSUME NEW k \in 1..n PROVE PrintsBelow(st, k) <=> PrintsBelow(st2, k)
  BY DEF PrintsBelow, Agree, SameBelow
<1>2. ASSUME NEW k \in 1..n PROVE PrintsBelow(st, k + 1) <=> PrintsBelow(st2, k + 1)
  BY DEF PrintsBelow, Agree, SameBelow
<1>3. ASSUME NEW k \in 1..n PROVE OnUpTo(ig, k) <=> OnUpTo(ig2, k)
  BY DEF OnUpTo, Agree, SameBelow
<1>4. ASSUME NEW k \in 1..n PROVE OnUpTo(og, h[k]) <=> OnUpTo(og2, h2[k])
  <2>1. h2[k] = h[k]
    BY DEF Agree, SameBelow
  <2>2. \A i \in 1..h[k] : og[i] = og2[i]
    BY DEF Agree, SameBelow
  <2>3. QED
    BY <2>1, <2>2 DEF OnUpTo
<1>5. QED
  BY <1>1, <1>2, <1>3, <1>4

\* So two collections of stacks that agree up to a level say the same up to it.
LEMMA LevelsBelow ==
    ASSUME NEW n \in Nat, NEW st, NEW ig, NEW og, NEW h, NEW st2, NEW ig2, NEW og2, NEW h2,
           SameBelow(n, st, ig, og, h, st2, ig2, og2, h2)
    PROVE  /\ Levels(n, st, ig, og, h) <=> Levels(n, st2, ig2, og2, h2)
           /\ Hidden(n, st, ig) <=> Hidden(n, st2, ig2)
           /\ SameText(n, st, ig, og, h) <=> SameText(n, st2, ig2, og2, h2)
<1>1. /\ \A k \in 1..n : PrintsBelow(st, k) <=> PrintsBelow(st2, k)
      /\ \A k \in 1..n : PrintsBelow(st, k + 1) <=> PrintsBelow(st2, k + 1)
      /\ \A k \in 1..n : OnUpTo(ig, k) <=> OnUpTo(ig2, k)
      /\ \A k \in 1..n : OnUpTo(og, h[k]) <=> OnUpTo(og2, h2[k])
  BY BelowAgree
<1>2. \A k \in 1..n : st2[k] = st[k] /\ ig2[k] = ig[k] /\ og2[h2[k]] = og[h[k]]
  BY DEF Agree, SameBelow
<1>3. Levels(n, st, ig, og, h) <=> Levels(n, st2, ig2, og2, h2)
  <2> DEFINE At(k) == IF PrintsBelow(st, k) THEN Level(st[k], ig[k], og[h[k]]) ELSE Dead(st[k], ig[k])
             At2(k) == IF PrintsBelow(st2, k) THEN Level(st2[k], ig2[k], og2[h2[k]]) ELSE Dead(st2[k], ig2[k])
  <2>1. ASSUME NEW k \in 1..n PROVE At(k) <=> At2(k)
    <3>1. st2[k] = st[k] /\ ig2[k] = ig[k] /\ og2[h2[k]] = og[h[k]]
      BY <1>2
    <3>2. PrintsBelow(st, k) <=> PrintsBelow(st2, k)
      BY <1>1
    <3>3. CASE PrintsBelow(st, k)
      BY <3>1, <3>2, <3>3
    <3>4. CASE ~PrintsBelow(st, k)
      BY <3>1, <3>2, <3>4
    <3>5. QED
      BY <3>3, <3>4
  <2>2. (\A k \in 1..n : k # 1 => At(k)) <=> (\A k \in 1..n : k # 1 => At2(k))
    BY <2>1
  <2>3. QED
    BY <2>2 DEF Levels
<1>4. Hidden(n, st, ig) <=> Hidden(n, st2, ig2)
  BY <1>1, <1>2 DEF Hidden
<1>5. SameText(n, st, ig, og, h) <=> SameText(n, st2, ig2, og2, h2)
  BY <1>1 DEF SameText
<1>6. QED
  BY <1>3, <1>4, <1>5

\* One more level: what is to be shown of it is what Fits says.
LEMMA LevelOnTop ==
    ASSUME NEW n \in Nat, n >= 1, NEW st, NEW ig, NEW og, NEW h,
           NEW og1, NEW s, NEW g, NEW o, NEW low \in Nat, low >= 1, NEW top \in Nat,
           st[n + 1] = s, ig[n + 1] = g, h[n] = low, h[n + 1] = top,
           Agree(low, og1, og),
           Levels(n, st, ig, og, h), Hidden(n, st, ig), SameText(n, st, ig, og, h),
           IF s \in Emitting THEN top = low + 1 /\ og[top] = o ELSE top = low,
           s \in Inside, g \in Group, o \in Group,
           IF \A j \in 1..n : st[j] \in Printing THEN Level(s, g, o) ELSE Dead(s, g)
    PROVE  /\ Levels(n + 1, st, ig, og, h)
           /\ Hidden(n + 1, st, ig)
           /\ SameText(n + 1, st, ig, og, h)
<1>1. PrintsBelow(st, n + 1) <=> \A j \in 1..n : st[j] \in Printing
  BY DEF PrintsBelow
<1>2. PrintsBelow(st, n + 1 + 1) <=> (PrintsBelow(st, n + 1) /\ s \in Printing)
  <2>1. \A j \in 1..(n + 1) : j = n + 1 \/ j \in 1..n
    OBVIOUS
  <2>2. 1..n \subseteq 1..(n + 1) /\ n + 1 \in 1..(n + 1) /\ n + 1 + 1 - 1 = n + 1
    OBVIOUS
  <2>3. PrintsBelow(st, n + 1 + 1) <=> \A j \in 1..(n + 1) : st[j] \in Printing
    BY <2>2 DEF PrintsBelow
  <2>4. QED
    BY <1>1, <2>1, <2>2, <2>3
<1>3. OnUpTo(ig, n + 1) <=> (OnUpTo(ig, n) /\ g.on)
  BY DEF OnUpTo
<1>4. \A k \in 1..(n + 1) : k = n + 1 \/ k \in 1..n
  OBVIOUS
<1>5. s \in Printing \cap Emitting => (OnUpTo(og, top) <=> (OnUpTo(og, low) /\ o.on))
  BY DEF OnUpTo
<1>6. Levels(n + 1, st, ig, og, h)
  <2> SUFFICES ASSUME NEW k \in 1..(n + 1), k # 1
               PROVE  IF PrintsBelow(st, k) THEN Level(st[k], ig[k], og[h[k]]) ELSE Dead(st[k], ig[k])
    BY DEF Levels
  <2>1. CASE k = n + 1
    <3>1. st[k] = s /\ ig[k] = g /\ h[k] = top
      BY <2>1
    <3>2. Level(s, g, o) => Level(s, g, og[top])
      BY DEF Level, Emitting, Inside, IfStates
    <3>3. CASE PrintsBelow(st, k)
      BY <2>1, <3>1, <3>2, <3>3, <1>1
    <3>4. CASE ~PrintsBelow(st, k)
      BY <2>1, <3>1, <3>4, <1>1
    <3>5. QED
      BY <3>3, <3>4
  <2>2. CASE k \in 1..n
    BY <2>2 DEF Levels
  <2>3. QED
    BY <2>1, <2>2, <1>4
<1>7. Hidden(n + 1, st, ig)
  <2> SUFFICES ASSUME NEW k \in 1..(n + 1), st[k] \notin Printing PROVE ~OnUpTo(ig, k)
    BY DEF Hidden
  <2>1. CASE k = n + 1
    <3>1. CASE \A j \in 1..n : st[j] \in Printing
      <4>1. Level(s, g, o) /\ s \notin Printing
        BY <2>1, <3>1
      <4>2. ~g.on
        BY <4>1 DEF Level, Printing, Inside, IfStates
      <4>3. QED
        BY <2>1, <4>2, <1>3
    <3>2. CASE ~ \A j \in 1..n : st[j] \in Printing
      <4>1. PICK j \in 1..n : st[j] \notin Printing
        BY <3>2
      <4>2. ~OnUpTo(ig, j)
        BY <4>1 DEF Hidden
      <4>3. ~OnUpTo(ig, n)
        BY <4>2 DEF OnUpTo
      <4>4. QED
        BY <2>1, <4>3, <1>3
    <3>3. QED
      BY <3>1, <3>2
  <2>2. CASE k \in 1..n
    BY <2>2 DEF Hidden
  <2>3. QED
    BY <2>1, <2>2, <1>4
<1>8. SameText(n + 1, st, ig, og, h)
  <2> SUFFICES ASSUME NEW k \in 1..(n + 1), PrintsBelow(st, k + 1)
               PROVE  OnUpTo(ig, k) <=> OnUpTo(og, h[k])
    BY DEF SameText
  <2>1. CASE k = n + 1
    <3>1. Level(s, g, o) /\ s \in Printing /\ PrintsBelow(st, n + 1)
      BY <2>1, <1>1, <1>2
    <3>2. OnUpTo(ig, n) <=> OnUpTo(og, low)
      BY <3>1 DEF SameText
    <3>3. CASE s \in Emitting
      <4>1. g.on <=> o.on
        BY <3>1, <3>3 DEF Level, Emitting, Printing
      <4>2. QED
        BY <2>1, <3>1, <3>2, <3>3, <4>1, <1>3, <1>5
    <3>4. CASE s \notin Emitting
      <4>1. g.on
        BY <3>1, <3>4 DEF Level, Emitting, Printing, Inside
      <4>2. QED
        BY <2>1, <3>2, <3>4, <4>1, <1>3
    <3>5. QED
      BY <3>3, <3>4
  <2>2. CASE k \in 1..n
    BY <2>2 DEF SameText
  <2>3. QED
    BY <2>1, <2>2, <1>4
<1>9. QED
  BY <1>6, <1>7, <1>8

\* The heights, too, look only at the levels they are about.
LEMMA HeightsAgree ==
    ASSUME NEW n \in Nat, n >= 1, NEW st, NEW h, NEW st2, NEW h2, NEW top, Agree(n, st, st2), Agree(n, h, h2),
           Heights(n, st, top, h)
    PROVE  Heights(n, st2, top, h2)
<1>1. h2[1] = 1 /\ h2[n] = top
  BY DEF Heights, Agree
<1>2. \A k \in 1..n : h2[k] \in Nat /\ h2[k] >= 1
  BY DEF Heights, Agree
<1>3. \A k \in 1..n : \A j \in 1..k : h2[j] <= h2[k]
  BY DEF Heights, Agree
<1>4. \A k \in 1..n : k # 1 => h2[k] = IF st2[k] \in Emitting THEN h2[k - 1] + 1 ELSE h2[k - 1]
  <2> SUFFICES ASSUME NEW k \in 1..n, k # 1
               PROVE  h2[k] = IF st2[k] \in Emitting THEN h2[k - 1] + 1 ELSE h2[k - 1]
    OBVIOUS
  <2>1. k - 1 \in 1..n
    OBVIOUS
  <2>2. h2[k] = h[k] /\ h2[k - 1] = h[k - 1] /\ st2[k] = st[k]
    BY <2>1 DEF Agree
  <2>3. QED
    BY <2>2 DEF Heights
<1>5. QED
  BY <1>1, <1>2, <1>3, <1>4 DEF Heights

\* The height of one more level.
LEMMA HeightOnTop ==
    ASSUME NEW n \in Nat, n >= 1, NEW st, NEW h, NEW low, NEW top,
           Heights(n, st, low, h), h[n + 1] = top,
           top = IF st[n + 1] \in Emitting THEN low + 1 ELSE low
    PROVE  Heights(n + 1, st, top, h)
<1>1. \A k \in 1..(n + 1) : k = n + 1 \/ k \in 1..n
  OBVIOUS
<1>2. low \in Nat /\ low >= 1 /\ h[n] = low /\ top \in Nat /\ top >= low
  BY DEF Heights
<1>3. \A k \in 1..n : h[k] <= low /\ h[k] \in Nat /\ h[k] >= 1
  BY DEF Heights
<1>4. \A k \in 1..(n + 1) : h[k] \in Nat /\ h[k] >= 1
  BY <1>1, <1>2, <1>3
<1>5. \A k \in 1..(n + 1) : \A j \in 1..k : h[j] <= h[k]
  <2> SUFFICES ASSUME NEW k \in 1..(n + 1), NEW j \in 1..k PROVE h[j] <= h[k]
    OBVIOUS
  <2>1. CASE k \in 1..n
    BY <2>1 DEF Heights
  <2>2. CASE k = n + 1 /\ j = n + 1
    BY <2>2, <1>2
  <2>3. CASE k = n + 1 /\ j \in 1..n
    BY <2>3, <1>2, <1>3
  <2>4. QED
    BY <2>1, <2>2, <2>3, <1>1
<1>6. \A k \in 1..(n + 1) : k # 1 => h[k] = IF st[k] \in Emitting THEN h[k - 1] + 1 ELSE h[k - 1]
  <2> SUFFICES ASSUME NEW k \in 1..(n + 1), k # 1
               PROVE  h[k] = IF st[k] \in Emitting THEN h[k - 1] + 1 ELSE h[k - 1]
    OBVIOUS
  <2>1. CASE k = n + 1
    BY <2>1, <1>2
  <2>2. CASE k \in 1..n
    BY <2>2 DEF Heights
  <2>3. QED
    BY <2>1, <2>2, <1>1
<1>7. h[1] = 1
  BY DEF Heights
<1>8. QED
  BY <1>4, <1>5, <1>6, <1>7 DEF Heights

\* The heights without the level on top.
LEMMA HeightsBelow ==
    ASSUME NEW n \in Nat, n >= 1, NEW st, NEW h, NEW top, Heights(n + 1, st, top, h)
    PROVE  /\ Heights(n, st, h[n], h) /\ h[n] \in Nat /\ h[n] >= 1
           /\ top = IF st[n + 1] \in Emitting THEN h[n] + 1 ELSE h[n]
<1>1. 1..n \subseteq 1..(n + 1) /\ n \in 1..n /\ n + 1 \in 1..(n + 1) /\ n + 1 # 1 /\ n + 1 - 1 = n
  OBVIOUS
<1>2. Heights(n, st, h[n], h)
  BY <1>1 DEF Heights
<1>3. QED
  BY <1>1, <1>2 DEF Heights

\* A level is put on top.
LEMMA PushCorresponds ==
    ASSUME NEW st, NEW ig, NEW og, Corresponds(st, ig, og),
           NEW s \in Inside, NEW g \in Group, NEW o \in Group, Fits(st, s, g, o)
    PROVE  Corresponds(Append(st, s), Append(ig, g), IF s \in Emitting THEN Append(og, o) ELSE og)
<1>1. PICK h : Stacks(st, ig, og, h)
  BY DEF Corresponds
<1> DEFINE n == Len(st)
           low == Len(og)
           og2 == IF s \in Emitting THEN Append(og, o) ELSE og
           top == IF s \in Emitting THEN low + 1 ELSE low
           st2 == Append(st, s)
           ig2 == Append(ig, g)
           h2 == Append(h, top)
<1>2. /\ n \in Nat /\ n >= 1 /\ st \in Seq(IfStates) /\ ig \in Seq(Group) /\ og \in Seq(Group) /\ h \in Seq(Nat)
      /\ Len(ig) = n /\ Len(h) = n
  BY <1>1 DEF Stacks
<1>3. /\ Heights(n, st, low, h) /\ Levels(n, st, ig, og, h) /\ Hidden(n, st, ig) /\ SameText(n, st, ig, og, h)
      /\ low \in Nat /\ low >= 1 /\ h[n] = low /\ top \in Nat
      /\ \A k \in 1..n : h[k] \in Nat /\ h[k] >= 1 /\ h[k] <= low
  BY <1>1, <1>2 DEF Stacks, Heights
<1>4. /\ st2 \in Seq(IfStates) /\ Len(st2) = n + 1 /\ (\A i \in 1..n : st2[i] = st[i]) /\ st2[n + 1] = s
  <2>1. s \in IfStates
    BY DEF Inside
  <2>2. QED
    BY <1>2, <2>1, AppendFacts
<1>5. /\ ig2 \in Seq(Group) /\ Len(ig2) = n + 1 /\ (\A i \in 1..n : ig2[i] = ig[i]) /\ ig2[n + 1] = g
  BY <1>2, AppendFacts
<1>6. h2 \in Seq(Nat) /\ Len(h2) = n + 1 /\ (\A i \in 1..n : h2[i] = h[i]) /\ h2[n + 1] = top
  <2> HIDE DEF top
  <2>1. QED
    BY <1>2, <1>3, AppendFacts
<1>7. /\ og2 \in Seq(Group) /\ Len(og2) = top /\ (\A i \in 1..low : og2[i] = og[i])
      /\ s \in Emitting => og2[top] = o
  <2>1. CASE s \in Emitting
    BY <1>2, <2>1, AppendFacts
  <2>2. CASE s \notin Emitting
    BY <1>2, <2>2
  <2>3. QED
    BY <2>1, <2>2
<1>8. IF s \in Emitting THEN top = low + 1 /\ og2[top] = o ELSE top = low
  BY <1>7
<1>9. AllPrint(st) <=> \A j \in 1..n : st2[j] \in Printing
  BY <1>4 DEF AllPrint
<1>10. IF \A j \in 1..n : st2[j] \in Printing THEN Level(s, g, o) ELSE Dead(s, g)
  BY <1>9 DEF Fits
<1>11. st2[1] = "OUTSIDE" /\ ig2[1] = WholeFile /\ og2[1] = WholeFile
  BY <1>1, <1>2, <1>3, <1>4, <1>5, <1>7 DEF Stacks
<1>12. \A k \in 1..(n + 1) : k # 1 => st2[k] \in Inside
  <2>1. \A k \in 1..n : k # 1 => st[k] \in Inside
    BY <1>1 DEF Stacks
  <2> HIDE DEF n, st2
  <2>2. \A k \in 1..(n + 1) : k = n + 1 \/ k \in 1..n
    BY <1>2
  <2>3. QED
    BY <2>1, <2>2, <1>4
<1>13. top = IF st2[n + 1] \in Emitting THEN low + 1 ELSE low
  BY <1>4
<1> HIDE DEF n, low, og2, top, st2, ig2, h2
<1>14. Agree(n, st, st2) /\ Agree(n, ig, ig2) /\ Agree(n, h, h2) /\ Agree(low, og, og2)
  BY <1>4, <1>5, <1>6, <1>7 DEF Agree
<1>15. SameBelow(n, st, ig, og, h, st2, ig2, og2, h2)
  <2>1. \A k \in 1..n : Agree(h[k], og, og2)
    BY <1>3, <1>14 DEF Agree
  <2>2. QED
    BY <2>1, <1>3, <1>14 DEF SameBelow
<1>16. Levels(n, st2, ig2, og2, h2) /\ Hidden(n, st2, ig2) /\ SameText(n, st2, ig2, og2, h2)
  BY <1>2, <1>3, <1>15, LevelsBelow
<1>17. h2[n] = low /\ Agree(low, og2, og2)
  BY <1>2, <1>3, <1>6 DEF Agree
<1>18. /\ Levels(n + 1, st2, ig2, og2, h2) /\ Hidden(n + 1, st2, ig2) /\ SameText(n + 1, st2, ig2, og2, h2)
  <2>1. st2[n + 1] = s /\ ig2[n + 1] = g /\ h2[n + 1] = top
    BY <1>4, <1>5, <1>6
  <2>2. QED
    BY ONLY <1>2, <1>3, <1>8, <1>10, <1>16, <1>17, <2>1, LevelOnTop, s \in Inside, g \in Group, o \in Group
<1>19. Heights(n + 1, st2, top, h2)
  <2>1. Heights(n, st2, low, h2)
    BY <1>2, <1>3, <1>14, HeightsAgree
  <2>2. QED
    BY <1>2, <1>6, <1>13, <2>1, HeightOnTop
<1>20. Stacks(st2, ig2, og2, h2)
  BY <1>2, <1>4, <1>5, <1>6, <1>7, <1>11, <1>12, <1>18, <1>19 DEF Stacks
<1>21. QED
  BY <1>20 DEF Corresponds, st2, ig2, og2

\* The level on top is taken away.
LEMMA PopCorresponds ==
    ASSUME NEW st, NEW ig, NEW og, Corresponds(st, ig, og), Len(st) >= 2
    PROVE  /\ Corresponds(Front(st), Front(ig), IF Last(st) \in Emitting THEN Front(og) ELSE og)
           /\ Last(st) \in Inside
           /\ Fits(Front(st), Last(st), Last(ig), Last(og))
           /\ Last(st) \in Emitting => Len(og) >= 2
<1>1. PICK h : Stacks(st, ig, og, h)
  BY DEF Corresponds
<1> DEFINE n == Len(st) - 1
           s == Last(st)
           og1 == IF s \in Emitting THEN Front(og) ELSE og
           top == Len(og)
           low == h[n]
           st1 == Front(st)
           ig1 == Front(ig)
           h1 == Front(h)
<1>2. /\ n \in Nat /\ n >= 1 /\ st \in Seq(IfStates) /\ ig \in Seq(Group) /\ og \in Seq(Group) /\ h \in Seq(Nat)
      /\ Len(st) = n + 1 /\ Len(ig) = n + 1 /\ Len(h) = n + 1
      /\ s = st[n + 1] /\ Last(ig) = ig[n + 1] /\ Last(og) = og[top]
  BY <1>1 DEF Stacks, Last
<1>3. st1 \in Seq(IfStates) /\ Len(st1) = n /\ \A i \in 1..n : st1[i] = st[i]
  <2>1. Len(st) >= 1 /\ Len(st) - 1 = n
    BY <1>2
  <2>2. QED
    BY <1>2, <2>1, FrontFacts
<1>4. ig1 \in Seq(Group) /\ Len(ig1) = n /\ \A i \in 1..n : ig1[i] = ig[i]
  <2>1. Len(ig) >= 1 /\ Len(ig) - 1 = n
    BY <1>2
  <2>2. QED
    BY <1>2, <2>1, FrontFacts
<1>5. h1 \in Seq(Nat) /\ Len(h1) = n /\ \A i \in 1..n : h1[i] = h[i]
  <2>1. Len(h) >= 1 /\ Len(h) - 1 = n
    BY <1>2
  <2>2. QED
    BY <1>2, <2>1, FrontFacts
<1>6. /\ Heights(n + 1, st, top, h) /\ Levels(n + 1, st, ig, og, h) /\ Hidden(n + 1, st, ig)
      /\ SameText(n + 1, st, ig, og, h)
      /\ st[1] = "OUTSIDE" /\ ig[1] = WholeFile /\ og[1] = WholeFile
      /\ \A k \in 1..(n + 1) : k # 1 => st[k] \in Inside
  BY <1>1, <1>2 DEF Stacks
<1> HIDE DEF n
<1>7. /\ Heights(n, st, low, h) /\ low \in Nat /\ low >= 1
      /\ top = IF s \in Emitting THEN low + 1 ELSE low
  BY <1>2, <1>6, HeightsBelow
<1>8. /\ og1 \in Seq(Group) /\ Len(og1) = low /\ (\A i \in 1..low : og1[i] = og[i])
      /\ s \in Emitting => top >= 2
  <2>1. CASE s \in Emitting
    <3>1. top = low + 1 /\ top >= 2
      BY <2>1, <1>7
    <3>2. Front(og) \in Seq(Group) /\ Len(Front(og)) = Len(og) - 1 /\ \A i \in 1..(Len(og) - 1) : Front(og)[i] = og[i]
      BY <1>2, <3>1, FrontFacts
    <3>3. Len(og) - 1 = low
      BY <3>1, <1>7
    <3>4. QED
      BY <2>1, <3>1, <3>2, <3>3
  <2>2. CASE s \notin Emitting
    BY <2>2, <1>2, <1>7
  <2>3. QED
    BY <2>1, <2>2
<1> HIDE DEF st1, ig1, h1, og1, s, low, top
<1>9. Levels(n, st, ig, og, h) /\ Hidden(n, st, ig) /\ SameText(n, st, ig, og, h)
  <2>1. 1..n \subseteq 1..(n + 1)
    BY <1>2
  <2>2. QED
    BY <2>1, <1>6 DEF Levels, Hidden, SameText
<1>10. Agree(n, st, st1) /\ Agree(n, ig, ig1) /\ Agree(n, h, h1) /\ Agree(low, og, og1)
  BY <1>3, <1>4, <1>5, <1>8 DEF Agree
<1>11. \A k \in 1..n : h[k] \in Nat /\ h[k] >= 1 /\ h[k] <= low
  BY <1>2, <1>7 DEF Heights
<1>12. SameBelow(n, st, ig, og, h, st1, ig1, og1, h1)
  <2>1. \A k \in 1..n : Agree(h[k], og, og1)
    BY <1>7, <1>10, <1>11 DEF Agree
  <2>2. QED
    BY <2>1, <1>10, <1>11 DEF SameBelow
<1>13. Levels(n, st1, ig1, og1, h1) /\ Hidden(n, st1, ig1) /\ SameText(n, st1, ig1, og1, h1)
  BY <1>2, <1>9, <1>12, LevelsBelow
<1>14. Heights(n, st1, low, h1)
  BY <1>2, <1>7, <1>10, HeightsAgree
<1>15. st1[1] = "OUTSIDE" /\ ig1[1] = WholeFile /\ og1[1] = WholeFile
  <2>1. 1 \in 1..n /\ 1 \in 1..low
    BY <1>2, <1>7
  <2>2. QED
    BY <2>1, <1>3, <1>4, <1>6, <1>8
<1>16. \A k \in 1..n : k # 1 => st1[k] \in Inside
  <2>1. 1..n \subseteq 1..(n + 1)
    BY <1>2
  <2>2. QED
    BY <2>1, <1>3, <1>6
<1>17. Stacks(st1, ig1, og1, h1)
  BY <1>2, <1>3, <1>4, <1>5, <1>8, <1>13, <1>14, <1>15, <1>16 DEF Stacks
<1>18. Corresponds(st1, ig1, og1)
  BY <1>17 DEF Corresponds
<1>19. n + 1 \in 1..(n + 1) /\ n + 1 # 1 /\ n + 1 - 1 = n
  BY <1>2
<1>20. s \in Inside
  BY <1>2, <1>6, <1>19
<1>21. Fits(st1, s, Last(ig), Last(og))
  <2>1. AllPrint(st1) <=> PrintsBelow(st, n + 1)
    BY <1>3, <1>19 DEF AllPrint, PrintsBelow
  <2>2. IF PrintsBelow(st, n + 1) THEN Level(st[n + 1], ig[n + 1], og[h[n + 1]]) ELSE Dead(st[n + 1], ig[n + 1])
    BY <1>6, <1>19 DEF Levels
  <2>3. h[n + 1] = top
    BY <1>6 DEF Heights
  <2>4. IF PrintsBelow(st, n + 1) THEN Level(s, Last(ig), Last(og)) ELSE Dead(s, Last(ig))
    BY <2>2, <2>3, <1>2
  <2>5. QED
    BY <2>1, <2>4 DEF Fits
<1>22. QED
  BY <1>8, <1>18, <1>20, <1>21 DEF st1, ig1, og1, s, top

-----------------------------------------------------------------------------
(* The steps of the machine *)

MachineType(mm) ==
    /\ mm \in [ifstate : Seq(IfStates), ignoring : Seq(BOOLEAN), out : Seq(Lines), altered : BOOLEAN,
               status : {"run", "done", "error"}, blankcount : Nat, blankmax : Nat]
    /\ Len(mm.ifstate) >= 1 /\ Len(mm.ignoring) = Len(mm.ifstate)

\* The machine goes on, with the stack st, and has written one of W.
Running(mm, st, W) == MachineType(mm) /\ mm.status = "run" /\ mm.ifstate = st /\ mm.out \in W

\* What the machine writes are lines.
LEMMA LineFacts ==
    /\ Blank \in Lines
    /\ \A l \in Lines : Edited(l, "else") \in Lines /\ Edited(l, "endif") \in Lines
    /\ \A l \in Conditionals : IfForElif(l) \in Lines /\ l \in Lines
<1>1. Blank \in Lines
  BY DEF Blank, Lines, Plains
<1>2. \A l \in Lines : Edited(l, "else") \in Lines /\ Edited(l, "endif") \in Lines
  BY DEF Edited, Lines, Bares
<1>3. \A l \in Conditionals : IfForElif(l) \in Lines /\ l \in Lines
  BY DEF IfForElif, Lines, Conditionals, Openers
<1>4. QED
  BY <1>1, <1>2, <1>3

\* flushline writes the line, or nothing if it is blank; or drops it.
LEMMA FlushKeeps ==
    ASSUME NEW o, PrintOptions(o), NEW mm, MachineType(mm), NEW l \in Lines, mm.out = << >>
    PROVE  LET m2 == Flush(o, mm, l, TRUE)
           IN  /\ MachineType(m2) /\ m2.status = mm.status /\ m2.ifstate = mm.ifstate
               /\ m2.out = <<l>> \/ (l = Blank /\ m2.out = << >>)
<1> DEFINE isblank == l.kind = "plain" /\ l.blank
           squeezed == isblank /\ o.compblank /\ mm.blankcount # mm.blankmax
           blanks == IF isblank THEN mm.blankcount + 1 ELSE 0
           m1 == [mm EXCEPT !.blankcount = @ + 1]
           m2 == [mm EXCEPT !.out = Append(@, l), !.blankcount = blanks, !.blankmax = blanks]
<1>1. o.symlist = FALSE /\ o.complement = FALSE
  BY DEF PrintOptions
<1>2. Flush(o, mm, l, TRUE) = IF squeezed THEN m1 ELSE m2
  BY <1>1 DEF Flush
<1>3. isblank => l = Blank
  BY DEF Lines, Plains, TextLines, Conditionals, Bares, Openers
<1>4. CASE squeezed
  <2>1. MachineType(m1) /\ m1.status = mm.status /\ m1.ifstate = mm.ifstate /\ m1.out = << >>
    BY DEF MachineType
  <2>2. QED
    BY <2>1, <1>2, <1>3, <1>4
<1>5. CASE ~squeezed
  <2>1. blanks \in Nat
    BY DEF MachineType
  <2>2. Append(mm.out, l) \in Seq(Lines) /\ Append(mm.out, l) = <<l>>
    BY DEF MachineType
  <2>3. MachineType(m2) /\ m2.status = mm.status /\ m2.ifstate = mm.ifstate /\ m2.out = <<l>>
    BY <2>1, <2>2 DEF MachineType
  <2>4. QED
    BY <2>3, <1>2, <1>5
<1>6. QED
  BY <1>4, <1>5

\* A dropped line leaves nothing, or a blank one (-b).
LEMMA FlushDrops ==
    ASSUME NEW o, PrintOptions(o), NEW mm, MachineType(mm), NEW l \in Lines, mm.out = << >>
    PROVE  LET m2 == Flush(o, mm, l, FALSE)
           IN  /\ MachineType(m2) /\ m2.status = mm.status /\ m2.ifstate = mm.ifstate
               /\ m2.out \in {<< >>, <<Blank>>}
<1> DEFINE out2 == IF o.lnblank THEN Append(mm.out, Blank) ELSE mm.out
           m2 == [mm EXCEPT !.out = out2, !.altered = TRUE, !.blankcount = 0]
<1>1. o.symlist = FALSE /\ o.complement = FALSE
  BY DEF PrintOptions
<1>2. Flush(o, mm, l, FALSE) = m2
  BY <1>1 DEF Flush
<1>3. out2 \in Seq(Lines) /\ out2 \in {<< >>, <<Blank>>}
  BY LineFacts DEF MachineType
<1> HIDE DEF out2
<1>4. MachineType(m2) /\ m2.status = mm.status /\ m2.ifstate = mm.ifstate /\ m2.out = out2
  BY <1>3 DEF MachineType
<1>5. QED
  BY <1>2, <1>3, <1>4

\* What one step of a transition function does.
LEMMA StepStops ==
    ASSUME NEW o, NEW mm, NEW l, NEW p, mm.status # "run"
    PROVE  Step(o, mm, l, p) = mm
BY DEF Step

\* The steps "error" and "ioccc".
LEMMA StepError ==
    ASSUME NEW o, NEW mm, NEW l, NEW st, NEW W, Running(mm, st, W)
    PROVE  /\ Step(o, mm, l, "error").status = "error"
           /\ Step(o, mm, l, "ioccc") = mm \/ Step(o, mm, l, "ioccc").status = "error"
<1>1. Step(o, mm, l, "error") = [mm EXCEPT !.status = "error"]
  BY DEF Step, Running, IfStates
<1>2. Step(o, mm, l, "ioccc") = IF o.iocccok THEN mm ELSE [mm EXCEPT !.status = "error"]
  BY DEF Step, Running, IfStates
<1>3. QED
  BY <1>1, <1>2 DEF Running, MachineType

Written(p, l) ==
    CASE p = "print" -> {<<l>>} \cup (IF l = Blank THEN {<< >>} ELSE {})
      [] p = "drop" -> {<< >>, <<Blank>>}
      [] p = "if" -> {<<IfForElif(l)>>}
      [] p \in {"else", "endif"} -> {<<Edited(l, p)>>}
Writers == {"print", "drop", "if", "else", "endif"}

\* The steps that write leave the stack as it is.
LEMMA StepWrites ==
    ASSUME NEW o, PrintOptions(o), NEW mm, NEW l \in Lines, NEW st, Running(mm, st, {<< >>}),
           NEW p \in Writers, p = "if" => l \in Conditionals
    PROVE  Running(Step(o, mm, l, p), st, Written(p, l))
<1>1. mm.status = "run" /\ mm.out = << >> /\ MachineType(mm) /\ mm.ifstate = st
  BY DEF Running
<1> DEFINE m2 == Step(o, mm, l, p)
           Result(W) == MachineType(m2) /\ m2.status = mm.status /\ m2.ifstate = mm.ifstate /\ m2.out \in W
<1>2. CASE p = "print"
  <2>1. m2 = Flush(o, mm, l, TRUE)
    BY <1>1, <1>2 DEF Step, IfStates
  <2>2. Result({<<l>>} \cup (IF l = Blank THEN {<< >>} ELSE {}))
    <3> HIDE DEF m2
    <3>1. QED
      BY <1>1, <2>1, FlushKeeps
  <2>3. QED
    BY <1>1, <1>2, <2>2 DEF Running, Written
<1>3. CASE p = "drop"
  <2>1. m2 = Flush(o, mm, l, FALSE)
    BY <1>1, <1>3 DEF Step, IfStates
  <2>2. Result({<< >>, <<Blank>>})
    <3> HIDE DEF m2
    <3>1. QED
      BY <1>1, <2>1, FlushDrops
  <2>3. QED
    BY <1>1, <1>3, <2>2 DEF Running, Written
<1>4. CASE p = "if"
  <2> DEFINE l2 == IfForElif(l)
  <2>1. m2 = Flush(o, mm, l2, TRUE)
    BY <1>1, <1>4 DEF Step, IfStates
  <2>2. l2 \in Lines /\ l2 # Blank
    BY <1>4, LineFacts DEF IfForElif, Conditionals, Blank
  <2>3. Result({<<l2>>})
    <3> HIDE DEF m2, l2
    <3>1. QED
      BY <1>1, <2>1, <2>2, FlushKeeps
  <2>4. QED
    BY <1>1, <1>4, <2>3 DEF Running, Written
<1>5. CASE p \in {"else", "endif"}
  <2> DEFINE m1 == [mm EXCEPT !.altered = TRUE]
             l2 == Edited(l, p)
  <2>1. m2 = Flush(o, m1, l2, TRUE)
    BY <1>1, <1>5 DEF Step, IfStates, KeywordEdit
  <2>2. l2 \in Lines /\ l2 # Blank
    BY <1>5, LineFacts DEF Edited, Blank
  <2>3. MachineType(m1) /\ m1.status = mm.status /\ m1.ifstate = mm.ifstate /\ m1.out = << >>
    BY <1>1 DEF MachineType
  <2>4. Result({<<l2>>})
    <3> HIDE DEF m1, m2, l2
    <3>1. MachineType(m2) /\ m2.status = m1.status /\ m2.ifstate = m1.ifstate
          /\ (m2.out = <<l2>> \/ (l2 = Blank /\ m2.out = << >>))
      BY <2>1, <2>2, <2>3, FlushKeeps
    <3>2. QED
      BY <2>2, <2>3, <3>1
  <2>5. QED
    BY <1>1, <1>5, <2>4 DEF Running, Written
<1>6. QED
  BY <1>2, <1>3, <1>4, <1>5 DEF Writers

\* The step "nest" puts a level on the stack, or fails where there are MAXDEPTH.
LEMMA StepNests ==
    ASSUME NEW o, NEW mm, NEW l, NEW st, NEW W, Running(mm, st, W)
    PROVE  IF Len(st) = MaxDepth THEN Step(o, mm, l, "nest").status = "error"
           ELSE Running(Step(o, mm, l, "nest"), Append(st, "OUTSIDE"), W)
<1>1. mm.status = "run" /\ mm.out \in W /\ MachineType(mm) /\ mm.ifstate = st
  BY DEF Running
<1>2. Step(o, mm, l, "nest") = Nest(mm)
  BY <1>1 DEF Step, IfStates
<1>3. st \in Seq(IfStates) /\ Len(st) \in Nat /\ MaxDepth \in Nat
  BY <1>1, MaxDepthAssumption DEF MachineType
<1>4. CASE Len(st) = MaxDepth
  <2>1. Nest(mm) = [mm EXCEPT !.status = "error"]
    BY <1>1, <1>3, <1>4 DEF Nest, Depth
  <2>2. QED
    BY <1>1, <1>2, <1>4, <2>1 DEF MachineType
<1>5. CASE Len(st) # MaxDepth
  <2> DEFINE st2 == Append(mm.ifstate, "OUTSIDE")
             ig2 == Append(mm.ignoring, FALSE)
             m2 == [mm EXCEPT !.ifstate = st2, !.ignoring = ig2]
  <2>1. Nest(mm) = m2
    BY <1>1, <1>3, <1>5 DEF Nest, Depth
  <2>2. st2 \in Seq(IfStates) /\ ig2 \in Seq(BOOLEAN) /\ Len(ig2) = Len(st2) /\ Len(st2) >= 1
    BY <1>1 DEF MachineType, IfStates
  <2> HIDE DEF st2, ig2
  <2>3. MachineType(m2) /\ m2.status = mm.status /\ m2.ifstate = st2 /\ m2.out = mm.out
    BY <1>1, <2>2 DEF MachineType
  <2>4. QED
    BY <1>1, <1>2, <1>5, <2>1, <2>3 DEF Running, st2
<1>6. QED
  BY <1>4, <1>5

\* The step "unnest" takes a level from both stacks.
LEMMA StepUnnests ==
    ASSUME NEW o, NEW mm, NEW l, NEW st, NEW W, Running(mm, st, W), Len(st) >= 2
    PROVE  Running(Step(o, mm, l, "unnest"), Front(st), W)
<1>1. mm.status = "run" /\ mm.out \in W /\ MachineType(mm) /\ mm.ifstate = st
  BY DEF Running
<1> DEFINE m2 == [mm EXCEPT !.ifstate = Front(@), !.ignoring = Front(@)]
<1>2. Step(o, mm, l, "unnest") = m2
  BY <1>1 DEF Step, IfStates, Unnest
<1>3. /\ st \in Seq(IfStates) /\ Len(st) \in Nat
      /\ mm.ignoring \in Seq(BOOLEAN) /\ Len(mm.ignoring) = Len(st)
  BY <1>1 DEF MachineType
<1>4. /\ Front(st) \in Seq(IfStates) /\ Len(Front(st)) = Len(st) - 1
      /\ Front(mm.ignoring) \in Seq(BOOLEAN) /\ Len(Front(mm.ignoring)) = Len(st) - 1
  BY <1>3, FrontFacts
<1>5. MachineType(m2) /\ m2.status = mm.status /\ m2.ifstate = Front(st) /\ m2.out = mm.out
  <2> DEFINE st2 == Front(mm.ifstate)
             ig2 == Front(mm.ignoring)
             m3 == [mm EXCEPT !.ifstate = st2, !.ignoring = ig2]
  <2>1. st2 \in Seq(IfStates) /\ ig2 \in Seq(BOOLEAN) /\ Len(ig2) = Len(st2) /\ Len(st2) >= 1
    BY <1>1, <1>3, <1>4
  <2>2. m2 = m3
    OBVIOUS
  <2> HIDE DEF st2, ig2
  <2>3. MachineType(m3) /\ m3.status = mm.status /\ m3.ifstate = st2 /\ m3.out = mm.out
    BY <1>1, <2>1 DEF MachineType
  <2>4. QED
    BY <1>1, <2>2, <2>3 DEF st2
<1>6. QED
  BY <1>1, <1>2, <1>5 DEF Running

\* The steps that set "ignoring" leave the stack of states as it is.
LEMMA StepIgnores ==
    ASSUME NEW o, NEW mm, NEW l, NEW st, NEW W, Running(mm, st, W), Len(st) >= 2
    PROVE  /\ Running(Step(o, mm, l, "ignoreoff"), st, W)
           /\ Running(Step(o, mm, l, "ignoreon"), st, W)
<1>1. mm.status = "run" /\ mm.out \in W /\ MachineType(mm) /\ mm.ifstate = st
  BY DEF Running
<1>2. mm.ignoring \in Seq(BOOLEAN) /\ Len(mm.ignoring) \in Nat /\ Len(mm.ignoring) >= 2 /\ Len(mm.ignoring) = Len(st)
  BY <1>1 DEF MachineType
<1>3. ASSUME NEW b \in BOOLEAN
      PROVE  Running([mm EXCEPT !.ignoring = [mm.ignoring EXCEPT ![Len(mm.ignoring)] = b]], st, W)
  <2> DEFINE ig2 == [mm.ignoring EXCEPT ![Len(mm.ignoring)] = b]
             m2 == [mm EXCEPT !.ignoring = ig2]
  <2>1. ig2 \in Seq(BOOLEAN) /\ Len(ig2) = Len(mm.ignoring)
    BY <1>2, ExceptSeq
  <2> HIDE DEF ig2
  <2>2. MachineType(m2) /\ m2.status = mm.status /\ m2.ifstate = mm.ifstate /\ m2.out = mm.out
    BY <1>1, <2>1 DEF MachineType
  <2>3. QED
    BY <1>1, <2>2 DEF Running, ig2
<1>4. mm.ignoring[Len(mm.ignoring) - 1] \in BOOLEAN
  BY <1>2
<1>5. Step(o, mm, l, "ignoreoff") = [mm EXCEPT !.ignoring = [mm.ignoring EXCEPT ![Len(mm.ignoring)] = mm.ignoring[Len(mm.ignoring) - 1]]]
  BY <1>1 DEF Step, IfStates, IgnoreOff
<1>6. Step(o, mm, l, "ignoreon") = [mm EXCEPT !.ignoring = [mm.ignoring EXCEPT ![Len(mm.ignoring)] = TRUE]]
  BY <1>1 DEF Step, IfStates, IgnoreOn
<1>7. QED
  BY <1>3, <1>4, <1>5, <1>6

\* The steps that are states replace the state on top.
LEMMA StepSetsState ==
    ASSUME NEW o, NEW mm, NEW l, NEW st, NEW W, Running(mm, st, W), NEW s \in Inside
    PROVE  Running(Step(o, mm, l, s), Append(Front(st), s), W)
<1>1. mm.status = "run" /\ mm.out \in W /\ MachineType(mm) /\ mm.ifstate = st /\ s \in IfStates
  BY DEF Running, Inside
<1> DEFINE st2 == [mm.ifstate EXCEPT ![Len(mm.ifstate)] = s]
           m2 == [mm EXCEPT !.ifstate = st2]
<1>2. Step(o, mm, l, s) = m2
  BY <1>1 DEF Step, IfStates, SetState
<1>3. st \in Seq(IfStates) /\ Len(st) \in Nat /\ Len(st) >= 1
  BY <1>1 DEF MachineType
<1>4. st2 \in Seq(IfStates) /\ Len(st2) = Len(st)
  BY <1>1, <1>3, ExceptSeq
<1>5. st2 = Append(Front(st), s)
  BY <1>1, <1>3, ExceptLast
<1> HIDE DEF st2
<1>6. MachineType(m2) /\ m2.status = mm.status /\ m2.ifstate = st2 /\ m2.out = mm.out
  BY <1>1, <1>4 DEF MachineType
<1>7. QED
  BY <1>1, <1>2, <1>5, <1>6 DEF Running

-----------------------------------------------------------------------------
(* What a transition function does *)

\* Running it is taking its steps one after the other.
IsRun(R, o, mm, l, steps) ==
    /\ R[0] = mm
    /\ \A k \in 1..Len(steps) : R[k] = Step(o, R[k - 1], l, steps[k])

RunsTo(o, mm, l, steps, n) == \E R : IsRun(R, o, mm, l, steps) /\ Run(o, mm, l, steps) = R[n]

\* A function of the table, which is a recursive function over its steps, is them in turn.
LEMMA RunIsSteps ==
    ASSUME NEW o, NEW mm, NEW l, NEW steps, NEW len \in 0..6, Len(steps) = len
    PROVE  RunsTo(o, mm, l, steps, len)
<1> DEFINE n == Len(steps)
           Def(f) == f = [k \in 0..n |-> IF k = 0 THEN mm ELSE Step(o, f[k - 1], l, steps[k])]
           R == CHOOSE f : Def(f)
           m1 == Step(o, mm, l, steps[1])
           m2 == Step(o, m1, l, steps[2])
           m3 == Step(o, m2, l, steps[3])
           m4 == Step(o, m3, l, steps[4])
           m5 == Step(o, m4, l, steps[5])
           m6 == Step(o, m5, l, steps[6])
           ms == <<m1, m2, m3, m4, m5, m6>>
           At(k) == IF k = 0 THEN mm ELSE ms[k]
           g == [k \in 0..n |-> At(k)]
<1>1. Run(o, mm, l, steps) = R[n]
  BY DEF Run
<1>2. \E f : Def(f)
  <2>1. n \in Nat /\ \A k \in 0..n : k \in {0, 1, 2, 3, 4, 5, 6} /\ (k # 0 => k - 1 \in 0..n)
    <3>1. n \in 0..6
      OBVIOUS
    <3> HIDE DEF n
    <3>2. QED
      BY <3>1
  <2>2. ms[1] = m1 /\ ms[2] = m2 /\ ms[3] = m3 /\ ms[4] = m4 /\ ms[5] = m5 /\ ms[6] = m6
    <3> HIDE DEF m1, m2, m3, m4, m5, m6
    <3>1. QED
      OBVIOUS
  <2> HIDE DEF ms
  <2>3. At(0) = mm /\ \A k \in {1, 2, 3, 4, 5, 6} : At(k) = Step(o, At(k - 1), l, steps[k])
    <3>1. /\ At(0) = mm /\ At(1) = m1 /\ At(2) = m2 /\ At(3) = m3 /\ At(4) = m4 /\ At(5) = m5
          /\ At(6) = m6
      <4> HIDE DEF m1, m2, m3, m4, m5, m6
      <4>1. QED
        BY <2>2
    <3> HIDE DEF At
    <3>2. At(1) = Step(o, At(1 - 1), l, steps[1]) /\ At(2) = Step(o, At(2 - 1), l, steps[2])
      BY <3>1
    <3>3. At(3) = Step(o, At(3 - 1), l, steps[3]) /\ At(4) = Step(o, At(4 - 1), l, steps[4])
      BY <3>1
    <3>4. At(5) = Step(o, At(5 - 1), l, steps[5]) /\ At(6) = Step(o, At(6 - 1), l, steps[6])
      BY <3>1
    <3>5. QED
      BY <3>1, <3>2, <3>3, <3>4
  <2> HIDE DEF At, n
  <2>4. \A k \in 0..n : g[k] = IF k = 0 THEN mm ELSE Step(o, g[k - 1], l, steps[k])
    BY <2>1, <2>3
  <2>5. g = [k \in 0..n |-> g[k]]
    OBVIOUS
  <2> HIDE DEF g
  <2>6. Def(g)
    BY <2>4, <2>5
  <2>7. QED
    BY <2>6
<1>3. Def(R)
  <2> HIDE DEF Def
  <2>1. QED
    BY <1>2
<1>4. IsRun(R, o, mm, l, steps)
  <2> HIDE DEF R
  <2>1. n \in Nat /\ \A k \in 1..n : k \in 0..n /\ k # 0
    OBVIOUS
  <2>2. R[0] = mm /\ \A k \in 1..n : R[k] = Step(o, R[k - 1], l, steps[k])
    <3> HIDE DEF n
    <3>1. \A k \in 0..n : R[k] = IF k = 0 THEN mm ELSE Step(o, R[k - 1], l, steps[k])
      BY <1>3
    <3>2. QED
      BY <2>1, <3>1
  <2>3. QED
    BY <2>2 DEF IsRun
<1>5. QED
  BY <1>1, <1>4 DEF RunsTo

\* The machine reads the line l with the options o, and its stack is st.
Ready(o, mm, l, st) ==
    /\ PrintOptions(o) /\ l \in Lines /\ Running(mm, st, {<< >>})
    /\ st \in Seq(IfStates) /\ Len(st) >= 1

\* The outcomes: an error, or a stack and a writer.
Fails(mm) == mm.status = "error"

\* The functions for plain lines.
LEMMA RunOne ==
    ASSUME NEW o, NEW mm, NEW l, NEW st, Ready(o, mm, l, st), NEW p \in {"print", "drop"}
    PROVE  Running(Run(o, mm, l, <<p>>), st, Written(p, l))
<1> DEFINE steps == <<p>>
<1>0. Len(steps) = 1
  OBVIOUS
<1>1. PICK R : IsRun(R, o, mm, l, steps) /\ Run(o, mm, l, steps) = R[1]
  BY <1>0, RunIsSteps DEF RunsTo
<1>2. R[0] = mm /\ R[1] = Step(o, R[0], l, p)
  BY <1>0, <1>1 DEF IsRun
<1>3. Running(Step(o, mm, l, p), st, Written(p, l))
  BY StepWrites DEF Ready, Writers
<1>4. QED
  BY <1>1, <1>2, <1>3

\* The function Eelse, Eelif, Eendif: an error.
LEMMA RunError ==
    ASSUME NEW o, NEW mm, NEW l, NEW st, Ready(o, mm, l, st)
    PROVE  Fails(Run(o, mm, l, Error))
<1> DEFINE steps == <<"error">>
<1>0. Len(steps) = 1
  OBVIOUS
<1>1. PICK R : IsRun(R, o, mm, l, steps) /\ Run(o, mm, l, steps) = R[1]
  BY <1>0, RunIsSteps DEF RunsTo
<1>2. R[0] = mm /\ R[1] = Step(o, R[0], l, "error")
  BY <1>0, <1>1 DEF IsRun
<1>3. QED
  BY <1>1, <1>2, StepError DEF Ready, Error, Fails

\* The functions that change the state of a group and write one line.
LEMMA RunSetsState ==
    ASSUME NEW o, NEW mm, NEW l, NEW st, Ready(o, mm, l, st), NEW p \in Writers, p = "if" => l \in Conditionals,
           NEW s \in Inside
    PROVE  Running(Run(o, mm, l, <<p, s>>), Append(Front(st), s), Written(p, l))
<1> DEFINE steps == <<p, s>>
<1>0. Len(steps) = 2
  OBVIOUS
<1>1. PICK R : IsRun(R, o, mm, l, steps) /\ Run(o, mm, l, steps) = R[2]
  BY <1>0, RunIsSteps DEF RunsTo
<1>2. R[0] = mm /\ R[1] = Step(o, R[0], l, p) /\ R[2] = Step(o, R[1], l, s)
  BY <1>0, <1>1 DEF IsRun
<1>3. Running(R[1], st, Written(p, l))
  BY <1>2, StepWrites DEF Ready
<1>4. Running(R[2], Append(Front(st), s), Written(p, l))
  BY <1>2, <1>3, StepSetsState
<1>5. QED
  BY <1>1, <1>4

\* The same with "ignoring" set to what it is around.
LEMMA RunSetsStateOff ==
    ASSUME NEW o, NEW mm, NEW l, NEW st, Ready(o, mm, l, st), NEW p \in Writers, p = "if" => l \in Conditionals,
           NEW s \in Inside, Len(st) >= 2
    PROVE  Running(Run(o, mm, l, <<p, "ignoreoff", s>>), Append(Front(st), s), Written(p, l))
<1> DEFINE steps == <<p, "ignoreoff", s>>
<1>0. Len(steps) = 3
  OBVIOUS
<1>1. PICK R : IsRun(R, o, mm, l, steps) /\ Run(o, mm, l, steps) = R[3]
  BY <1>0, RunIsSteps DEF RunsTo
<1>2. R[0] = mm /\ R[1] = Step(o, R[0], l, p) /\ R[2] = Step(o, R[1], l, "ignoreoff") /\ R[3] = Step(o, R[2], l, s)
  BY <1>0, <1>1 DEF IsRun
<1>3. Running(R[1], st, Written(p, l))
  BY <1>2, StepWrites DEF Ready
<1>4. Running(R[2], st, Written(p, l))
  BY <1>2, <1>3, StepIgnores
<1>5. Running(R[3], Append(Front(st), s), Written(p, l))
  BY <1>2, <1>4, StepSetsState
<1>6. QED
  BY <1>1, <1>5

\* The functions that end a group.
LEMMA RunUnnests ==
    ASSUME NEW o, NEW mm, NEW l, NEW st, Ready(o, mm, l, st), NEW p \in {"print", "drop"}, Len(st) >= 2
    PROVE  Running(Run(o, mm, l, <<p, "unnest">>), Front(st), Written(p, l))
<1> DEFINE steps == <<p, "unnest">>
<1>0. Len(steps) = 2
  OBVIOUS
<1>1. PICK R : IsRun(R, o, mm, l, steps) /\ Run(o, mm, l, steps) = R[2]
  BY <1>0, RunIsSteps DEF RunsTo
<1>2. R[0] = mm /\ R[1] = Step(o, R[0], l, p) /\ R[2] = Step(o, R[1], l, "unnest")
  BY <1>0, <1>1 DEF IsRun
<1>3. Running(R[1], st, Written(p, l))
  BY <1>2, StepWrites DEF Ready, Writers
<1>4. QED
  BY <1>1, <1>2, <1>3, StepUnnests

\* The functions that open a group fail where the groups are too deep.  W is
\* what they may write.
Opens(mm, st, s, W) ==
    IF Len(st) = MaxDepth THEN Fails(mm) ELSE Running(mm, Append(st, s), W)

\* The steps of these functions, from the one that opens the group.
LEMMA OpeningSteps ==
    ASSUME NEW o, NEW mm, NEW l, NEW st, Ready(o, mm, l, st), NEW p \in {"print", "drop"}, NEW s \in Inside,
           NEW m1, NEW m2, NEW m3, NEW m4, NEW m5,
           m1 = Step(o, mm, l, "nest"), m2 = Step(o, m1, l, p), m3 = Step(o, m2, l, "ignoreoff"),
           m4 = Step(o, m3, l, s), m5 = Step(o, m4, l, "ignoreon")
    PROVE  Opens(m4, st, s, Written(p, l)) /\ Opens(m5, st, s, Written(p, l))
<1>1. /\ Running(mm, st, {<< >>}) /\ st \in Seq(IfStates) /\ Len(st) >= 1 /\ PrintOptions(o) /\ l \in Lines
  BY DEF Ready
<1>2. CASE Len(st) = MaxDepth
  <2>1. m1.status = "error"
    BY <1>1, <1>2, StepNests
  <2>2. m2 = m1
    BY <2>1, StepStops
  <2>3. m3 = m1
    BY <2>1, <2>2, StepStops
  <2>4. m4 = m1
    BY <2>1, <2>3, StepStops
  <2>5. m5 = m1
    BY <2>1, <2>4, StepStops
  <2>6. QED
    BY <1>2, <2>1, <2>4, <2>5 DEF Opens, Fails
<1>3. CASE Len(st) # MaxDepth
  <2> DEFINE up == Append(st, "OUTSIDE")
  <2>1. Running(m1, up, {<< >>})
    BY <1>1, <1>3, StepNests
  <2>2. Len(up) >= 2 /\ Front(up) = st
    <3>1. "OUTSIDE" \in IfStates
      BY DEF IfStates
    <3>2. QED
      BY <1>1, <3>1, AppendFacts
  <2> HIDE DEF up
  <2>3. Running(m2, up, Written(p, l))
    BY <1>1, <2>1, StepWrites DEF Writers
  <2>4. Running(m3, up, Written(p, l))
    BY <2>2, <2>3, StepIgnores
  <2>5. Running(m4, Append(st, s), Written(p, l))
    BY <2>2, <2>4, StepSetsState
  <2>6. Len(Append(st, s)) >= 2
    BY <1>1, AppendFacts DEF Inside
  <2>7. Running(m5, Append(st, s), Written(p, l))
    BY <2>5, <2>6, StepIgnores
  <2>8. QED
    BY <1>3, <2>5, <2>7 DEF Opens
<1>4. QED
  BY <1>2, <1>3

\* Fdrop, Fpass, Ftrue and Ffalse.
LEMMA RunOpens ==
    ASSUME NEW o, NEW mm, NEW l, NEW st, Ready(o, mm, l, st), NEW p \in {"print", "drop"}, NEW s \in Inside
    PROVE  Opens(Run(o, mm, l, <<"nest", p, "ignoreoff", s>>), st, s, Written(p, l))
<1> DEFINE steps == <<"nest", p, "ignoreoff", s>>
<1>0. Len(steps) = 4
  OBVIOUS
<1>1. PICK R : IsRun(R, o, mm, l, steps) /\ Run(o, mm, l, steps) = R[4]
  BY <1>0, RunIsSteps DEF RunsTo
<1>2. /\ R[0] = mm /\ R[1] = Step(o, R[0], l, "nest") /\ R[2] = Step(o, R[1], l, p)
      /\ R[3] = Step(o, R[2], l, "ignoreoff") /\ R[4] = Step(o, R[3], l, s)
  BY <1>0, <1>1 DEF IsRun
<1>3. Opens(R[4], st, s, Written(p, l))
  BY <1>2, OpeningSteps
<1>4. QED
  BY <1>1, <1>3

\* Idrop, Itrue and Ifalse.
LEMMA RunOpensOn ==
    ASSUME NEW o, NEW mm, NEW l, NEW st, Ready(o, mm, l, st), NEW p \in {"print", "drop"}, NEW s \in Inside
    PROVE  Opens(Run(o, mm, l, <<"nest", p, "ignoreoff", s, "ignoreon">>), st, s, Written(p, l))
<1> DEFINE steps == <<"nest", p, "ignoreoff", s, "ignoreon">>
<1>0. Len(steps) = 5
  OBVIOUS
<1>1. PICK R : IsRun(R, o, mm, l, steps) /\ Run(o, mm, l, steps) = R[5]
  BY <1>0, RunIsSteps DEF RunsTo
<1>2. /\ R[0] = mm /\ R[1] = Step(o, R[0], l, "nest") /\ R[2] = Step(o, R[1], l, p)
      /\ R[3] = Step(o, R[2], l, "ignoreoff") /\ R[4] = Step(o, R[3], l, s) /\ R[5] = Step(o, R[4], l, "ignoreon")
  BY <1>0, <1>1 DEF IsRun
<1>3. Opens(R[5], st, s, Written(p, l))
  BY <1>2, OpeningSteps
<1>4. QED
  BY <1>1, <1>3

\* The obfuscated ones fail unless the options allow for them.
LEMMA RunOpensDodgy ==
    ASSUME NEW o, NEW mm, NEW l, NEW st, Ready(o, mm, l, st), NEW p \in {"print", "drop"}, NEW s \in Inside
    PROVE  LET m2 == Run(o, mm, l, <<"ioccc", "nest", p, "ignoreoff", s>>)
           IN  Fails(m2) \/ Opens(m2, st, s, Written(p, l))
<1> DEFINE steps == <<"ioccc", "nest", p, "ignoreoff", s>>
<1>0. Len(steps) = 5
  OBVIOUS
<1>1. PICK R : IsRun(R, o, mm, l, steps) /\ Run(o, mm, l, steps) = R[5]
  BY <1>0, RunIsSteps DEF RunsTo
<1>2. /\ R[0] = mm /\ R[1] = Step(o, R[0], l, "ioccc") /\ R[2] = Step(o, R[1], l, "nest")
      /\ R[3] = Step(o, R[2], l, p) /\ R[4] = Step(o, R[3], l, "ignoreoff") /\ R[5] = Step(o, R[4], l, s)
  BY <1>0, <1>1 DEF IsRun
<1>3. Fails(R[1]) \/ R[1] = mm
  <2>1. Running(mm, st, {<< >>})
    BY DEF Ready
  <2>2. R[1] = Step(o, mm, l, "ioccc")
    BY <1>2
  <2>3. R[1] = mm \/ R[1].status = "error"
    BY ONLY <2>1, <2>2, StepError
  <2>4. QED
    BY <2>3 DEF Fails
<1>4. CASE Fails(R[1])
  <2>1. R[2] = R[1]
    BY <1>2, <1>4, StepStops DEF Fails
  <2>2. R[3] = R[1]
    BY <1>2, <1>4, <2>1, StepStops DEF Fails
  <2>3. R[4] = R[1]
    BY <1>2, <1>4, <2>2, StepStops DEF Fails
  <2>4. R[5] = R[1]
    BY <1>2, <1>4, <2>3, StepStops DEF Fails
  <2>5. QED
    BY <1>1, <1>4, <2>4
<1>5. CASE R[1] = mm
  <2>1. R[2] = Step(o, mm, l, "nest")
    BY <1>2, <1>5
  <2>2. Opens(R[5], st, s, Written(p, l))
    BY <1>2, <2>1, OpeningSteps
  <2>3. QED
    BY <1>1, <2>2
<1>6. QED
  BY <1>3, <1>4, <1>5

\* Oiffy.
LEMMA RunOpensDodgyOn ==
    ASSUME NEW o, NEW mm, NEW l, NEW st, Ready(o, mm, l, st), NEW p \in {"print", "drop"}, NEW s \in Inside
    PROVE  LET m2 == Run(o, mm, l, <<"ioccc", "nest", p, "ignoreoff", s, "ignoreon">>)
           IN  Fails(m2) \/ Opens(m2, st, s, Written(p, l))
<1> DEFINE steps == <<"ioccc", "nest", p, "ignoreoff", s, "ignoreon">>
<1>0. Len(steps) = 6
  OBVIOUS
<1>1. PICK R : IsRun(R, o, mm, l, steps) /\ Run(o, mm, l, steps) = R[6]
  BY <1>0, RunIsSteps DEF RunsTo
<1>2. /\ R[0] = mm /\ R[1] = Step(o, R[0], l, "ioccc") /\ R[2] = Step(o, R[1], l, "nest")
      /\ R[3] = Step(o, R[2], l, p) /\ R[4] = Step(o, R[3], l, "ignoreoff") /\ R[5] = Step(o, R[4], l, s)
      /\ R[6] = Step(o, R[5], l, "ignoreon")
  BY <1>0, <1>1 DEF IsRun
<1>3. Fails(R[1]) \/ R[1] = mm
  <2>1. Running(mm, st, {<< >>})
    BY DEF Ready
  <2>2. R[1] = Step(o, mm, l, "ioccc")
    BY <1>2
  <2>3. R[1] = mm \/ R[1].status = "error"
    BY ONLY <2>1, <2>2, StepError
  <2>4. QED
    BY <2>3 DEF Fails
<1>4. CASE Fails(R[1])
  <2>1. R[2] = R[1]
    BY <1>2, <1>4, StepStops DEF Fails
  <2>2. R[3] = R[1]
    BY <1>2, <1>4, <2>1, StepStops DEF Fails
  <2>3. R[4] = R[1]
    BY <1>2, <1>4, <2>2, StepStops DEF Fails
  <2>4. R[5] = R[1]
    BY <1>2, <1>4, <2>3, StepStops DEF Fails
  <2>5. R[6] = R[1]
    BY <1>2, <1>4, <2>4, StepStops DEF Fails
  <2>6. QED
    BY <1>1, <1>4, <2>5
<1>5. CASE R[1] = mm
  <2>1. R[2] = Step(o, mm, l, "nest")
    BY <1>2, <1>5
  <2>2. Opens(R[6], st, s, Written(p, l))
    BY <1>2, <2>1, OpeningSteps
  <2>3. QED
    BY <1>1, <2>2
<1>6. QED
  BY <1>3, <1>4, <1>5

\* Oelif.
LEMMA RunSetsStateDodgy ==
    ASSUME NEW o, NEW mm, NEW l, NEW st, Ready(o, mm, l, st), NEW p \in {"print", "drop"}, NEW s \in Inside,
           Len(st) >= 2
    PROVE  LET m2 == Run(o, mm, l, <<"ioccc", p, "ignoreoff", s>>)
           IN  Fails(m2) \/ Running(m2, Append(Front(st), s), Written(p, l))
<1> DEFINE steps == <<"ioccc", p, "ignoreoff", s>>
<1>0. Len(steps) = 4
  OBVIOUS
<1>1. PICK R : IsRun(R, o, mm, l, steps) /\ Run(o, mm, l, steps) = R[4]
  BY <1>0, RunIsSteps DEF RunsTo
<1>2. /\ R[0] = mm /\ R[1] = Step(o, R[0], l, "ioccc") /\ R[2] = Step(o, R[1], l, p)
      /\ R[3] = Step(o, R[2], l, "ignoreoff") /\ R[4] = Step(o, R[3], l, s)
  BY <1>0, <1>1 DEF IsRun
<1>3. Fails(R[1]) \/ R[1] = mm
  <2>1. Running(mm, st, {<< >>})
    BY DEF Ready
  <2>2. R[1] = Step(o, mm, l, "ioccc")
    BY <1>2
  <2>3. R[1] = mm \/ R[1].status = "error"
    BY ONLY <2>1, <2>2, StepError
  <2>4. QED
    BY <2>3 DEF Fails
<1>4. CASE Fails(R[1])
  <2>1. R[2] = R[1]
    BY <1>2, <1>4, StepStops DEF Fails
  <2>2. R[3] = R[1]
    BY <1>2, <1>4, <2>1, StepStops DEF Fails
  <2>3. R[4] = R[1]
    BY <1>2, <1>4, <2>2, StepStops DEF Fails
  <2>4. QED
    BY <1>1, <1>4, <2>3
<1>5. CASE R[1] = mm
  <2>1. Running(R[2], st, Written(p, l))
    BY <1>2, <1>5, StepWrites DEF Ready, Writers
  <2>2. Running(R[3], st, Written(p, l))
    BY <1>2, <2>1, StepIgnores
  <2>3. Running(R[4], Append(Front(st), s), Written(p, l))
    BY <1>2, <2>2, StepSetsState
  <2>4. QED
    BY <1>1, <2>3
<1>6. QED
  BY <1>3, <1>4, <1>5

-----------------------------------------------------------------------------
(* What the table says *)

\* What two sequences make when they are joined.
Joins(S, s, t, u) ==
    /\ s \in Seq(S) /\ t \in Seq(S) /\ u \in Seq(S) /\ Len(u) = Len(s) + Len(t)
    /\ \A i \in 1..Len(s) : s[i] = u[i]
    /\ \A i \in 1..Len(t) : t[i] = u[Len(s) + i]

\* Two sequences joined are the one that has the elements of both.
LEMMA Joined ==
    ASSUME NEW S, NEW s, NEW t, NEW u, Joins(S, s, t, u)
    PROVE  s \o t = u
<1>0. /\ s \in Seq(S) /\ t \in Seq(S) /\ u \in Seq(S) /\ Len(u) = Len(s) + Len(t)
      /\ \A i \in 1..Len(s) : s[i] = u[i]
      /\ \A i \in 1..Len(t) : t[i] = u[Len(s) + i]
  BY DEF Joins
<1>1. /\ s \o t \in Seq(S) /\ Len(s \o t) = Len(s) + Len(t)
      /\ \A i \in 1..Len(s) + Len(t) : (s \o t)[i] = IF i <= Len(s) THEN s[i] ELSE t[i - Len(s)]
  BY <1>0, ConcatProperties
<1>2. Len(s) \in Nat /\ Len(t) \in Nat
  BY <1>0
<1>3. ASSUME NEW i \in 1..Len(u) PROVE (s \o t)[i] = u[i]
  <2>1. CASE i <= Len(s)
    BY <1>0, <1>1, <1>2, <2>1
  <2>2. CASE ~(i <= Len(s))
    <3> DEFINE j == i - Len(s)
    <3>1. j \in 1..Len(t) /\ Len(s) + j = i
      BY <1>0, <1>2, <2>2
    <3>2. t[j] = u[i]
      BY <1>0, <3>1
    <3>3. (s \o t)[i] = t[j]
      BY <1>0, <1>1, <1>2, <2>2
    <3>4. QED
      BY <3>2, <3>3
  <2>3. QED
    BY <2>1, <2>2
<1>4. QED
  BY <1>0, <1>1, <1>3, SeqEqual

\* The functions that are put together, step by step.
LEMMA Functions ==
    /\ Fdrop = <<"nest", "drop", "ignoreoff", "FALSE_TRAILER">>
    /\ Fpass = <<"nest", "print", "ignoreoff", "PASS_MIDDLE">>
    /\ Ftrue = <<"nest", "drop", "ignoreoff", "TRUE_PREFIX">>
    /\ Ffalse = <<"nest", "drop", "ignoreoff", "FALSE_PREFIX">>
    /\ Idrop = <<"nest", "drop", "ignoreoff", "FALSE_TRAILER", "ignoreon">>
    /\ Itrue = <<"nest", "drop", "ignoreoff", "TRUE_PREFIX", "ignoreon">>
    /\ Ifalse = <<"nest", "drop", "ignoreoff", "FALSE_PREFIX", "ignoreon">>
    /\ Oif = <<"ioccc", "nest", "print", "ignoreoff", "PASS_MIDDLE">>
    /\ Oiffy = <<"ioccc", "nest", "print", "ignoreoff", "PASS_MIDDLE", "ignoreon">>
    /\ Oelif = <<"ioccc", "print", "ignoreoff", "PASS_MIDDLE">>
<1>1. ASSUME NEW a, NEW b, NEW c, NEW d PROVE <<a>> \o <<b, c, d>> = <<a, b, c, d>>
  <2> DEFINE S == {a, b, c, d}
             s == <<a>>
             t == <<b, c, d>>
             u == <<a, b, c, d>>
  <2>1. /\ s \in Seq(S) /\ t \in Seq(S) /\ u \in Seq(S) /\ Len(s) = 1 /\ Len(t) = 3 /\ Len(u) = 4
        /\ s[1] = u[1]
        /\ t[1] = u[2] /\ t[2] = u[3] /\ t[3] = u[4]
    OBVIOUS
  <2> HIDE DEF S, s, t, u
  <2>2. (\A i \in 1..1 : i = 1) /\ (\A i \in 1..3 : i = 1 \/ i = 2 \/ i = 3)
    OBVIOUS
  <2>3. Joins(S, s, t, u)
    BY <2>1, <2>2 DEF Joins
  <2>4. s \o t = u
    BY <2>3, Joined
  <2>5. QED
    BY <2>4 DEF s, t, u
<1>2. ASSUME NEW a, NEW b, NEW c, NEW d, NEW e PROVE <<a, b, c, d>> \o <<e>> = <<a, b, c, d, e>>
  <2> DEFINE S == {a, b, c, d, e}
             s == <<a, b, c, d>>
             t == <<e>>
             u == <<a, b, c, d, e>>
  <2>1. /\ s \in Seq(S) /\ t \in Seq(S) /\ u \in Seq(S) /\ Len(s) = 4 /\ Len(t) = 1 /\ Len(u) = 5
        /\ s[1] = u[1] /\ s[2] = u[2] /\ s[3] = u[3] /\ s[4] = u[4]
        /\ t[1] = u[5]
    OBVIOUS
  <2> HIDE DEF S, s, t, u
  <2>2. (\A i \in 1..4 : i = 1 \/ i = 2 \/ i = 3 \/ i = 4) /\ (\A i \in 1..1 : i = 1)
    OBVIOUS
  <2>3. Joins(S, s, t, u)
    BY <2>1, <2>2 DEF Joins
  <2>4. s \o t = u
    BY <2>3, Joined
  <2>5. QED
    BY <2>4 DEF s, t, u
<1>3. ASSUME NEW a, NEW b, NEW c, NEW d, NEW e PROVE <<a>> \o <<b, c, d, e>> = <<a, b, c, d, e>>
  <2> DEFINE S == {a, b, c, d, e}
             s == <<a>>
             t == <<b, c, d, e>>
             u == <<a, b, c, d, e>>
  <2>1. /\ s \in Seq(S) /\ t \in Seq(S) /\ u \in Seq(S) /\ Len(s) = 1 /\ Len(t) = 4 /\ Len(u) = 5
        /\ s[1] = u[1]
        /\ t[1] = u[2] /\ t[2] = u[3] /\ t[3] = u[4] /\ t[4] = u[5]
    OBVIOUS
  <2> HIDE DEF S, s, t, u
  <2>2. (\A i \in 1..1 : i = 1) /\ (\A i \in 1..4 : i = 1 \/ i = 2 \/ i = 3 \/ i = 4)
    OBVIOUS
  <2>3. Joins(S, s, t, u)
    BY <2>1, <2>2 DEF Joins
  <2>4. s \o t = u
    BY <2>3, Joined
  <2>5. QED
    BY <2>4 DEF s, t, u
<1>4. ASSUME NEW a, NEW b, NEW c, NEW d, NEW e, NEW f PROVE <<a, b, c, d, e>> \o <<f>> = <<a, b, c, d, e, f>>
  <2> DEFINE S == {a, b, c, d, e, f}
             s == <<a, b, c, d, e>>
             t == <<f>>
             u == <<a, b, c, d, e, f>>
  <2>1. /\ s \in Seq(S) /\ t \in Seq(S) /\ u \in Seq(S) /\ Len(s) = 5 /\ Len(t) = 1 /\ Len(u) = 6
        /\ s[1] = u[1] /\ s[2] = u[2] /\ s[3] = u[3] /\ s[4] = u[4] /\ s[5] = u[5]
        /\ t[1] = u[6]
    OBVIOUS
  <2> HIDE DEF S, s, t, u
  <2>2. (\A i \in 1..5 : i = 1 \/ i = 2 \/ i = 3 \/ i = 4 \/ i = 5) /\ (\A i \in 1..1 : i = 1)
    OBVIOUS
  <2>3. Joins(S, s, t, u)
    BY <2>1, <2>2 DEF Joins
  <2>4. s \o t = u
    BY <2>3, Joined
  <2>5. QED
    BY <2>4 DEF s, t, u
<1>5. /\ Fdrop = <<"nest", "drop", "ignoreoff", "FALSE_TRAILER">>
      /\ Fpass = <<"nest", "print", "ignoreoff", "PASS_MIDDLE">>
      /\ Ftrue = <<"nest", "drop", "ignoreoff", "TRUE_PREFIX">>
      /\ Ffalse = <<"nest", "drop", "ignoreoff", "FALSE_PREFIX">>
      /\ Oelif = <<"ioccc", "print", "ignoreoff", "PASS_MIDDLE">>
  BY <1>1 DEF Fdrop, Fpass, Ftrue, Ffalse, Oelif, Dfalse, Pelif, Strue, Sfalse
<1>6. /\ Idrop = <<"nest", "drop", "ignoreoff", "FALSE_TRAILER", "ignoreon">>
      /\ Itrue = <<"nest", "drop", "ignoreoff", "TRUE_PREFIX", "ignoreon">>
      /\ Ifalse = <<"nest", "drop", "ignoreoff", "FALSE_PREFIX", "ignoreon">>
  BY <1>2, <1>5 DEF Idrop, Itrue, Ifalse
<1>7. Oif = <<"ioccc", "nest", "print", "ignoreoff", "PASS_MIDDLE">>
  BY <1>3, <1>5 DEF Oif
<1>8. Oiffy = <<"ioccc", "nest", "print", "ignoreoff", "PASS_MIDDLE", "ignoreon">>
  BY <1>4, <1>7 DEF Oiffy
<1>9. QED
  BY <1>5, <1>6, <1>7, <1>8

\* A group opens: hidden in what is hidden, passed, or entered as its condition is known.
LEMMA OpenTable ==
    ASSUME NEW is, NEW type, type.lt \in OpenTypes, type.dodgy \in BOOLEAN
    PROVE  /\ is \notin Printing => TransTable(is, type) \in {Fdrop, Idrop}
           /\ is \in Printing =>
                \/ type.lt = "IF" /\ TransTable(is, type) = Fpass
                \/ type.dodgy /\ TransTable(is, type) \in {Oif, Oiffy}
                \/ type.lt \in {"TRUE", "TRUEI"} /\ TransTable(is, type) \in {Ftrue, Itrue}
                \/ type.lt \in {"FALSE", "FALSEI"} /\ TransTable(is, type) \in {Ffalse, Ifalse}
<1>1. TransTable(is, type) = OpenColumn(is, type)
  BY DEF TransTable, OpenTypes, RestTypes
<1>2. CASE is \notin Printing
  BY <1>1, <1>2 DEF OpenColumn
<1>3. CASE is \in Printing
  <2>1. CASE type.lt = "IF"
    BY <1>1, <1>3, <2>1 DEF OpenColumn
  <2>2. CASE type.lt = "TRUE"
    BY <1>1, <1>3, <2>2 DEF OpenColumn
  <2>3. CASE type.lt = "TRUEI"
    BY <1>1, <1>3, <2>3 DEF OpenColumn
  <2>4. CASE type.lt = "FALSE"
    BY <1>1, <1>3, <2>4 DEF OpenColumn
  <2>5. CASE type.lt = "FALSEI"
    BY <1>1, <1>3, <2>5 DEF OpenColumn
  <2>6. QED
    BY <2>1, <2>2, <2>3, <2>4, <2>5 DEF OpenTypes
<1>4. QED
  BY <1>2, <1>3

\* A plain line is printed where the state prints.
LEMMA PlainTable ==
    ASSUME NEW is, NEW type, type.lt = "PLAIN"
    PROVE  TransTable(is, type) = IF is \in Printing THEN <<"print">> ELSE <<"drop">>
BY DEF TransTable, PlainColumn, OpenTypes, RestTypes

\* At the end of the file the machine is done outside of all groups.
LEMMA EndTable ==
    ASSUME NEW is, NEW type, type.lt = "EOF"
    PROVE  TransTable(is, type) = IF is = "OUTSIDE" THEN <<"done">> ELSE Error
BY DEF TransTable, OpenTypes, RestTypes

\* Outside of all groups, and behind an #else.
LEMMA ErrorTable ==
    ASSUME NEW type, type.lt \in RestTypes, type.dodgy \in BOOLEAN
    PROVE  TransTable("OUTSIDE", type) = Error
<1>1. TransTable("OUTSIDE", type) = Errors[Column(type.lt)]
  BY DEF TransTable, RestColumn, OpenTypes, RestTypes, CleanTable, DodgyTable
<1>2. Column(type.lt) \in 1..5
  BY DEF Column, RestTypes
<1>3. QED
  BY <1>1, <1>2 DEF Errors

\* The column of a type, and the two tables read by state.
LEMMA CleanRows ==
    /\ CleanTable["FALSE_PREFIX"] = <<Mpass, Strue, Sfalse, Selse, Dendif>>
    /\ CleanTable["TRUE_PREFIX"] = <<Dfalse, Dfalse, Dfalse, Delse, Dendif>>
    /\ CleanTable["PASS_MIDDLE"] = <<Pelif, Mtrue, Delif, Pelse, Pendif>>
    /\ CleanTable["FALSE_MIDDLE"] = <<Pelif, Mtrue, Delif, Pelse, Pendif>>
    /\ CleanTable["TRUE_MIDDLE"] = <<Melif, Melif, Melif, Melse, Pendif>>
    /\ CleanTable["PASS_ELSE"] = <<Error, Error, Error, Error, Pendif>>
    /\ CleanTable["FALSE_ELSE"] = <<Error, Error, Error, Error, Dendif>>
    /\ CleanTable["TRUE_ELSE"] = <<Error, Error, Error, Error, Dendif>>
    /\ CleanTable["FALSE_TRAILER"] = <<Dfalse, Dfalse, Dfalse, Delse, Dendif>>
BY DEF CleanTable

\* The same for directives that are not on one line.
LEMMA DodgyRows ==
    /\ DodgyTable["FALSE_PREFIX"] = <<Mpass, Error, Error, Error, Error>>
    /\ DodgyTable["TRUE_PREFIX"] = Errors
    /\ DodgyTable["PASS_MIDDLE"] = <<Pelif, Oelif, Oelif, Pelse, Pendif>>
    /\ DodgyTable["FALSE_MIDDLE"] = Errors
    /\ DodgyTable["TRUE_MIDDLE"] = <<Error, Error, Error, Error, Pendif>>
    /\ DodgyTable["PASS_ELSE"] = <<Error, Error, Error, Error, Pendif>>
    /\ DodgyTable["FALSE_ELSE"] = Errors
    /\ DodgyTable["TRUE_ELSE"] = Errors
    /\ DodgyTable["FALSE_TRAILER"] = <<Dfalse, Dfalse, Dfalse, Delse, Error>>
BY DEF DodgyTable

ElseStates == {"PASS_ELSE", "FALSE_ELSE", "TRUE_ELSE"}

\* An #endif closes the group in the output if it is there.
LEMMA EndifTable ==
    ASSUME NEW is \in Inside, NEW type, type.lt = "ENDIF", type.dodgy \in BOOLEAN
    PROVE  \/ TransTable(is, type) = Error /\ type.dodgy
           \/ TransTable(is, type) = IF is \in Emitting THEN Pendif ELSE Dendif
<1>1. TransTable(is, type) = (IF type.dodgy THEN DodgyTable ELSE CleanTable)[is][5]
  BY DEF TransTable, RestColumn, OpenTypes, RestTypes, Column
<1>2. CASE type.dodgy
  BY <1>1, <1>2, DodgyRows DEF Errors, Emitting, Inside, IfStates
<1>3. CASE ~type.dodgy
  BY <1>1, <1>3, CleanRows DEF Emitting, Inside, IfStates
<1>4. QED
  BY <1>2, <1>3

\* An #else, in a group that had none.
LEMMA ElseTable ==
    ASSUME NEW is \in Inside, NEW type, type.lt = "ELSE", type.dodgy \in BOOLEAN, is \notin ElseStates
    PROVE  \/ TransTable(is, type) = Error /\ type.dodgy
           \/ is = "FALSE_PREFIX" /\ TransTable(is, type) = Selse
           \/ is \in {"TRUE_PREFIX", "FALSE_TRAILER"} /\ TransTable(is, type) = Delse
           \/ is \in {"PASS_MIDDLE", "FALSE_MIDDLE"} /\ TransTable(is, type) = Pelse
           \/ is = "TRUE_MIDDLE" /\ TransTable(is, type) = Melse
<1>1. TransTable(is, type) = (IF type.dodgy THEN DodgyTable ELSE CleanTable)[is][4]
  BY DEF TransTable, RestColumn, OpenTypes, RestTypes, Column
<1>2. CASE type.dodgy
  BY <1>1, <1>2, DodgyRows DEF Errors, ElseStates, Inside, IfStates
<1>3. CASE ~type.dodgy
  BY <1>1, <1>3, CleanRows DEF ElseStates, Inside, IfStates
<1>4. QED
  BY <1>2, <1>3

ElifTypes == {"ELIF", "ELTRUE", "ELFALSE"}

\* An #elif, in a group that had no #else.
LEMMA ElifTable ==
    ASSUME NEW is \in Inside, NEW type, type.lt \in ElifTypes, type.dodgy \in BOOLEAN, is \notin ElseStates
    PROVE  \/ TransTable(is, type) = Error /\ type.dodgy
           \/ is = "FALSE_PREFIX" /\ TransTable(is, type) =
                 CASE type.lt = "ELIF" -> Mpass [] type.lt = "ELTRUE" -> Strue [] type.lt = "ELFALSE" -> Sfalse
           \/ is \in {"TRUE_PREFIX", "FALSE_TRAILER"} /\ TransTable(is, type) = Dfalse
           \/ is \in {"PASS_MIDDLE", "FALSE_MIDDLE"} /\ TransTable(is, type) =
                 CASE type.lt = "ELIF" -> Pelif [] type.lt = "ELTRUE" -> Mtrue [] type.lt = "ELFALSE" -> Delif
           \/ is = "PASS_MIDDLE" /\ type.dodgy /\ TransTable(is, type) = Oelif
           \/ is = "TRUE_MIDDLE" /\ TransTable(is, type) = Melif
<1>1. TransTable(is, type) = (IF type.dodgy THEN DodgyTable ELSE CleanTable)[is][Column(type.lt)]
  BY DEF TransTable, RestColumn, OpenTypes, RestTypes, ElifTypes
<1>2. Column("ELIF") = 1 /\ Column("ELTRUE") = 2 /\ Column("ELFALSE") = 3
  BY DEF Column
<1>3. CASE type.dodgy
  <2>1. CASE type.lt = "ELIF"
    BY <1>1, <1>2, <1>3, <2>1, DodgyRows DEF Errors, ElseStates, Inside, IfStates
  <2>2. CASE type.lt = "ELTRUE"
    BY <1>1, <1>2, <1>3, <2>2, DodgyRows DEF Errors, ElseStates, Inside, IfStates
  <2>3. CASE type.lt = "ELFALSE"
    BY <1>1, <1>2, <1>3, <2>3, DodgyRows DEF Errors, ElseStates, Inside, IfStates
  <2>4. QED
    BY <2>1, <2>2, <2>3 DEF ElifTypes
<1>4. CASE ~type.dodgy
  <2>1. CASE type.lt = "ELIF"
    BY <1>1, <1>2, <1>4, <2>1, CleanRows DEF ElseStates, Inside, IfStates
  <2>2. CASE type.lt = "ELTRUE"
    BY <1>1, <1>2, <1>4, <2>2, CleanRows DEF ElseStates, Inside, IfStates
  <2>3. CASE type.lt = "ELFALSE"
    BY <1>1, <1>2, <1>4, <2>3, CleanRows DEF ElseStates, Inside, IfStates
  <2>4. QED
    BY <2>1, <2>2, <2>3 DEF ElifTypes
<1>5. QED
  BY <1>3, <1>4

-----------------------------------------------------------------------------
(* The preprocessor on one line *)

PreType(p) ==
    /\ p \in [groups : Seq(Group), text : Seq(Names), ok : BOOLEAN]
    /\ Len(p.groups) >= 1

\* Only the groups change.
With(p, gs) == [groups |-> gs, text |-> p.text, ok |-> TRUE]

\* A line of text is read where the groups are.
LEMMA PlainLine ==
    ASSUME NEW p, PreType(p), p.ok, NEW l \in TextLines
    PROVE  /\ Preprocess(p, l, FALSE) = [groups |-> p.groups, ok |-> TRUE,
                  text |-> IF Reading(p) THEN Append(p.text, l.name) ELSE p.text]
           /\ PreType(Preprocess(p, l, FALSE)) /\ Preprocess(p, l, FALSE).ok
<1>1. l.kind = "plain" /\ ~l.blank /\ l.name \in Names
  BY DEF TextLines
<1>2. ~Misplaced(p, l) /\ Groups(p, l, FALSE) = p.groups
      /\ Text(p, l) = IF Reading(p) THEN Append(p.text, l.name) ELSE p.text
  BY <1>1 DEF Misplaced, Groups, Text, Openers
<1>3. Preprocess(p, l, FALSE) = [groups |-> p.groups, text |-> Text(p, l), ok |-> TRUE]
  BY <1>2 DEF Preprocess
<1>4. Text(p, l) \in Seq(Names)
  BY <1>1, <1>2 DEF PreType
<1>5. [groups |-> p.groups, text |-> Text(p, l), ok |-> TRUE] \in [groups : Seq(Group), text : Seq(Names), ok : BOOLEAN]
  BY <1>4 DEF PreType
<1>6. PreType(Preprocess(p, l, FALSE)) /\ Preprocess(p, l, FALSE).ok
  <2> DEFINE r == [groups |-> p.groups, text |-> Text(p, l), ok |-> TRUE]
  <2>1. r.groups = p.groups /\ r.ok
    OBVIOUS
  <2>2. r \in [groups : Seq(Group), text : Seq(Names), ok : BOOLEAN]
    BY <1>5
  <2> HIDE DEF r
  <2>3. Len(r.groups) >= 1
    BY <2>1 DEF PreType
  <2>4. PreType(r) /\ r.ok
    BY <2>1, <2>2, <2>3 DEF PreType
  <2>5. QED
    BY <1>3, <2>4 DEF r
<1>7. QED
  BY <1>2, <1>3, <1>6

\* A blank line means nothing.
LEMMA BlankLine ==
    ASSUME NEW p, PreType(p), p.ok
    PROVE  Preprocess(p, Blank, FALSE) = p
<1>1. ~Misplaced(p, Blank) /\ Groups(p, Blank, FALSE) = p.groups /\ Text(p, Blank) = p.text
  BY DEF Misplaced, Groups, Text, Openers, Blank
<1>2. Preprocess(p, Blank, FALSE) = [groups |-> p.groups, text |-> p.text, ok |-> TRUE]
  BY <1>1 DEF Preprocess
<1>3. QED
  BY <1>2 DEF PreType

\* An #if opens a group.
LEMMA OpenLine ==
    ASSUME NEW p, PreType(p), p.ok, NEW l, l.kind \in Openers, NEW holds
    PROVE  Preprocess(p, l, holds) = With(p, Append(p.groups, Opened(holds)))
<1>1. ~Misplaced(p, l) /\ Groups(p, l, holds) = Append(p.groups, Opened(holds)) /\ Text(p, l) = p.text
  BY DEF Misplaced, Groups, Text, Openers
<1>2. QED
  BY <1>1 DEF Preprocess, With

\* A group that goes on is a group.
LEMMA Turns ==
    ASSUME NEW g \in Group, NEW holds \in BOOLEAN, NEW e \in BOOLEAN
    PROVE  Turn(g, holds, e) \in Group
BY DEF Turn, Group

\* An #elif lets the group on top go on.
LEMMA ElifLine ==
    ASSUME NEW p, PreType(p), p.ok, NEW l, l.kind = "elif", NEW holds \in BOOLEAN,
           Len(p.groups) >= 2, ~Last(p.groups).else
    PROVE  Preprocess(p, l, holds) = With(p, Append(Front(p.groups), Turn(Last(p.groups), holds, FALSE)))
<1>1. ~Misplaced(p, l) /\ Text(p, l) = p.text
      /\ Groups(p, l, holds) = [p.groups EXCEPT ![Len(p.groups)] = Turn(Last(p.groups), holds, FALSE)]
  BY DEF Misplaced, Groups, Text, Openers, Last
<1>2. p.groups \in Seq(Group) /\ Len(p.groups) >= 1
  BY DEF PreType
<1>3. Turn(Last(p.groups), holds, FALSE) \in Group
  BY <1>2, FrontFacts, Turns
<1>4. Groups(p, l, holds) = Append(Front(p.groups), Turn(Last(p.groups), holds, FALSE))
  <2> DEFINE gs == p.groups
             g == Turn(Last(p.groups), holds, FALSE)
  <2>1. gs \in Seq(Group) /\ Len(gs) >= 1 /\ g \in Group
    BY <1>2, <1>3
  <2> HIDE DEF gs, g
  <2>2. [gs EXCEPT ![Len(gs)] = g] = Append(Front(gs), g)
    BY <2>1, ExceptLast
  <2>3. QED
    BY <1>1, <2>2 DEF gs, g
<1>5. QED
  BY <1>1, <1>4 DEF Preprocess, With

\* So does an #else.
LEMMA ElseLine ==
    ASSUME NEW p, PreType(p), p.ok, NEW l, l.kind = "else", NEW holds \in BOOLEAN,
           Len(p.groups) >= 2, ~Last(p.groups).else
    PROVE  Preprocess(p, l, holds) = With(p, Append(Front(p.groups), Turn(Last(p.groups), TRUE, TRUE)))
<1>1. ~Misplaced(p, l) /\ Text(p, l) = p.text
      /\ Groups(p, l, holds) = [p.groups EXCEPT ![Len(p.groups)] = Turn(Last(p.groups), TRUE, TRUE)]
  BY DEF Misplaced, Groups, Text, Openers, Last
<1>2. p.groups \in Seq(Group) /\ Len(p.groups) >= 1
  BY DEF PreType
<1>3. Turn(Last(p.groups), TRUE, TRUE) \in Group
  BY <1>2, FrontFacts, Turns
<1>4. Groups(p, l, holds) = Append(Front(p.groups), Turn(Last(p.groups), TRUE, TRUE))
  <2> DEFINE gs == p.groups
             g == Turn(Last(p.groups), TRUE, TRUE)
  <2>1. gs \in Seq(Group) /\ Len(gs) >= 1 /\ g \in Group
    BY <1>2, <1>3
  <2> HIDE DEF gs, g
  <2>2. [gs EXCEPT ![Len(gs)] = g] = Append(Front(gs), g)
    BY <2>1, ExceptLast
  <2>3. QED
    BY <1>1, <2>2 DEF gs, g
<1>5. QED
  BY <1>1, <1>4 DEF Preprocess, With

\* An #endif closes it.
LEMMA EndifLine ==
    ASSUME NEW p, PreType(p), p.ok, NEW l, l.kind = "endif", NEW holds, Len(p.groups) >= 2
    PROVE  Preprocess(p, l, holds) = With(p, Front(p.groups))
<1>1. Len(p.groups) # 1
  <2>1. Len(p.groups) \in Nat
    BY DEF PreType
  <2>2. \A n \in Nat : n >= 2 => n # 1
    OBVIOUS
  <2>3. QED
    BY <2>1, <2>2
<1>2. ~Misplaced(p, l)
  BY <1>1 DEF Misplaced
<1>3. Text(p, l) = p.text /\ Groups(p, l, holds) = Front(p.groups)
  BY DEF Groups, Text, Openers
<1>4. QED
  BY <1>2, <1>3 DEF Preprocess, With

\* A line the preprocessor refuses.
LEMMA RefusedLine ==
    ASSUME NEW p, PreType(p), NEW l, NEW holds, ~p.ok \/ Misplaced(p, l)
    PROVE  ~Preprocess(p, l, holds).ok /\ PreType(Preprocess(p, l, holds))
<1>1. Preprocess(p, l, holds) = [p EXCEPT !.ok = FALSE]
  BY DEF Preprocess
<1>2. QED
  BY <1>1 DEF PreType

\* Only a condition that is evaluated is rejected.
LEMMA NotRejected ==
    ASSUME NEW env, NEW q, NEW k, k.kind \notin {"if", "elif"}
    PROVE  ~Rejects(env, q, k)
BY DEF Rejects, Evaluates

\* What the second preprocessor makes of what is written, whichever it is.
Makes(env, q, W, r) == \A w \in W : Len(w) <= 1 /\ Compiled(env, q, w) = r

LEMMA CompiledFacts ==
    ASSUME NEW env, NEW q, PreType(q), q.ok
    PROVE  /\ Makes(env, q, {<< >>, <<Blank>>}, q)
           /\ \A k : ~Rejects(env, q, k) => Makes(env, q, {<<k>>}, Preprocess(q, k, Holds(env, k)))
<1>1. ASSUME NEW k, ~Rejects(env, q, k) PROVE Compiled(env, q, <<k>>) = Preprocess(q, k, Holds(env, k))
  <2>1. Last(<<k>>) = k
    BY DEF Last
  <2>2. QED
    BY <1>1, <2>1 DEF Compiled, Compile
<1>2. Compiled(env, q, << >>) = q
  BY DEF Compiled
<1>3. ~Holds(env, Blank) /\ ~Rejects(env, q, Blank)
  <2>1. Blank.kind = "plain"
    BY DEF Blank
  <2>2. QED
    BY <2>1, NotRejected DEF Holds, Openers
<1>4. Compiled(env, q, <<Blank>>) = q
  BY <1>1, <1>3, BlankLine DEF Holds
<1>5. Len(<< >>) <= 1 /\ \A k : Len(<<k>>) <= 1
  OBVIOUS
<1>6. QED
  BY <1>1, <1>2, <1>4, <1>5 DEF Makes

-----------------------------------------------------------------------------
(* One line through the machine *)

\* The two preprocessors are where the stack st says.
Same(st, p, q) ==
    /\ PreType(p) /\ PreType(q) /\ p.ok /\ q.ok /\ q.text = p.text
    /\ Corresponds(st, p.groups, q.groups)

\* Whatever the machine wrote, one line at most, they are so again.
Keeps(env, mm, p, q) ==
    \E st : \E W : Running(mm, st, W) /\ \A w \in W : Len(w) <= 1 /\ Same(st, p, Compiled(env, q, w))

\* The stacks are stacks, and alone on its stack is only OUTSIDE.
LEMMA StackFacts ==
    ASSUME NEW st, NEW ig, NEW og, Corresponds(st, ig, og)
    PROVE  /\ st \in Seq(IfStates) /\ ig \in Seq(Group) /\ og \in Seq(Group)
           /\ Len(st) >= 1 /\ Len(ig) = Len(st) /\ Len(og) >= 1
           /\ Len(st) = 1 => Last(st) = "OUTSIDE"
<1>1. PICK h : Stacks(st, ig, og, h)
  BY DEF Corresponds
<1>2. st \in Seq(IfStates) /\ ig \in Seq(Group) /\ og \in Seq(Group) /\ Len(st) >= 1 /\ Len(ig) = Len(st)
      /\ st[1] = "OUTSIDE" /\ Heights(Len(st), st, Len(og), h)
  BY <1>1 DEF Stacks
<1>3. Len(og) >= 1
  BY <1>2 DEF Heights
<1>4. QED
  BY <1>2, <1>3 DEF Last

\* Where the stacks correspond again and the texts are as they were, all is the same.
LEMMA SameAgain ==
    ASSUME NEW st, NEW p, NEW q, Same(st, p, q), NEW st2, NEW ig, NEW og, Corresponds(st2, ig, og)
    PROVE  Same(st2, With(p, ig), With(q, og))
<1>1. ig \in Seq(Group) /\ og \in Seq(Group) /\ Len(ig) >= 1 /\ Len(og) >= 1
  BY StackFacts
<1>2. p.text \in Seq(Names) /\ q.text \in Seq(Names) /\ q.text = p.text
  BY DEF Same, PreType
<1>3. /\ With(p, ig) \in [groups : Seq(Group), text : Seq(Names), ok : BOOLEAN]
      /\ With(q, og) \in [groups : Seq(Group), text : Seq(Names), ok : BOOLEAN]
      /\ With(p, ig).groups = ig /\ With(q, og).groups = og
      /\ With(p, ig).text = p.text /\ With(q, og).text = q.text
      /\ With(p, ig).ok /\ With(q, og).ok
  BY <1>1, <1>2 DEF With
<1>4. QED
  BY <1>1, <1>2, <1>3 DEF Same, PreType

\* A preprocessor that goes on as it is.
LEMMA SameWith ==
    ASSUME NEW st, NEW p, NEW q, Same(st, p, q)
    PROVE  q = With(q, q.groups)
BY DEF Same, PreType, With

\* A group is opened.
LEMMA PushKeeps ==
    ASSUME NEW env, NEW st, NEW p, NEW q, Same(st, p, q), NEW mm, NEW s \in Inside, NEW g \in Group, NEW o \in Group,
           Fits(st, s, g, o), NEW W, Running(mm, Append(st, s), W),
           Makes(env, q, W, With(q, IF s \in Emitting THEN Append(q.groups, o) ELSE q.groups))
    PROVE  Keeps(env, mm, With(p, Append(p.groups, g)), q)
<1> DEFINE ig == Append(p.groups, g)
           og == IF s \in Emitting THEN Append(q.groups, o) ELSE q.groups
<1>1. Corresponds(st, p.groups, q.groups)
  BY DEF Same
<1>2. Corresponds(Append(st, s), ig, og)
  BY <1>1, PushCorresponds
<1>3. Same(Append(st, s), With(p, ig), With(q, og))
  BY ONLY <1>2, Same(st, p, q), SameAgain
<1>4. Makes(env, q, W, With(q, og))
  OBVIOUS
<1> HIDE DEF ig, og
<1>5. \A w \in W : Len(w) <= 1 /\ Same(Append(st, s), With(p, ig), Compiled(env, q, w))
  BY <1>3, <1>4 DEF Makes
<1>6. QED
  BY <1>5 DEF Keeps, ig

\* A group goes on with another branch.
LEMMA TurnKeeps ==
    ASSUME NEW env, NEW st, NEW p, NEW q, Same(st, p, q), Len(st) >= 2, NEW mm, NEW s \in Inside, NEW g \in Group,
           NEW o \in Group, Fits(Front(st), s, g, o), NEW W, Running(mm, Append(Front(st), s), W),
           NEW og1, og1 = IF Last(st) \in Emitting THEN Front(q.groups) ELSE q.groups,
           Makes(env, q, W, With(q, IF s \in Emitting THEN Append(og1, o) ELSE og1))
    PROVE  Keeps(env, mm, With(p, Append(Front(p.groups), g)), q)
<1> DEFINE ig == Append(Front(p.groups), g)
           og == IF s \in Emitting THEN Append(og1, o) ELSE og1
<1>1. Corresponds(st, p.groups, q.groups)
  BY DEF Same
<1>2. Corresponds(Front(st), Front(p.groups), og1)
  BY <1>1, PopCorresponds
<1>3. Corresponds(Append(Front(st), s), ig, og)
  BY <1>2, PushCorresponds
<1>4. Same(Append(Front(st), s), With(p, ig), With(q, og))
  BY ONLY <1>3, Same(st, p, q), SameAgain
<1>5. Makes(env, q, W, With(q, og))
  OBVIOUS
<1> HIDE DEF ig, og
<1>6. \A w \in W : Len(w) <= 1 /\ Same(Append(Front(st), s), With(p, ig), Compiled(env, q, w))
  BY <1>4, <1>5 DEF Makes
<1>7. QED
  BY <1>6 DEF Keeps, ig

\* What each state on top says.
LEMMA FitsRows ==
    ASSUME NEW st, NEW g, NEW o
    PROVE  /\ Fits(st, "TRUE_PREFIX", g, o) <=> AllPrint(st) /\ g.on /\ g.done /\ ~g.else
           /\ Fits(st, "FALSE_PREFIX", g, o) <=> AllPrint(st) /\ ~g.on /\ ~g.done /\ ~g.else
           /\ Fits(st, "PASS_MIDDLE", g, o) <=>
                AllPrint(st) /\ (g.on <=> o.on) /\ (g.done <=> o.done) /\ ~g.else /\ ~o.else
           /\ Fits(st, "FALSE_MIDDLE", g, o) <=> AllPrint(st) /\ ~g.on /\ (g.done <=> o.done) /\ ~g.else /\ ~o.else
           /\ Fits(st, "TRUE_MIDDLE", g, o) <=> AllPrint(st) /\ (g.on <=> o.on) /\ g.done /\ ~g.else /\ o.else
           /\ Fits(st, "PASS_ELSE", g, o) <=> AllPrint(st) /\ (g.on <=> o.on) /\ g.else /\ o.else
           /\ Fits(st, "TRUE_ELSE", g, o) <=> AllPrint(st) /\ g.on /\ g.else
           /\ Fits(st, "FALSE_ELSE", g, o) <=> g.else /\ (AllPrint(st) => ~g.on)
           /\ Fits(st, "FALSE_TRAILER", g, o) <=> ~g.else /\ (AllPrint(st) => ~g.on /\ g.done)
<1>1. CASE AllPrint(st)
  <2>1. \A s : Fits(st, s, g, o) <=> Level(s, g, o)
    BY <1>1 DEF Fits
  <2>2. /\ Level("TRUE_PREFIX", g, o) <=> g.on /\ g.done /\ ~g.else
        /\ Level("FALSE_PREFIX", g, o) <=> ~g.on /\ ~g.done /\ ~g.else
        /\ Level("PASS_MIDDLE", g, o) <=> (g.on <=> o.on) /\ (g.done <=> o.done) /\ ~g.else /\ ~o.else
        /\ Level("FALSE_MIDDLE", g, o) <=> ~g.on /\ (g.done <=> o.done) /\ ~g.else /\ ~o.else
    BY DEF Level
  <2>3. /\ Level("TRUE_MIDDLE", g, o) <=> (g.on <=> o.on) /\ g.done /\ ~g.else /\ o.else
        /\ Level("PASS_ELSE", g, o) <=> (g.on <=> o.on) /\ g.else /\ o.else
        /\ Level("TRUE_ELSE", g, o) <=> g.on /\ g.else
        /\ Level("FALSE_ELSE", g, o) <=> ~g.on /\ g.else
        /\ Level("FALSE_TRAILER", g, o) <=> ~g.on /\ g.done /\ ~g.else
    BY DEF Level
  <2>4. QED
    BY <1>1, <2>1, <2>2, <2>3
<1>2. CASE ~AllPrint(st)
  <2>1. \A s : Fits(st, s, g, o) <=> Dead(s, g)
    BY <1>2 DEF Fits
  <2>2. QED
    BY <1>2, <2>1 DEF Dead
<1>3. QED
  BY <1>1, <1>2

Outcome(env, mm, p, q, l) ==
    \/ Keeps(env, mm, p, q)
    \/ Fails(mm) /\ (l.split \/ Len(p.groups) > MaxDepth)

\* What each writer may have written.
LEMMA WrittenFacts ==
    ASSUME NEW l
    PROVE  /\ Written("drop", l) = {<< >>, <<Blank>>}
           /\ l # Blank => Written("print", l) = {<<l>>}
           /\ Written("if", l) = {<<IfForElif(l)>>}
           /\ Written("else", l) = {<<Edited(l, "else")>>}
           /\ Written("endif", l) = {<<Edited(l, "endif")>>}
BY DEF Written

\* What the second preprocessor makes of what each writer writes.
LEMMA DropCompiled ==
    ASSUME NEW env, NEW q, PreType(q), q.ok, NEW l
    PROVE  Makes(env, q, Written("drop", l), q)
<1>1. Written("drop", l) = {<< >>, <<Blank>>}
  BY WrittenFacts
<1>2. QED
  BY <1>1, CompiledFacts

\* A printed directive is preprocessed like the one read.
LEMMA PrintCompiled ==
    ASSUME NEW env, NEW q, PreType(q), q.ok, NEW l, l # Blank, ~Rejects(env, q, l)
    PROVE  Makes(env, q, Written("print", l), Preprocess(q, l, Holds(env, l)))
<1>1. Written("print", l) = {<<l>>}
  BY WrittenFacts
<1>2. QED
  BY <1>1, CompiledFacts

\* A directive with a condition, and the #if that Mpass makes of an #elif.
LEMMA ConditionalFacts ==
    ASSUME NEW env, NEW l \in Conditionals
    PROVE  /\ l \in Lines /\ l # Blank /\ l.kind \in Openers \cup {"elif"}
           /\ l.split \in BOOLEAN /\ Holds(env, l) \in BOOLEAN
           /\ l.kind = "elif" => /\ IfForElif(l).kind = "if" /\ Holds(env, IfForElif(l)) = Holds(env, l)
                                 /\ IfForElif(l).e = l.e /\ IfForElif(l).junk = l.junk
<1>1. l \in Lines /\ l.kind \in Openers \cup {"elif"} /\ l.split \in BOOLEAN
  BY DEF Lines, Conditionals, Openers
<1>2. l # Blank
  <2>1. Blank.kind = "plain"
    BY DEF Blank
  <2>2. l.kind # "plain"
    BY <1>1 DEF Openers
  <2>3. QED
    BY <2>1, <2>2
<1>3. Holds(env, l) \in BOOLEAN
  BY DEF Holds
<1>4. ASSUME l.kind = "elif"
      PROVE  /\ IfForElif(l).kind = "if" /\ Holds(env, IfForElif(l)) = Holds(env, l)
             /\ IfForElif(l).e = l.e /\ IfForElif(l).junk = l.junk
  <2> DEFINE l2 == IfForElif(l)
  <2>1. l2.kind = "if" /\ l2.e = l.e /\ l2.junk = l.junk
    BY <1>4 DEF IfForElif, Conditionals
  <2> HIDE DEF l2
  <2>2. NotC(l2) = NotC(l)
    BY <1>4, <2>1 DEF NotC
  <2>3. IsTrue(env, l2) = IsTrue(env, l)
    BY <1>4, <2>1, <2>2 DEF IsTrue
  <2>4. Holds(env, l2) = Holds(env, l)
    BY <1>4, <2>1, <2>3 DEF Holds, Openers
  <2>5. QED
    BY <2>1, <2>4 DEF l2
<1>5. QED
  BY <1>1, <1>2, <1>3, <1>4

\* The text is read in the output where it is in the file, or hidden by the machine.
LEMMA SameReading ==
    ASSUME NEW st, NEW p, NEW q, Same(st, p, q)
    PROVE  /\ Last(st) \in Printing => (Reading(p) <=> Reading(q))
           /\ Last(st) \notin Printing => ~Reading(p)
BY TopDecides DEF Same, Reading

\* A group is opened: where nothing is printed, or the condition is known, the
\* group is not in the output.
LEMMA OpenHidden ==
    ASSUME NEW env, NEW st, NEW p, NEW q, Same(st, p, q), NEW mm, NEW l, NEW s \in Inside, s \notin Emitting, NEW g \in Group,
           \E o \in Group : Fits(st, s, g, o), Opens(mm, st, s, Written("drop", l))
    PROVE  Outcome(env, mm, With(p, Append(p.groups, g)), q, l)
<1>1. CASE Len(st) = MaxDepth
  <2>1. Fails(mm)
    BY <1>1 DEF Opens
  <2>2. p.groups \in Seq(Group) /\ Len(p.groups) = MaxDepth
    BY <1>1, StackFacts DEF Same
  <2>3. Len(Append(p.groups, g)) > MaxDepth
    BY <2>2
  <2>4. QED
    BY <2>1, <2>3 DEF Outcome, With
<1>2. CASE Len(st) # MaxDepth
  <2>1. Running(mm, Append(st, s), Written("drop", l))
    BY <1>2 DEF Opens
  <2>2. PICK o \in Group : Fits(st, s, g, o)
    OBVIOUS
  <2>3. Makes(env, q, Written("drop", l), q)
    BY DropCompiled DEF Same
  <2>4. q = With(q, q.groups)
    BY SameWith
  <2>5. Makes(env, q, Written("drop", l), With(q, IF s \in Emitting THEN Append(q.groups, o) ELSE q.groups))
    BY <2>3, <2>4
  <2>6. Keeps(env, mm, With(p, Append(p.groups, g)), q)
    BY <2>1, <2>2, <2>5, PushKeeps
  <2>7. QED
    BY <2>6 DEF Outcome
<1>3. QED
  BY <1>1, <1>2

\* A group is opened whose condition is not known: it is in the output.
LEMMA OpenShown ==
    ASSUME NEW env, NEW st, NEW p, NEW q, Same(st, p, q), NEW mm, NEW l \in Conditionals, l.kind \in Openers,
           ~Rejects(env, p, l), AllPrint(st), Opens(mm, st, "PASS_MIDDLE", Written("print", l))
    PROVE  Outcome(env, mm, With(p, Append(p.groups, Opened(Holds(env, l)))), q, l)
<1> DEFINE g == Opened(Holds(env, l))
<1>0. g \in Group /\ Holds(env, l) = Holds(env, l) /\ l # Blank
  BY ConditionalFacts DEF Opened, Group
<1>1. CASE Len(st) = MaxDepth
  <2>1. Fails(mm)
    BY <1>1 DEF Opens
  <2>2. p.groups \in Seq(Group) /\ Len(p.groups) = MaxDepth
    BY <1>1, StackFacts DEF Same
  <2> HIDE DEF g
  <2>3. Len(Append(p.groups, g)) > MaxDepth
    BY <2>2, <1>0
  <2>4. QED
    BY <2>1, <2>3 DEF Outcome, With, g
<1>2. CASE Len(st) # MaxDepth
  <2>1. Running(mm, Append(st, "PASS_MIDDLE"), Written("print", l))
    BY <1>2 DEF Opens
  <2>2. g.on \in BOOLEAN /\ g.done \in BOOLEAN /\ ~g.else
    BY <1>0 DEF Opened, Group
  <2>3. Preprocess(q, l, Holds(env, l)) = With(q, Append(q.groups, g))
    BY <1>0, OpenLine DEF Same
  <2>4. Makes(env, q, Written("print", l), With(q, Append(q.groups, g)))
    <3>1. Reading(p) <=> Reading(q)
      BY SameReading, TopDecides DEF Same
    <3>2. ~Rejects(env, q, l)
      BY <3>1 DEF Rejects, Evaluates, Openers
    <3>3. QED
      BY <1>0, <2>3, <3>2, PrintCompiled DEF Same
  <2> HIDE DEF g
  <2>5. Fits(st, "PASS_MIDDLE", g, g)
    BY <2>2, FitsRows
  <2>6. "PASS_MIDDLE" \in Inside /\ "PASS_MIDDLE" \in Emitting
    BY DEF Inside, Emitting, IfStates
  <2>7. Keeps(env, mm, With(p, Append(p.groups, g)), q)
    BY <1>0, <2>1, <2>4, <2>5, <2>6, PushKeeps
  <2>8. QED
    BY <2>7 DEF Outcome, g
<1>3. QED
  BY <1>1, <1>2

\* What a machine that is ready to read knows.
LEMMA ReadyFacts ==
    ASSUME NEW o, NEW mm, NEW l, NEW st, Ready(o, mm, l, st), NEW p, NEW q, Same(st, p, q)
    PROVE  /\ mm.ifstate = st /\ l \in Lines
           /\ Last(st) \in Printing <=> AllPrint(st)
BY TopDecides DEF Ready, Running, Same

\* An #if, whatever is known of its condition.
LEMMA OpenKeeps ==
    ASSUME NEW env, NEW o, NEW mm, NEW l, NEW st, Ready(o, mm, l, st), NEW p, NEW q, Same(st, p, q),
           l \in Conditionals, l.kind \in Openers, ~Rejects(env, p, l), NEW type \in LineTypes(env, l)
    PROVE  Outcome(env, Apply(o, mm, l, type), Preprocess(p, l, Holds(env, l)), q, l)
<1> DEFINE m2 == Apply(o, mm, l, type)
           g == Opened(Holds(env, l))
           p2 == With(p, Append(p.groups, g))
<1>1. type.dodgy = l.split /\ type.dodgy \in BOOLEAN /\ type.lt \in OpenTypes
      /\ (type.lt \in {"TRUE", "TRUEI"} => Holds(env, l)) /\ (type.lt \in {"FALSE", "FALSEI"} => ~Holds(env, l))
  <2>1. type.lt \in Verdicts(env, l) /\ type.dodgy = l.split
    BY DEF LineTypes
  <2>2. Verdicts(env, l) \subseteq {"IF"} \cup (IF Holds(env, l) THEN {"TRUE", "TRUEI"} ELSE {"FALSE", "FALSEI"})
    BY DEF Verdicts, Openers
  <2>3. QED
    BY <2>1, <2>2, ConditionalFacts DEF OpenTypes
<1>2. Preprocess(p, l, Holds(env, l)) = p2
  BY ConditionalFacts, OpenLine DEF Same
<1>3. m2 = Run(o, mm, l, TransTable(Last(st), type)) /\ (Last(st) \in Printing <=> AllPrint(st))
  BY ReadyFacts DEF Apply
<1>4. g \in Group /\ g.on = Holds(env, l) /\ g.done = Holds(env, l) /\ ~g.else
  <2>1. Holds(env, l) \in BOOLEAN
    BY ConditionalFacts
  <2>2. g \in Group
    BY <2>1 DEF Opened, Group
  <2>3. g.on = Holds(env, l) /\ g.done = Holds(env, l) /\ ~g.else
    BY <2>1 DEF Opened
  <2>4. QED
    BY <2>2, <2>3
<1>5. WholeFile \in Group
  BY DEF WholeFile, Group
<1>6. {"FALSE_TRAILER", "TRUE_PREFIX", "FALSE_PREFIX", "PASS_MIDDLE"} \subseteq Inside
      /\ {"FALSE_TRAILER", "TRUE_PREFIX", "FALSE_PREFIX"} \cap Emitting = {}
  BY DEF Inside, Emitting, IfStates
<1> HIDE DEF m2, g
<1>7. CASE Last(st) \notin Printing
  <2>1. TransTable(Last(st), type) \in {Fdrop, Idrop}
    BY <1>1, <1>7, OpenTable
  <2>2. Opens(m2, st, "FALSE_TRAILER", Written("drop", l))
    BY <1>3, <1>6, <2>1, Functions, RunOpens, RunOpensOn
  <2>3. Fits(st, "FALSE_TRAILER", g, WholeFile)
    BY <1>3, <1>4, <1>7, FitsRows
  <2>4. QED
    BY <1>2, <1>4, <1>5, <1>6, <2>2, <2>3, OpenHidden DEF m2
<1>8. CASE Last(st) \in Printing /\ TransTable(Last(st), type) = Fpass
  <2>1. Opens(m2, st, "PASS_MIDDLE", Written("print", l))
    BY <1>3, <1>6, <1>8, Functions, RunOpens
  <2>2. QED
    BY <1>2, <1>3, <1>8, <2>1, OpenShown DEF m2, g
<1>9. CASE Last(st) \in Printing /\ type.dodgy /\ TransTable(Last(st), type) \in {Oif, Oiffy}
  <2>1. Fails(m2) \/ Opens(m2, st, "PASS_MIDDLE", Written("print", l))
    BY <1>3, <1>6, <1>9, Functions, RunOpensDodgy, RunOpensDodgyOn
  <2>2. CASE Fails(m2)
    BY <1>1, <1>9, <2>2 DEF Outcome, m2
  <2>3. CASE Opens(m2, st, "PASS_MIDDLE", Written("print", l))
    BY <1>2, <1>3, <1>9, <2>3, OpenShown DEF m2, g
  <2>4. QED
    BY <2>1, <2>2, <2>3
<1>10. CASE Last(st) \in Printing /\ type.lt \in {"TRUE", "TRUEI"} /\ TransTable(Last(st), type) \in {Ftrue, Itrue}
  <2>1. Opens(m2, st, "TRUE_PREFIX", Written("drop", l))
    BY <1>3, <1>6, <1>10, Functions, RunOpens, RunOpensOn
  <2>2. Fits(st, "TRUE_PREFIX", g, WholeFile)
    BY <1>1, <1>3, <1>4, <1>10, FitsRows
  <2>3. QED
    BY <1>2, <1>4, <1>5, <1>6, <2>1, <2>2, OpenHidden DEF m2
<1>11. CASE Last(st) \in Printing /\ type.lt \in {"FALSE", "FALSEI"} /\ TransTable(Last(st), type) \in {Ffalse, Ifalse}
  <2>1. Opens(m2, st, "FALSE_PREFIX", Written("drop", l))
    BY <1>3, <1>6, <1>11, Functions, RunOpens, RunOpensOn
  <2>2. Fits(st, "FALSE_PREFIX", g, WholeFile)
    BY <1>1, <1>3, <1>4, <1>11, FitsRows
  <2>3. QED
    BY <1>2, <1>4, <1>5, <1>6, <2>1, <2>2, OpenHidden DEF m2
<1>12. QED
  BY <1>1, <1>7, <1>8, <1>9, <1>10, <1>11, OpenTable DEF m2

\* A branch begins: what is known of the group on top.
Branches(st, p, q, og1, g, o, t) ==
    /\ Same(st, p, q) /\ Len(st) >= 2
    /\ t = Front(st) /\ g = Last(p.groups) /\ o = Last(q.groups) /\ g \in Group /\ o \in Group /\ ~g.else
    /\ og1 = IF Last(st) \in Emitting THEN Front(q.groups) ELSE q.groups
    /\ Last(st) \in Inside /\ Last(st) \notin ElseStates /\ Fits(t, Last(st), g, o)
    /\ Len(p.groups) >= 2
    /\ Last(st) \in Emitting => Len(q.groups) >= 2 /\ q.groups = Append(og1, o)

\* An #elif or #else that is not misplaced finds such a group.
LEMMA BranchFacts ==
    ASSUME NEW st, NEW p, NEW q, Same(st, p, q), NEW l, l.kind \in {"elif", "else"}, ~Misplaced(p, l)
    PROVE  \E og1, g, o, t : Branches(st, p, q, og1, g, o, t)
<1> DEFINE og1 == IF Last(st) \in Emitting THEN Front(q.groups) ELSE q.groups
           g == Last(p.groups)
           o == Last(q.groups)
           t == Front(st)
<1>1. p.groups \in Seq(Group) /\ q.groups \in Seq(Group) /\ Len(q.groups) >= 1 /\ Len(st) = Len(p.groups)
      /\ Len(p.groups) >= 1
  BY StackFacts DEF Same
<1>2. Len(p.groups) # 1 /\ ~g.else
  BY DEF Misplaced
<1>3. Len(st) >= 2 /\ Len(p.groups) >= 2
  <2>1. Len(p.groups) \in Nat
    BY <1>1
  <2>2. \A n \in Nat : n >= 1 /\ n # 1 => n >= 2
    OBVIOUS
  <2>3. QED
    BY <1>1, <1>2, <2>1, <2>2
<1>4. g \in Group /\ o \in Group
  BY <1>1, FrontFacts
<1>5. q.groups = Append(Front(q.groups), o)
  BY <1>1, FrontFacts
<1>6. Last(st) \in Inside /\ Fits(t, Last(st), g, o) /\ (Last(st) \in Emitting => Len(q.groups) >= 2)
  BY <1>3, PopCorresponds DEF Same
<1>7. Last(st) \in Emitting => q.groups = Append(og1, o)
  BY <1>5
<1> HIDE DEF g, o, t, og1
<1>8. Last(st) \notin ElseStates
  BY <1>2, <1>6, FitsRows DEF ElseStates
<1>9. Branches(st, p, q, og1, g, o, t)
  BY <1>2, <1>3, <1>4, <1>6, <1>7, <1>8 DEF Branches, og1, g, o, t
<1>10. QED
  BY <1>9

\* Around it, the compiler reads here what it reads there.
LEMMA BranchReading ==
    ASSUME NEW st, NEW p, NEW q, NEW og1, NEW g, NEW o, NEW t, Branches(st, p, q, og1, g, o, t), AllPrint(t)
    PROVE  (\A i \in 1..(Len(p.groups) - 1) : p.groups[i].on) <=> (\A i \in DOMAIN og1 : og1[i].on)
<1> DEFINE f == Front(p.groups)
<1>1. Corresponds(t, f, og1)
  BY PopCorresponds DEF Branches, Same
<1>2. Last(t) \in Printing => ((\A i \in DOMAIN f : f[i].on) <=> (\A i \in DOMAIN og1 : og1[i].on))
  BY <1>1, TopDecides
<1>3. Last(t) \in Printing
  BY <1>1, TopDecides
<1>4. DOMAIN f = 1..(Len(p.groups) - 1) /\ \A i \in DOMAIN f : f[i] = p.groups[i]
  <2>1. p.groups \in Seq(Group) /\ Len(p.groups) >= 1
    BY DEF Branches, Same, PreType
  <2>2. QED
    BY <2>1, FrontFacts
<1> HIDE DEF f
<1>5. QED
  BY <1>2, <1>3, <1>4

\* The fields of a group that goes on.
LEMMA TurnFields ==
    ASSUME NEW g \in Group, NEW holds \in BOOLEAN, NEW e \in BOOLEAN
    PROVE  /\ Turn(g, holds, e) \in Group
           /\ Turn(g, holds, e).on <=> holds /\ ~g.done
           /\ Turn(g, holds, e).done <=> g.done \/ holds
           /\ Turn(g, holds, e).else <=> e
BY DEF Turn, Group

\* The branch begins in the state s, with the groups g2 here and o2 there.
LEMMA BranchKeeps ==
    ASSUME NEW env, NEW st, NEW p, NEW q, NEW og1, NEW g, NEW o, NEW t, Branches(st, p, q, og1, g, o, t),
           NEW s \in Inside, NEW g2 \in Group, NEW o2 \in Group, Fits(t, s, g2, o2),
           NEW mm, NEW W, Running(mm, Append(t, s), W),
           Makes(env, q, W, With(q, IF s \in Emitting THEN Append(og1, o2) ELSE og1))
    PROVE  Keeps(env, mm, With(p, Append(Front(p.groups), g2)), q)
<1>1. Same(st, p, q) /\ Len(st) >= 2 /\ t = Front(st)
      /\ og1 = IF Last(st) \in Emitting THEN Front(q.groups) ELSE q.groups
  BY DEF Branches
<1>2. QED
  BY <1>1, TurnKeeps

\* The line is dropped, and the group of the output, if there is one, is left
\* where it is.
LEMMA BranchDropped ==
    ASSUME NEW env, NEW st, NEW p, NEW q, NEW og1, NEW g, NEW o, NEW t, Branches(st, p, q, og1, g, o, t),
           NEW s \in Inside, NEW g2 \in Group, Fits(t, s, g2, o), NEW l,
           NEW mm, Running(mm, Append(t, s), Written("drop", l)),
           Last(st) \in Emitting <=> s \in Emitting
    PROVE  Keeps(env, mm, With(p, Append(Front(p.groups), g2)), q)
<1>1. Makes(env, q, Written("drop", l), q)
  BY DropCompiled DEF Branches, Same
<1>2. q = With(q, q.groups)
  BY SameWith DEF Branches
<1>3. q.groups = IF s \in Emitting THEN Append(og1, o) ELSE og1
  BY DEF Branches
<1>4. o \in Group
  BY DEF Branches
<1>5. Makes(env, q, Written("drop", l), With(q, IF s \in Emitting THEN Append(og1, o) ELSE og1))
  BY <1>1, <1>2, <1>3
<1>6. QED
  BY <1>4, <1>5, BranchKeeps

\* A line is written.
LEMMA BranchWritten ==
    ASSUME NEW env, NEW st, NEW p, NEW q, NEW og1, NEW g, NEW o, NEW t, Branches(st, p, q, og1, g, o, t),
           NEW s \in Inside, NEW g2 \in Group, NEW o2 \in Group, Fits(t, s, g2, o2), NEW k, ~Rejects(env, q, k),
           NEW mm, Running(mm, Append(t, s), {<<k>>}),
           Preprocess(q, k, Holds(env, k)) = With(q, IF s \in Emitting THEN Append(og1, o2) ELSE og1)
    PROVE  Keeps(env, mm, With(p, Append(Front(p.groups), g2)), q)
<1> DEFINE W == {<<k>>}
<1>1. PreType(q) /\ q.ok
  BY DEF Branches, Same
<1>2. Makes(env, q, W, Preprocess(q, k, Holds(env, k)))
  BY <1>1, CompiledFacts
<1>3. Makes(env, q, W, With(q, IF s \in Emitting THEN Append(og1, o2) ELSE og1))
  BY <1>2
<1>4. QED
  <2> HIDE DEF W
  <2>1. Running(mm, Append(t, s), W)
    BY DEF W
  <2>2. QED
    BY <1>3, <2>1, BranchKeeps

\* The group of the output goes on.
ElifGoesOn(q, l, holds, og1, o) == Preprocess(q, l, holds) = With(q, Append(og1, Turn(o, holds, FALSE)))
ElseGoesOn(q, l, og1, o) == Preprocess(q, l, FALSE) = With(q, Append(og1, Turn(o, TRUE, TRUE)))

\* ... with an #elif,
LEMMA EmittedElif ==
    ASSUME NEW st, NEW p, NEW q, NEW og1, NEW g, NEW o, NEW t, Branches(st, p, q, og1, g, o, t),
           Last(st) = "PASS_MIDDLE" \/ Last(st) = "FALSE_MIDDLE", NEW l, l.kind = "elif", NEW holds \in BOOLEAN
    PROVE  ElifGoesOn(q, l, holds, og1, o)
<1>1. Last(st) \in Emitting
  BY DEF Emitting
<1>2. ~o.else
  BY FitsRows DEF Branches
<1>3. QED
  BY <1>1, <1>2, ElifLine DEF Branches, Same, ElifGoesOn

\* ... with an #else, which may stand for an #elif that is true,
LEMMA EmittedElse ==
    ASSUME NEW st, NEW p, NEW q, NEW og1, NEW g, NEW o, NEW t, Branches(st, p, q, og1, g, o, t),
           Last(st) = "PASS_MIDDLE" \/ Last(st) = "FALSE_MIDDLE", NEW l, l.kind = "else"
    PROVE  ElseGoesOn(q, l, og1, o)
<1>1. Last(st) \in Emitting
  BY DEF Emitting
<1>2. ~o.else
  BY FitsRows DEF Branches
<1>3. QED
  BY <1>1, <1>2, ElseLine DEF Branches, Same, ElseGoesOn

\* ... or ends, where the rest of the group of the file is dropped.
LEMMA EmittedEndif ==
    ASSUME NEW st, NEW p, NEW q, NEW og1, NEW g, NEW o, NEW t, Branches(st, p, q, og1, g, o, t),
           Last(st) = "TRUE_MIDDLE", NEW l, l.kind = "endif"
    PROVE  Preprocess(q, l, FALSE) = With(q, og1)
<1>1. Last(st) \in Emitting
  BY DEF Emitting
<1>2. QED
  BY <1>1, EndifLine DEF Branches, Same

\* A directive written in the place of another.
LEMMA EditedFacts ==
    ASSUME NEW env, NEW l
    PROVE  /\ Edited(l, "else").kind = "else" /\ Holds(env, Edited(l, "else")) = FALSE
           /\ Edited(l, "endif").kind = "endif" /\ Holds(env, Edited(l, "endif")) = FALSE
<1>1. Edited(l, "else").kind = "else" /\ Edited(l, "endif").kind = "endif"
  BY DEF Edited
<1>2. \A k : k.kind \in {"else", "endif"} => Holds(env, k) = FALSE
  BY DEF Holds, Openers
<1>3. QED
  BY <1>1, <1>2

\* An #elif, whatever is known of its condition.
LEMMA ElifKeeps ==
    ASSUME NEW env, NEW op, NEW mm, NEW l, NEW st, Ready(op, mm, l, st), NEW p, NEW q, Same(st, p, q),
           l \in Conditionals, l.kind = "elif", ~Misplaced(p, l), ~Rejects(env, p, l), NEW type \in LineTypes(env, l)
    PROVE  Outcome(env, Apply(op, mm, l, type), Preprocess(p, l, Holds(env, l)), q, l)
<1> DEFINE m2 == Apply(op, mm, l, type)
           is == Last(st)
           holds == Holds(env, l)
<1>1. PICK og1, g, o, t : Branches(st, p, q, og1, g, o, t)
  BY BranchFacts
<1>2. /\ g \in Group /\ o \in Group /\ t = Front(st) /\ g = Last(p.groups) /\ ~g.else /\ Len(st) >= 2
      /\ is \in Inside /\ is \notin ElseStates /\ Fits(t, is, g, o) /\ Len(p.groups) >= 2
  BY <1>1 DEF Branches
<1>3. /\ holds \in BOOLEAN /\ Holds(env, l) = holds /\ l # Blank /\ l.split \in BOOLEAN
      /\ IfForElif(l).kind = "if" /\ Holds(env, IfForElif(l)) = holds
      /\ IfForElif(l).e = l.e /\ IfForElif(l).junk = l.junk
  BY ConditionalFacts
<1> DEFINE g2 == Turn(g, holds, FALSE)
           p2 == With(p, Append(Front(p.groups), g2))
<1>4. Preprocess(p, l, Holds(env, l)) = p2
  BY <1>2, <1>3, ElifLine DEF Same
<1>5. type.dodgy = l.split /\ type.dodgy \in BOOLEAN /\ type.lt \in ElifTypes
      /\ (type.lt = "ELTRUE" => holds) /\ (type.lt = "ELFALSE" => ~holds)
  <2>1. type.lt \in Verdicts(env, l) /\ type.dodgy = l.split
    BY DEF LineTypes
  <2>2. Verdicts(env, l) = {"ELIF", IF Holds(env, l) THEN "ELTRUE" ELSE "ELFALSE"}
    BY DEF Verdicts, Openers
  <2>3. QED
    BY <2>1, <2>2, <1>3 DEF ElifTypes
<1>6. m2 = Run(op, mm, l, TransTable(is, type))
  BY ReadyFacts DEF Apply
<1>7. g2 \in Group /\ (g2.on <=> holds /\ ~g.done) /\ (g2.done <=> g.done \/ holds) /\ ~g2.else
  BY <1>2, <1>3, TurnFields
<1>8. \A s : s \in Inside <=> s \in IfStates /\ s # "OUTSIDE"
  BY DEF Inside
<1> HIDE DEF m2, g2, holds, is
<1>9. SUFFICES Keeps(env, m2, p2, q) \/ (Fails(m2) /\ type.dodgy)
  BY <1>4, <1>5 DEF Outcome, m2
<1>10. CASE TransTable(is, type) = Error /\ type.dodgy
  BY <1>6, <1>10, RunError
<1>11. CASE is = "FALSE_PREFIX" /\ type.lt = "ELIF" /\ TransTable(is, type) = Mpass
  <2>1. Running(m2, Append(t, "PASS_MIDDLE"), {<<IfForElif(l)>>})
    <3>1. Running(m2, Append(t, "PASS_MIDDLE"), Written("if", l))
      BY <1>2, <1>6, <1>11, RunSetsStateOff DEF Mpass, Writers, Inside, IfStates
    <3>2. QED
      BY <1>3, <3>1, WrittenFacts
  <2> DEFINE o2 == Opened(holds)
  <2>2. o2 \in Group /\ (o2.on <=> holds) /\ (o2.done <=> holds) /\ ~o2.else
    BY <1>3 DEF Opened, Group, holds
  <2>3. og1 = q.groups /\ "PASS_MIDDLE" \in Emitting /\ "PASS_MIDDLE" \in Inside
    BY <1>1, <1>11 DEF Branches, Emitting, Inside, IfStates, is
  <2>4. Preprocess(q, IfForElif(l), Holds(env, IfForElif(l))) = With(q, Append(og1, o2))
    BY <1>3, <2>3, OpenLine DEF Same, Openers, holds
  <2> HIDE DEF o2
  <2>5. Fits(t, "PASS_MIDDLE", g2, o2)
    BY <1>2, <1>7, <1>11, <2>2, FitsRows
  <2>6. AllPrint(t) /\ ~g.done
    BY <1>2, <1>11, FitsRows
  <2>7. Reading(q) => Evaluates(p, l)
    BY <1>1, <1>2, <2>3, <2>6, BranchReading DEF Reading, Evaluates
  <2>8. ~Rejects(env, q, IfForElif(l))
    BY <1>3, <2>7 DEF Rejects, Evaluates
  <2>9. QED
    BY <1>1, <1>7, <2>1, <2>2, <2>3, <2>4, <2>5, <2>8, BranchWritten
<1>12. CASE is = "FALSE_PREFIX" /\ type.lt = "ELTRUE" /\ TransTable(is, type) = Strue
  <2>1. Running(m2, Append(t, "TRUE_PREFIX"), Written("drop", l))
    BY <1>2, <1>6, <1>12, RunSetsStateOff DEF Strue, Writers, Inside, IfStates
  <2>2. "TRUE_PREFIX" \notin Emitting /\ "TRUE_PREFIX" \in Inside /\ Last(st) \notin Emitting
    BY <1>12 DEF Emitting, Inside, IfStates, is
  <2>3. Fits(t, "TRUE_PREFIX", g2, o)
    BY <1>2, <1>5, <1>7, <1>12, FitsRows
  <2>4. QED
    BY <1>1, <1>7, <2>1, <2>2, <2>3, BranchDropped
<1>13. CASE is = "FALSE_PREFIX" /\ type.lt = "ELFALSE" /\ TransTable(is, type) = Sfalse
  <2>1. Running(m2, Append(t, "FALSE_PREFIX"), Written("drop", l))
    BY <1>2, <1>6, <1>13, RunSetsStateOff DEF Sfalse, Writers, Inside, IfStates
  <2>2. "FALSE_PREFIX" \notin Emitting /\ "FALSE_PREFIX" \in Inside /\ Last(st) \notin Emitting
    BY <1>13 DEF Emitting, Inside, IfStates, is
  <2>3. Fits(t, "FALSE_PREFIX", g2, o)
    BY <1>2, <1>5, <1>7, <1>13, FitsRows
  <2>4. QED
    BY <1>1, <1>7, <2>1, <2>2, <2>3, BranchDropped
<1>14. CASE is \in {"TRUE_PREFIX", "FALSE_TRAILER"} /\ TransTable(is, type) = Dfalse
  <2>1. Running(m2, Append(t, "FALSE_TRAILER"), Written("drop", l))
    BY <1>2, <1>6, <1>14, RunSetsStateOff DEF Dfalse, Writers, Inside, IfStates
  <2>2. "FALSE_TRAILER" \notin Emitting /\ "FALSE_TRAILER" \in Inside /\ Last(st) \notin Emitting
    BY <1>14 DEF Emitting, Inside, IfStates, is
  <2>3. Fits(t, "FALSE_TRAILER", g2, o)
    BY <1>2, <1>7, <1>14, FitsRows
  <2>4. QED
    BY <1>1, <1>7, <2>1, <2>2, <2>3, BranchDropped
<1>15. ASSUME is \in {"PASS_MIDDLE", "FALSE_MIDDLE"}, Running(m2, Append(t, "PASS_MIDDLE"), Written("print", l))
       PROVE  Keeps(env, m2, p2, q)
  <2>1. Running(m2, Append(t, "PASS_MIDDLE"), {<<l>>})
    BY <1>3, <1>15, WrittenFacts
  <2> DEFINE o2 == Turn(o, holds, FALSE)
  <2>2. o2 \in Group /\ (o2.on <=> holds /\ ~o.done) /\ (o2.done <=> o.done \/ holds) /\ ~o2.else
    BY <1>2, <1>3, TurnFields DEF holds
  <2>3. "PASS_MIDDLE" \in Emitting /\ "PASS_MIDDLE" \in Inside
    BY DEF Emitting, Inside, IfStates
  <2>4. Preprocess(q, l, Holds(env, l)) = With(q, Append(og1, o2))
    <3>1. (Last(st) = "PASS_MIDDLE" \/ Last(st) = "FALSE_MIDDLE")
      BY <1>15 DEF is
    <3>2. ElifGoesOn(q, l, holds, og1, o)
      BY <1>1, <1>3, <3>1, EmittedElif
    <3>3. QED
      BY <1>3, <3>2 DEF ElifGoesOn
  <2> HIDE DEF o2
  <2>5. Fits(t, "PASS_MIDDLE", g2, o2)
    BY <1>2, <1>7, <1>15, <2>2, FitsRows
  <2>6. AllPrint(t) /\ (g.done <=> o.done)
    BY <1>2, <1>15, FitsRows
  <2>7. o = Last(q.groups) /\ DOMAIN og1 = 1..(Len(q.groups) - 1) /\ \A i \in DOMAIN og1 : og1[i] = q.groups[i]
    <3>1. o = Last(q.groups) /\ og1 = Front(q.groups) /\ q.groups \in Seq(Group) /\ Len(q.groups) >= 1
      BY <1>1, <1>15 DEF Branches, Same, PreType, Emitting, is
    <3>2. QED
      BY <3>1, FrontFacts
  <2>8. Evaluates(q, l) => Evaluates(p, l)
    <3>1. (\A i \in 1..(Len(p.groups) - 1) : p.groups[i].on) <=> (\A i \in DOMAIN og1 : og1[i].on)
      BY <1>1, <2>6, BranchReading
    <3>2. (\A i \in DOMAIN og1 : og1[i].on) <=> (\A i \in 1..(Len(q.groups) - 1) : q.groups[i].on)
      BY <2>7
    <3>3. g = Last(p.groups) /\ o = Last(q.groups)
      BY <1>2, <2>7
    <3>4. QED
      BY <2>6, <3>1, <3>2, <3>3 DEF Evaluates
  <2>9. ~Rejects(env, q, l)
    BY <2>8 DEF Rejects
  <2>10. QED
    BY <1>1, <1>7, <2>1, <2>2, <2>3, <2>4, <2>5, <2>9, BranchWritten
<1>16. CASE is \in {"PASS_MIDDLE", "FALSE_MIDDLE"} /\ TransTable(is, type) = Pelif
  <2>1. Running(m2, Append(t, "PASS_MIDDLE"), Written("print", l))
    BY <1>2, <1>6, <1>16, RunSetsStateOff DEF Pelif, Writers, Inside, IfStates
  <2>2. QED
    BY <1>15, <1>16, <2>1
<1>17. CASE is = "PASS_MIDDLE" /\ type.dodgy /\ TransTable(is, type) = Oelif
  <2>1. Fails(m2) \/ Running(m2, Append(t, "PASS_MIDDLE"), Written("print", l))
    BY <1>2, <1>6, <1>17, Functions, RunSetsStateDodgy DEF Inside, IfStates
  <2>2. QED
    BY <1>15, <1>17, <2>1
<1>18. CASE is \in {"PASS_MIDDLE", "FALSE_MIDDLE"} /\ type.lt = "ELTRUE" /\ TransTable(is, type) = Mtrue
  <2> DEFINE k == Edited(l, "else")
             o2 == Turn(o, TRUE, TRUE)
  <2>1. Running(m2, Append(t, "TRUE_MIDDLE"), {<<k>>})
    <3>1. Running(m2, Append(t, "TRUE_MIDDLE"), Written("else", l))
      BY <1>2, <1>6, <1>18, RunSetsState DEF Mtrue, Writers, Inside, IfStates
    <3>2. QED
      BY <1>3, <3>1, WrittenFacts
  <2>2. o2 \in Group /\ (o2.on <=> ~o.done) /\ o2.done /\ o2.else
    BY <1>2, TurnFields
  <2>3. "TRUE_MIDDLE" \in Emitting /\ "TRUE_MIDDLE" \in Inside
    BY DEF Emitting, Inside, IfStates
  <2>4. Preprocess(q, k, Holds(env, k)) = With(q, Append(og1, o2))
    <3>1. k.kind = "else" /\ Holds(env, k) = FALSE /\ (Last(st) = "PASS_MIDDLE" \/ Last(st) = "FALSE_MIDDLE")
      BY <1>18, EditedFacts DEF is
    <3> HIDE DEF k
    <3>2. ElseGoesOn(q, k, og1, o)
      BY <1>1, <3>1, EmittedElse
    <3>3. QED
      BY <3>1, <3>2 DEF ElseGoesOn
  <2>5. ~Rejects(env, q, k)
    BY EditedFacts, NotRejected
  <2> HIDE DEF o2, k
  <2>6. Fits(t, "TRUE_MIDDLE", g2, o2)
    BY <1>2, <1>5, <1>7, <1>18, <2>2, FitsRows
  <2>7. QED
    BY <1>1, <1>7, <2>1, <2>2, <2>3, <2>4, <2>5, <2>6, BranchWritten
<1>19. CASE is \in {"PASS_MIDDLE", "FALSE_MIDDLE"} /\ type.lt = "ELFALSE" /\ TransTable(is, type) = Delif
  <2>1. Running(m2, Append(t, "FALSE_MIDDLE"), Written("drop", l))
    BY <1>2, <1>6, <1>19, RunSetsStateOff DEF Delif, Writers, Inside, IfStates
  <2>2. "FALSE_MIDDLE" \in Emitting /\ "FALSE_MIDDLE" \in Inside /\ Last(st) \in Emitting
    BY <1>19 DEF Emitting, Inside, IfStates, is
  <2>3. Fits(t, "FALSE_MIDDLE", g2, o)
    BY <1>2, <1>5, <1>7, <1>19, FitsRows
  <2>4. QED
    BY <1>1, <1>7, <2>1, <2>2, <2>3, BranchDropped
<1>20. CASE is = "TRUE_MIDDLE" /\ TransTable(is, type) = Melif
  <2> DEFINE k == Edited(l, "endif")
  <2>1. Running(m2, Append(t, "FALSE_TRAILER"), {<<k>>})
    <3>1. Running(m2, Append(t, "FALSE_TRAILER"), Written("endif", l))
      BY <1>2, <1>6, <1>20, RunSetsState DEF Melif, Writers, Inside, IfStates
    <3>2. QED
      BY <1>3, <3>1, WrittenFacts
  <2>2. "FALSE_TRAILER" \notin Emitting /\ "FALSE_TRAILER" \in Inside
    BY DEF Emitting, Inside, IfStates
  <2>3. Preprocess(q, k, Holds(env, k)) = With(q, og1)
    <3>1. k.kind = "endif" /\ Holds(env, k) = FALSE /\ Last(st) = "TRUE_MIDDLE"
      BY <1>20, EditedFacts DEF is
    <3> HIDE DEF k
    <3>2. Preprocess(q, k, FALSE) = With(q, og1)
      BY <1>1, <3>1, EmittedEndif
    <3>3. QED
      BY <3>1, <3>2
  <2>4. ~Rejects(env, q, k)
    BY EditedFacts, NotRejected
  <2> HIDE DEF k
  <2>5. Fits(t, "FALSE_TRAILER", g2, o)
    BY <1>2, <1>7, <1>20, FitsRows
  <2>6. QED
    BY <1>1, <1>2, <1>7, <2>1, <2>2, <2>3, <2>4, <2>5, BranchWritten
<1>21. QED
  BY <1>2, <1>5, <1>10, <1>11, <1>12, <1>13, <1>14, <1>16, <1>17, <1>18, <1>19, <1>20, ElifTable DEF ElifTypes

\* An #else.
LEMMA ElseKeeps ==
    ASSUME NEW env, NEW op, NEW mm, NEW l, NEW st, Ready(op, mm, l, st), NEW p, NEW q, Same(st, p, q),
           l.kind = "else", l.split \in BOOLEAN, ~Misplaced(p, l), NEW type \in LineTypes(env, l)
    PROVE  Outcome(env, Apply(op, mm, l, type), Preprocess(p, l, Holds(env, l)), q, l)
<1> DEFINE m2 == Apply(op, mm, l, type)
           is == Last(st)
<1>1. PICK og1, g, o, t : Branches(st, p, q, og1, g, o, t)
  BY BranchFacts
<1>2. /\ g \in Group /\ o \in Group /\ t = Front(st) /\ g = Last(p.groups) /\ ~g.else /\ Len(st) >= 2
      /\ is \in Inside /\ is \notin ElseStates /\ Fits(t, is, g, o) /\ Len(p.groups) >= 2
  BY <1>1 DEF Branches
<1>3. Holds(env, l) = FALSE /\ l # Blank
  <2>1. Blank.kind = "plain"
    BY DEF Blank
  <2>2. l.kind \notin Openers \cup {"elif"} /\ l # Blank
    BY <2>1 DEF Openers
  <2>3. QED
    BY <2>2 DEF Holds
<1> DEFINE g2 == Turn(g, TRUE, TRUE)
           p2 == With(p, Append(Front(p.groups), g2))
<1>4. Preprocess(p, l, Holds(env, l)) = p2
  BY <1>2, <1>3, ElseLine DEF Same
<1>5. type.dodgy = l.split /\ type.dodgy \in BOOLEAN /\ type.lt = "ELSE"
  <2>1. type.lt \in Verdicts(env, l) /\ type.dodgy = l.split
    BY DEF LineTypes
  <2>2. Verdicts(env, l) = {"ELSE"}
    BY DEF Verdicts, Openers
  <2>3. QED
    BY <2>1, <2>2
<1>6. m2 = Run(op, mm, l, TransTable(is, type))
  BY ReadyFacts DEF Apply
<1>7. g2 \in Group /\ (g2.on <=> ~g.done) /\ g2.done /\ g2.else
  BY <1>2, TurnFields
<1> HIDE DEF m2, g2, is
<1>9. SUFFICES Keeps(env, m2, p2, q) \/ (Fails(m2) /\ type.dodgy)
  BY <1>4, <1>5 DEF Outcome, m2
<1>10. CASE TransTable(is, type) = Error /\ type.dodgy
  BY <1>6, <1>10, RunError
<1>11. CASE is = "FALSE_PREFIX" /\ TransTable(is, type) = Selse
  <2>1. Running(m2, Append(t, "TRUE_ELSE"), Written("drop", l))
    BY <1>2, <1>6, <1>11, RunSetsState DEF Selse, Writers, Inside, IfStates
  <2>2. "TRUE_ELSE" \notin Emitting /\ "TRUE_ELSE" \in Inside /\ Last(st) \notin Emitting
    BY <1>11 DEF Emitting, Inside, IfStates, is
  <2>3. Fits(t, "TRUE_ELSE", g2, o)
    BY <1>2, <1>7, <1>11, FitsRows
  <2>4. QED
    BY <1>1, <1>7, <2>1, <2>2, <2>3, BranchDropped
<1>12. CASE is \in {"TRUE_PREFIX", "FALSE_TRAILER"} /\ TransTable(is, type) = Delse
  <2>1. Running(m2, Append(t, "FALSE_ELSE"), Written("drop", l))
    BY <1>2, <1>6, <1>12, RunSetsState DEF Delse, Writers, Inside, IfStates
  <2>2. "FALSE_ELSE" \notin Emitting /\ "FALSE_ELSE" \in Inside /\ Last(st) \notin Emitting
    BY <1>12 DEF Emitting, Inside, IfStates, is
  <2>3. Fits(t, "FALSE_ELSE", g2, o)
    BY <1>2, <1>7, <1>12, FitsRows
  <2>4. QED
    BY <1>1, <1>7, <2>1, <2>2, <2>3, BranchDropped
<1>13. CASE is \in {"PASS_MIDDLE", "FALSE_MIDDLE"} /\ TransTable(is, type) = Pelse
  <2> DEFINE o2 == Turn(o, TRUE, TRUE)
  <2>1. Running(m2, Append(t, "PASS_ELSE"), {<<l>>})
    <3>1. Running(m2, Append(t, "PASS_ELSE"), Written("print", l))
      BY <1>2, <1>3, <1>6, <1>13, RunSetsState DEF Pelse, Writers, Inside, IfStates
    <3>2. QED
      BY <1>3, <3>1, WrittenFacts
  <2>2. o2 \in Group /\ (o2.on <=> ~o.done) /\ o2.done /\ o2.else
    BY <1>2, TurnFields
  <2>3. "PASS_ELSE" \in Emitting /\ "PASS_ELSE" \in Inside
    BY DEF Emitting, Inside, IfStates
  <2>4. Preprocess(q, l, Holds(env, l)) = With(q, Append(og1, o2))
    <3>1. (Last(st) = "PASS_MIDDLE" \/ Last(st) = "FALSE_MIDDLE")
      BY <1>13 DEF is
    <3>2. ElseGoesOn(q, l, og1, o)
      BY <1>1, <3>1, EmittedElse
    <3>3. QED
      BY <1>3, <3>1, <3>2 DEF ElseGoesOn
  <2> HIDE DEF o2
  <2>5. Fits(t, "PASS_ELSE", g2, o2)
    BY <1>2, <1>7, <1>13, <2>2, FitsRows
  <2>6. ~Rejects(env, q, l)
    BY NotRejected
  <2>7. QED
    BY <1>1, <1>7, <2>1, <2>2, <2>3, <2>4, <2>5, <2>6, BranchWritten
<1>14. CASE is = "TRUE_MIDDLE" /\ TransTable(is, type) = Melse
  <2> DEFINE k == Edited(l, "endif")
  <2>1. Running(m2, Append(t, "FALSE_ELSE"), {<<k>>})
    <3>1. Running(m2, Append(t, "FALSE_ELSE"), Written("endif", l))
      BY <1>2, <1>6, <1>14, RunSetsState DEF Melse, Writers, Inside, IfStates
    <3>2. QED
      BY <1>3, <3>1, WrittenFacts
  <2>2. "FALSE_ELSE" \notin Emitting /\ "FALSE_ELSE" \in Inside
    BY DEF Emitting, Inside, IfStates
  <2>3. Preprocess(q, k, Holds(env, k)) = With(q, og1)
    <3>1. k.kind = "endif" /\ Holds(env, k) = FALSE /\ Last(st) = "TRUE_MIDDLE"
      BY <1>14, EditedFacts DEF is
    <3> HIDE DEF k
    <3>2. Preprocess(q, k, FALSE) = With(q, og1)
      BY <1>1, <3>1, EmittedEndif
    <3>3. QED
      BY <3>1, <3>2
  <2>4. ~Rejects(env, q, k)
    BY EditedFacts, NotRejected
  <2> HIDE DEF k
  <2>5. Fits(t, "FALSE_ELSE", g2, o)
    BY <1>2, <1>7, <1>14, FitsRows
  <2>6. QED
    BY <1>1, <1>2, <1>7, <2>1, <2>2, <2>3, <2>4, <2>5, BranchWritten
<1>15. QED
  BY <1>2, <1>5, <1>10, <1>11, <1>12, <1>13, <1>14, ElseTable

\* An #endif.
LEMMA EndifKeeps ==
    ASSUME NEW env, NEW op, NEW mm, NEW l, NEW st, Ready(op, mm, l, st), NEW p, NEW q, Same(st, p, q),
           l.kind = "endif", l.split \in BOOLEAN, ~Misplaced(p, l), NEW type \in LineTypes(env, l)
    PROVE  Outcome(env, Apply(op, mm, l, type), Preprocess(p, l, Holds(env, l)), q, l)
<1> DEFINE m2 == Apply(op, mm, l, type)
           is == Last(st)
           og1 == IF is \in Emitting THEN Front(q.groups) ELSE q.groups
           p2 == With(p, Front(p.groups))
<1>1. Holds(env, l) = FALSE /\ l # Blank
  <2>1. Blank.kind = "plain"
    BY DEF Blank
  <2>2. l.kind \notin Openers \cup {"elif"} /\ l # Blank
    BY <2>1 DEF Openers
  <2>3. QED
    BY <2>2 DEF Holds
<1>2. Len(st) >= 2 /\ Len(p.groups) >= 2
  <2>1. Len(p.groups) \in Nat /\ Len(p.groups) >= 1 /\ Len(st) = Len(p.groups)
    BY StackFacts DEF Same
  <2>2. Len(p.groups) # 1
    BY DEF Misplaced
  <2>3. \A n \in Nat : n >= 1 /\ n # 1 => n >= 2
    OBVIOUS
  <2>4. QED
    BY <2>1, <2>2, <2>3
<1>3. /\ Corresponds(Front(st), Front(p.groups), og1) /\ is \in Inside
      /\ is \in Emitting => Len(q.groups) >= 2
  BY <1>2, PopCorresponds DEF Same
<1>4. Preprocess(p, l, Holds(env, l)) = p2
  BY <1>2, EndifLine DEF Same
<1>5. type.dodgy = l.split /\ type.dodgy \in BOOLEAN /\ type.lt = "ENDIF"
  <2>1. type.lt \in Verdicts(env, l) /\ type.dodgy = l.split
    BY DEF LineTypes
  <2>2. Verdicts(env, l) = {"ENDIF"}
    BY DEF Verdicts, Openers
  <2>3. QED
    BY <2>1, <2>2
<1>6. m2 = Run(op, mm, l, TransTable(is, type))
  BY ReadyFacts DEF Apply
<1>7. Same(Front(st), p2, With(q, og1))
  BY <1>3, SameAgain
<1>8. ASSUME NEW W, Running(m2, Front(st), W), Makes(env, q, W, With(q, og1))
      PROVE  Keeps(env, m2, p2, q)
  <2>1. \A w \in W : Len(w) <= 1 /\ Same(Front(st), p2, Compiled(env, q, w))
    BY <1>7, <1>8 DEF Makes
  <2>2. QED
    BY <1>8, <2>1 DEF Keeps
<1> HIDE DEF m2, is, p2
<1>9. SUFFICES Keeps(env, m2, p2, q) \/ (Fails(m2) /\ type.dodgy)
  BY <1>4, <1>5 DEF Outcome, m2
<1>10. CASE TransTable(is, type) = Error /\ type.dodgy
  BY <1>6, <1>10, RunError
<1>11. CASE is \in Emitting /\ TransTable(is, type) = Pendif
  <2>1. Running(m2, Front(st), Written("print", l))
    BY <1>2, <1>6, <1>11, RunUnnests DEF Pendif
  <2>2. Preprocess(q, l, Holds(env, l)) = With(q, og1)
    BY <1>3, <1>11, EndifLine DEF Same
  <2>3. Makes(env, q, Written("print", l), With(q, og1))
    BY <1>1, <2>2, PrintCompiled, NotRejected DEF Same
  <2>4. QED
    BY <1>8, <2>1, <2>3
<1>12. CASE is \notin Emitting /\ TransTable(is, type) = Dendif
  <2>1. Running(m2, Front(st), Written("drop", l))
    BY <1>2, <1>6, <1>12, RunUnnests DEF Dendif
  <2>2. q = With(q, og1)
    BY <1>12, SameWith
  <2>3. Makes(env, q, Written("drop", l), With(q, og1))
    BY <2>2, DropCompiled DEF Same
  <2>4. QED
    BY <1>8, <2>1, <2>3
<1>13. QED
  BY <1>3, <1>5, <1>10, <1>11, <1>12, EndifTable

\* A line that is no directive.
LEMMA PlainKeeps ==
    ASSUME NEW env, NEW op, NEW mm, NEW l, NEW st, Ready(op, mm, l, st), NEW p, NEW q, Same(st, p, q),
           l \in Plains, NEW type \in LineTypes(env, l)
    PROVE  Keeps(env, Apply(op, mm, l, type), Preprocess(p, l, Holds(env, l)), q)
<1> DEFINE m2 == Apply(op, mm, l, type)
           is == Last(st)
<1>1. l.kind = "plain"
  <2>1. Blank.kind = "plain"
    BY DEF Blank
  <2>2. l \in TextLines => l.kind = "plain"
    BY DEF TextLines
  <2>3. QED
    BY <2>1, <2>2 DEF Plains
<1>2. Holds(env, l) = FALSE
  BY <1>1 DEF Holds, Openers
<1>3. type.lt = "PLAIN"
  <2>1. type.lt \in Verdicts(env, l)
    BY DEF LineTypes
  <2>2. Verdicts(env, l) = {"PLAIN"}
    BY <1>1 DEF Verdicts, Openers
  <2>3. QED
    BY <2>1, <2>2
<1>4. m2 = Run(op, mm, l, TransTable(is, type))
  BY ReadyFacts DEF Apply
<1>5. /\ is \in Printing => Running(m2, st, Written("print", l))
      /\ is \notin Printing => Running(m2, st, Written("drop", l))
  BY <1>3, <1>4, PlainTable, RunOne
<1> HIDE DEF m2, is
<1>6. CASE l = Blank
  <2>1. Preprocess(p, l, Holds(env, l)) = p
    BY <1>2, <1>6, BlankLine DEF Same
  <2>2. \E W : Running(m2, st, W) /\ W \subseteq {<< >>, <<Blank>>}
    BY <1>5, <1>6 DEF Written
  <2>3. Makes(env, q, {<< >>, <<Blank>>}, q)
    BY CompiledFacts DEF Same
  <2>4. QED
    BY <2>1, <2>2, <2>3 DEF Keeps, Makes, m2
<1>7. CASE l \in TextLines
  <2> DEFINE Read(r) == [groups |-> r.groups, ok |-> TRUE,
                         text |-> IF Reading(r) THEN Append(r.text, l.name) ELSE r.text]
  <2>1. l # Blank
    <3>1. Blank.blank = TRUE
      BY DEF Blank
    <3>2. l.blank = FALSE
      BY <1>7 DEF TextLines
    <3>3. QED
      BY <3>1, <3>2
  <2>2. Preprocess(p, l, FALSE) = Read(p) /\ Preprocess(q, l, FALSE) = Read(q)
        /\ PreType(Read(p)) /\ PreType(Read(q))
    BY <1>7, PlainLine DEF Same
  <2>3. /\ Read(p).groups = p.groups /\ Read(q).groups = q.groups /\ Read(p).ok /\ Read(q).ok
        /\ Read(p).text = IF Reading(p) THEN Append(p.text, l.name) ELSE p.text
        /\ Read(q).text = IF Reading(q) THEN Append(q.text, l.name) ELSE q.text
    OBVIOUS
  <2> HIDE DEF Read
  <2>4. CASE is \in Printing
    <3>1. Reading(p) <=> Reading(q)
      BY <2>4, SameReading DEF is
    <3>2. Same(st, Read(p), Read(q))
      BY <2>2, <2>3, <3>1 DEF Same
    <3>3. Makes(env, q, Written("print", l), Read(q))
      BY <1>1, <1>2, <2>1, <2>2, PrintCompiled, NotRejected DEF Same
    <3>4. QED
      BY <1>2, <1>5, <2>2, <2>4, <3>2, <3>3 DEF Keeps, Makes, m2
  <2>5. CASE is \notin Printing
    <3>1. ~Reading(p)
      BY <2>5, SameReading DEF is
    <3>2. Same(st, Read(p), q)
      BY <2>2, <2>3, <3>1 DEF Same
    <3>3. Makes(env, q, Written("drop", l), q)
      BY DropCompiled DEF Same
    <3>4. Running(m2, st, Written("drop", l))
      BY <1>5, <2>5
    <3>5. \A w \in Written("drop", l) : Len(w) <= 1 /\ Same(st, Read(p), Compiled(env, q, w))
      BY <3>2, <3>3 DEF Makes
    <3>6. Keeps(env, m2, Read(p), q)
      BY <3>4, <3>5 DEF Keeps
    <3>7. QED
      BY <1>2, <2>2, <3>6 DEF m2
  <2>6. QED
    BY <2>4, <2>5
<1>8. QED
  BY <1>6, <1>7 DEF Plains

-----------------------------------------------------------------------------
(* The steps *)

\* Every line the preprocessor accepts keeps the correspondence, or is one to fail for.
LEMMA LineKeeps ==
    ASSUME NEW env, NEW op, NEW mm, NEW l, NEW st, Ready(op, mm, l, st), NEW p, NEW q, Same(st, p, q),
           ~Rejects(env, p, l), Preprocess(p, l, Holds(env, l)).ok, NEW type \in LineTypes(env, l)
    PROVE  \/ Keeps(env, Apply(op, mm, l, type), Preprocess(p, l, Holds(env, l)), q)
           \/ /\ Fails(Apply(op, mm, l, type)) 
              /\ l.kind # "plain"
              /\ l.split \/ Len(Preprocess(p, l, Holds(env, l)).groups) > MaxDepth
<1>1. ~Misplaced(p, l)
  BY RefusedLine DEF Same
<1>2. l \in Plains \cup Conditionals \cup Bares
  BY ReadyFacts DEF Lines
<1>3. CASE l \in Plains
  BY <1>3, PlainKeeps
<1>4. CASE l \in Conditionals
  <2>1. (l.kind \in Openers \/ l.kind = "elif") /\ l.kind # "plain"
    BY <1>4, ConditionalFacts DEF Openers
  <2>2. Outcome(env, Apply(op, mm, l, type), Preprocess(p, l, Holds(env, l)), q, l)
    BY <1>1, <1>4, <2>1, OpenKeeps, ElifKeeps
  <2>3. QED
    BY <2>1, <2>2 DEF Outcome
<1>5. CASE l \in Bares
  <2>1. (l.kind = "else" \/ l.kind = "endif") /\ l.kind # "plain" /\ l.split \in BOOLEAN
    BY <1>5 DEF Bares
  <2>2. Outcome(env, Apply(op, mm, l, type), Preprocess(p, l, Holds(env, l)), q, l)
    BY <1>1, <2>1, ElseKeeps, EndifKeeps
  <2>3. QED
    BY <2>1, <2>2 DEF Outcome
<1>6. QED
  BY <1>2, <1>3, <1>4, <1>5

\* The preprocessor's state stays one, whatever the line.
LEMMA PreTypeKept ==
    ASSUME NEW env, NEW p, PreType(p), NEW l \in Lines
    PROVE  PreType(Compile(env, p, l))
<1>0. CASE Rejects(env, p, l)
  BY <1>0 DEF Compile, PreType
<1> SUFFICES ASSUME ~Rejects(env, p, l) PROVE PreType(Preprocess(p, l, Holds(env, l)))
  BY <1>0 DEF Compile
<1>1. CASE ~p.ok \/ Misplaced(p, l)
  BY <1>1, RefusedLine
<1>2. CASE p.ok /\ ~Misplaced(p, l)
  <2>1. p.groups \in Seq(Group) /\ p.text \in Seq(Names) /\ Len(p.groups) \in Nat /\ Len(p.groups) >= 1
    BY DEF PreType
  <2>2. ASSUME NEW gs \in Seq(Group), Len(gs) >= 1 PROVE PreType(With(p, gs))
    BY <2>1, <2>2 DEF With, PreType
  <2>3. CASE l \in TextLines
    <3>1. Holds(env, l) = FALSE
      BY <2>3 DEF TextLines, Holds, Openers
    <3>2. QED
      BY <1>2, <2>3, <3>1, PlainLine
  <2>4. CASE l = Blank
    <3>1. Holds(env, l) = FALSE
      BY <2>4 DEF Blank, Holds, Openers
    <3>2. QED
      BY <1>2, <2>4, <3>1, BlankLine
  <2>5. CASE l \in Conditionals /\ l.kind \in Openers
    <3> DEFINE g == Opened(Holds(env, l))
    <3>1. Holds(env, l) = Holds(env, l) /\ Holds(env, l) \in BOOLEAN
      BY <2>5, ConditionalFacts
    <3>2. g \in Group
      BY <3>1 DEF Opened, Group
    <3>3. Preprocess(p, l, Holds(env, l)) = With(p, Append(p.groups, g))
      BY <1>2, <2>5, <3>1, OpenLine
    <3> HIDE DEF g
    <3>4. Append(p.groups, g) \in Seq(Group) /\ Len(Append(p.groups, g)) >= 1
      BY <2>1, <3>2
    <3>5. QED
      BY <2>2, <3>3, <3>4
  <2>6. CASE l.kind \in {"elif", "else", "endif"}
    <3>1. Len(p.groups) >= 2
      <4>1. Len(p.groups) # 1
        BY <1>2, <2>6 DEF Misplaced
      <4>2. \A n \in Nat : n >= 1 /\ n # 1 => n >= 2
        OBVIOUS
      <4>3. QED
        BY <2>1, <4>1, <4>2
    <3>2. Front(p.groups) \in Seq(Group) /\ Len(Front(p.groups)) = Len(p.groups) - 1 /\ Last(p.groups) \in Group
      BY <2>1, FrontFacts
    <3>3. ASSUME NEW g \in Group PROVE PreType(With(p, Append(Front(p.groups), g)))
      <4>1. Append(Front(p.groups), g) \in Seq(Group) /\ Len(Append(Front(p.groups), g)) >= 1
        BY <2>1, <3>1, <3>2
      <4>2. QED
        BY <2>2, <4>1
    <3>4. CASE l.kind = "endif"
      <4>1. Len(Front(p.groups)) >= 1
        BY <2>1, <3>1, <3>2
      <4>2. QED
        BY <1>2, <2>2, <3>1, <3>2, <3>4, <4>1, EndifLine
    <3>5. CASE l.kind = "elif"
      <4>1. l \in Conditionals
        <5>1. Blank.kind = "plain"
          BY DEF Blank
        <5>2. l \notin TextLines /\ l # Blank /\ l \notin Bares
          BY <3>5, <5>1 DEF TextLines, Bares
        <5>3. QED
          BY <5>2 DEF Lines, Plains
      <4>2. Holds(env, l) \in BOOLEAN
        BY <4>1, ConditionalFacts
      <4>3. ~Last(p.groups).else
        BY <1>2, <3>5 DEF Misplaced
      <4>4. Turn(Last(p.groups), Holds(env, l), FALSE) \in Group
        BY <3>2, <4>2, Turns
      <4>5. QED
        BY <1>2, <3>1, <3>3, <3>5, <4>2, <4>3, <4>4, ElifLine
    <3>6. CASE l.kind = "else"
      <4>1. Holds(env, l) = FALSE
        BY <3>6 DEF Holds, Openers
      <4>2. ~Last(p.groups).else
        BY <1>2, <3>6 DEF Misplaced
      <4>3. Turn(Last(p.groups), TRUE, TRUE) \in Group
        BY <3>2, Turns
      <4>4. QED
        BY <1>2, <3>1, <3>3, <3>6, <4>1, <4>2, <4>3, ElseLine
    <3>7. QED
      BY <2>6, <3>4, <3>5, <3>6
  <2>7. l \in TextLines \/ l = Blank \/ (l \in Conditionals /\ l.kind \in Openers) \/ l.kind \in {"elif", "else", "endif"}
    BY DEF Lines, Plains, Conditionals, Bares, Openers
  <2>8. QED
    BY <2>3, <2>4, <2>5, <2>6, <2>7
<1>3. QED
  BY <1>1, <1>2

\* What the preprocessor accepts is not rejected.
LEMMA AcceptedLine ==
    ASSUME NEW env, NEW p, PreType(p), NEW l, Compile(env, p, l).ok
    PROVE  p.ok /\ ~Rejects(env, p, l) /\ Compile(env, p, l) = Preprocess(p, l, Holds(env, l))
<1>1. ~Rejects(env, p, l)
  <2>1. [p EXCEPT !.ok = FALSE].ok = FALSE
    BY DEF PreType
  <2>2. QED
    BY <2>1 DEF Compile
<1>2. QED
  BY <1>1, RefusedLine DEF Compile

\* Outside of all groups for the machine is so for both preprocessors.
LEMMA OutsideFacts ==
    ASSUME NEW st, NEW p, NEW q, Same(st, p, q)
    PROVE  /\ Last(st) = "OUTSIDE" => Complete(p) /\ Complete(q)
           /\ Last(st) # "OUTSIDE" => ~Complete(p)
<1>1. PICK h : Stacks(st, p.groups, q.groups, h)
  BY DEF Same, Corresponds
<1>2. /\ st \in Seq(IfStates) /\ Len(st) >= 1 /\ Len(p.groups) = Len(st) /\ st[1] = "OUTSIDE"
      /\ \A k \in 1..Len(st) : k # 1 => st[k] \in Inside
      /\ Heights(Len(st), st, Len(q.groups), h)
  BY <1>1 DEF Stacks
<1>3. Last(st) = st[Len(st)] /\ Len(st) \in 1..Len(st)
  BY <1>2 DEF Last
<1>4. Last(st) = "OUTSIDE" <=> Len(st) = 1
  BY <1>2, <1>3 DEF Inside
<1>5. Len(st) = 1 => Len(q.groups) = 1
  BY <1>2 DEF Heights
<1>6. QED
  BY <1>2, <1>4, <1>5 DEF Complete, Same

\* The end of the file outside of all groups.
LEMMA RunDone ==
    ASSUME NEW o, NEW mm, NEW l, NEW st, Ready(o, mm, l, st)
    PROVE  LET m2 == Run(o, mm, l, <<"done">>) IN m2.status = "done" /\ m2.ifstate = st
<1> DEFINE steps == <<"done">>
<1>0. Len(steps) = 1
  OBVIOUS
<1>1. PICK R : IsRun(R, o, mm, l, steps) /\ Run(o, mm, l, steps) = R[1]
  BY <1>0, RunIsSteps DEF RunsTo
<1>2. R[0] = mm /\ R[1] = Step(o, R[0], l, "done")
  BY <1>0, <1>1 DEF IsRun
<1>3. Running(mm, st, {<< >>})
  BY DEF Ready
<1>4. Step(o, mm, l, "done") = [mm EXCEPT !.status = "done"]
  BY <1>3 DEF Step, Running, IfStates
<1>5. QED
  BY <1>1, <1>2, <1>3, <1>4 DEF Running, MachineType

-----------------------------------------------------------------------------
(* The verdicts on conditions *)

\* What is known of an expression, and what may be thought of it if C takes it
\* for v.
Results == {Open, ParseError} \cup {Known(v) : v \in Int}
Right(r, v) == r \in {Open, ParseError, Known(v)}

\* The values of the nodes, one after the other.
IsEvaluation(f, o, e) ==
    f[0] = << >> /\ \A n \in 1..Len(e) : f[n] = WithNode(o, e[n], f[n - 1])
IsCEvaluation(f, env, e) ==
    f[0] = << >> /\ \A n \in 1..Len(e) : f[n] = WithCNode(env, e[n], f[n - 1])

\* parseline evaluates an expression node by node,
LEMMA EvaluationIsSteps ==
    ASSUME NEW o, NEW e, Len(e) \in Nat
    PROVE  \E f : IsEvaluation(f, o, e) /\ Evaluation(o, e) = f[Len(e)]
<1> DEFINE N == Len(e)
           Def(k, f) == f = [n \in 0..k |-> IF n = 0 THEN << >> ELSE WithNode(o, e[n], f[n - 1])]
           S == {k \in Nat : \E f : Def(k, f)}
           upto == CHOOSE f : Def(N, f)
<1>1. 0 \in S
  <2> DEFINE f == [n \in 0..0 |-> << >>]
  <2>1. Def(0, f)
    OBVIOUS
  <2>2. QED
    BY <2>1
<1>2. ASSUME NEW k \in Nat, k \in S PROVE k + 1 \in S
  <2>1. PICK f : Def(k, f)
    BY <1>2
  <2> DEFINE g == [n \in 0..(k + 1) |-> IF n = k + 1 THEN WithNode(o, e[k + 1], f[k]) ELSE f[n]]
             h == [n \in 0..(k + 1) |-> IF n = 0 THEN << >> ELSE WithNode(o, e[n], g[n - 1])]
  <2>2. ASSUME NEW n \in 0..(k + 1) PROVE g[n] = IF n = 0 THEN << >> ELSE WithNode(o, e[n], g[n - 1])
    <3>1. n = 0 \/ n - 1 \in 0..k
      OBVIOUS
    <3>2. CASE n = k + 1
      <4>1. g[n] = WithNode(o, e[k + 1], f[k]) /\ g[n - 1] = f[k] /\ n # 0
        BY <3>2
      <4>2. QED
        BY <3>2, <4>1
    <3>3. CASE n # k + 1
      <4>1. n \in 0..k /\ n \in 0..(k + 1) /\ (n # 0 => n - 1 \in 0..(k + 1) /\ n - 1 # k + 1)
        BY <3>3
      <4>2. g[n] = f[n] /\ (n # 0 => g[n - 1] = f[n - 1])
        BY <3>3, <4>1
      <4>3. f[n] = IF n = 0 THEN << >> ELSE WithNode(o, e[n], f[n - 1])
        BY <2>1, <4>1
      <4>4. QED
        BY <4>2, <4>3
    <3>4. QED
      BY <3>2, <3>3
  <2>3. g = h
    BY <2>2
  <2>4. Def(k + 1, g)
    BY <2>3
  <2> HIDE DEF g, h, Def
  <2>5. QED
    BY <2>4
<1>3. N \in S
  <2> HIDE DEF S
  <2>1. QED
    BY <1>1, <1>2, NumbersInduction
<1>4. Def(N, upto)
  <2> HIDE DEF Def
  <2>1. QED
    BY <1>3
<1>5. Evaluation(o, e) = upto[N]
  BY DEF Evaluation
<1> HIDE DEF upto
<1>6. upto[0] = << >>
  BY <1>4
<1>7. ASSUME NEW n \in 1..N PROVE upto[n] = WithNode(o, e[n], upto[n - 1])
  <2>1. n \in 0..N /\ n # 0
    OBVIOUS
  <2>2. QED
    BY <1>4, <2>1
<1>8. QED
  BY <1>5, <1>6, <1>7 DEF IsEvaluation

\* and so does C.
LEMMA CValuesAreSteps ==
    ASSUME NEW env, NEW e, Len(e) \in Nat
    PROVE  \E f : IsCEvaluation(f, env, e) /\ CValues(env, e) = f[Len(e)]
<1> DEFINE N == Len(e)
           Def(k, f) == f = [n \in 0..k |-> IF n = 0 THEN << >> ELSE WithCNode(env, e[n], f[n - 1])]
           S == {k \in Nat : \E f : Def(k, f)}
           upto == CHOOSE f : Def(N, f)
<1>1. 0 \in S
  <2> DEFINE f == [n \in 0..0 |-> << >>]
  <2>1. Def(0, f)
    OBVIOUS
  <2>2. QED
    BY <2>1
<1>2. ASSUME NEW k \in Nat, k \in S PROVE k + 1 \in S
  <2>1. PICK f : Def(k, f)
    BY <1>2
  <2> DEFINE g == [n \in 0..(k + 1) |-> IF n = k + 1 THEN WithCNode(env, e[k + 1], f[k]) ELSE f[n]]
             h == [n \in 0..(k + 1) |-> IF n = 0 THEN << >> ELSE WithCNode(env, e[n], g[n - 1])]
  <2>2. ASSUME NEW n \in 0..(k + 1) PROVE g[n] = IF n = 0 THEN << >> ELSE WithCNode(env, e[n], g[n - 1])
    <3>1. n = 0 \/ n - 1 \in 0..k
      OBVIOUS
    <3>2. CASE n = k + 1
      <4>1. g[n] = WithCNode(env, e[k + 1], f[k]) /\ g[n - 1] = f[k] /\ n # 0
        BY <3>2
      <4>2. QED
        BY <3>2, <4>1
    <3>3. CASE n # k + 1
      <4>1. n \in 0..k /\ n \in 0..(k + 1) /\ (n # 0 => n - 1 \in 0..(k + 1) /\ n - 1 # k + 1)
        BY <3>3
      <4>2. g[n] = f[n] /\ (n # 0 => g[n - 1] = f[n - 1])
        BY <3>3, <4>1
      <4>3. f[n] = IF n = 0 THEN << >> ELSE WithCNode(env, e[n], f[n - 1])
        BY <2>1, <4>1
      <4>4. QED
        BY <4>2, <4>3
    <3>4. QED
      BY <3>2, <3>3
  <2>3. g = h
    BY <2>2
  <2>4. Def(k + 1, g)
    BY <2>3
  <2> HIDE DEF g, h, Def
  <2>5. QED
    BY <2>4
<1>3. N \in S
  <2> HIDE DEF S
  <2>1. QED
    BY <1>1, <1>2, NumbersInduction
<1>4. Def(N, upto)
  <2> HIDE DEF Def
  <2>1. QED
    BY <1>3
<1>5. CValues(env, e) = upto[N]
  BY DEF CValues
<1> HIDE DEF upto
<1>6. upto[0] = << >>
  BY <1>4
<1>7. ASSUME NEW n \in 1..N PROVE upto[n] = WithCNode(env, e[n], upto[n - 1])
  <2>1. n \in 0..N /\ n # 0
    OBVIOUS
  <2>2. QED
    BY <1>4, <2>1
<1>8. QED
  BY <1>5, <1>6, <1>7 DEF IsCEvaluation

\* The loop over the bits ends, for halving brings each number nearer to its
\* sign; so what it gives is a number.
Magnitude(a) == IF a >= 0 THEN a ELSE -a - 1
LEMMA HalvingShrinks ==
    ASSUME NEW a \in Int
    PROVE  /\ Magnitude(a) \in Nat /\ a \div 2 \in Int /\ a % 2 \in Int
           /\ Magnitude(a \div 2) <= Magnitude(a)
           /\ a \notin {0, -1} => Magnitude(a \div 2) < Magnitude(a)
BY DEF Magnitude

LEMMA BitwiseIsNumber ==
    ASSUME NEW op \in BitOps, NEW a \in Int, NEW b \in Int
    PROVE  Bitwise(op, a, b) \in Int
<1> DEFINE D == Int \X Int \X Int \X Int
           Ends(s) == s[1] \in {0, -1} /\ s[2] \in {0, -1}
           Sum(s) == s[4] - s[3] * OfBits(op, -s[1], -s[2])
           Rest(s) == <<s[1] \div 2, s[2] \div 2, 2 * s[3], s[4] + s[3] * OfBits(op, s[1] % 2, s[2] % 2)>>
           stop == {s \in D : Ends(s)}
           res == [s \in D |-> Sum(s)]
           step == [s \in D |-> Rest(s)]
           measure == [s \in D |-> Magnitude(s[1]) + Magnitude(s[2])]
           Bits(f) == f = [s \in D |-> IF Ends(s) THEN Sum(s) ELSE f[Rest(s)]]
           f == CHOOSE g : Bits(g)
<1>1. \A x, y : OfBits(op, x, y) \in Int
  BY DEF OfBits, Bit, BitOps
<1>2. \A x \in Int, y \in Int : x * y \in Int /\ x + y \in Int /\ x - y \in Int
  OBVIOUS
<1>3. ASSUME NEW s \in D PROVE Sum(s) \in Int /\ Rest(s) \in D
  <2>1. s[1] \in Int /\ s[2] \in Int /\ s[3] \in Int /\ s[4] \in Int
    OBVIOUS
  <2>2. s[1] \div 2 \in Int /\ s[2] \div 2 \in Int /\ 2 * s[3] \in Int
    BY <2>1
  <2>3. /\ s[3] * OfBits(op, -s[1], -s[2]) \in Int
        /\ s[3] * OfBits(op, s[1] % 2, s[2] % 2) \in Int
    BY <1>1, <1>2, <2>1
  <2>4. s[4] + s[3] * OfBits(op, s[1] % 2, s[2] % 2) \in Int
    BY <1>2, <2>1, <2>3
  <2> QED
    BY <1>2, <2>1, <2>2, <2>3, <2>4
<1>4. res \in [D -> Int] /\ step \in [D -> D]
  BY <1>3
<1>5. measure \in [D -> Nat]
  <2>1. ASSUME NEW s \in D PROVE Magnitude(s[1]) + Magnitude(s[2]) \in Nat
    BY HalvingShrinks
  <2> QED
    BY <2>1
<1>6. ASSUME NEW s \in D, s \notin stop PROVE measure[step[s]] < measure[s]
  <2>1. s[1] \in Int /\ s[2] \in Int /\ ~Ends(s)
    BY <1>6
  <2>2. /\ Magnitude(s[1] \div 2) <= Magnitude(s[1]) /\ Magnitude(s[2] \div 2) <= Magnitude(s[2])
        /\ s[1] \notin {0, -1} => Magnitude(s[1] \div 2) < Magnitude(s[1])
        /\ s[2] \notin {0, -1} => Magnitude(s[2] \div 2) < Magnitude(s[2])
        /\ Magnitude(s[1]) \in Nat /\ Magnitude(s[2]) \in Nat
        /\ Magnitude(s[1] \div 2) \in Nat /\ Magnitude(s[2] \div 2) \in Nat
    BY <2>1, HalvingShrinks
  <2>3. Magnitude(s[1] \div 2) + Magnitude(s[2] \div 2) < Magnitude(s[1]) + Magnitude(s[2])
    BY <2>1, <2>2
  <2>4. step[s] = Rest(s) /\ Rest(s) \in D /\ Rest(s)[1] = s[1] \div 2 /\ Rest(s)[2] = s[2] \div 2
    BY <1>3
  <2>5. measure[Rest(s)] = Magnitude(s[1] \div 2) + Magnitude(s[2] \div 2)
    BY <2>4
  <2> QED
    BY <2>3, <2>4, <2>5
<1>7. \E g : Bits(g)
  <2>1. \E g \in [D -> Int] : IsLoop(g, D, stop, res, step)
    <3> HIDE DEF D, stop, res, step
    <3> QED
      BY <1>4, LoopExists
  <2>2. PICK g \in [D -> Int] : IsLoop(g, D, stop, res, step)
    BY <2>1
  <2>3. ASSUME NEW s \in D PROVE g[s] = IF Ends(s) THEN Sum(s) ELSE g[Rest(s)]
    <3>1. (s \in stop <=> Ends(s)) /\ res[s] = Sum(s) /\ step[s] = Rest(s)
      OBVIOUS
    <3>2. g[s] = IF s \in stop THEN res[s] ELSE g[step[s]]
      BY <2>2 DEF IsLoop
    <3> HIDE DEF Ends, Sum, Rest, stop, res, step
    <3> QED
      BY <3>1, <3>2
  <2> HIDE DEF Ends, Sum, Rest, D
  <2>4. Bits(g)
    BY <2>2, <2>3
  <2> QED
    BY <2>4
<1>8. Bits(f)
  <2> HIDE DEF Bits
  <2> QED
    BY <1>7
<1>9. IsLoop(f, D, stop, res, step)
  <2>1. ASSUME NEW s \in D PROVE f[s] = IF s \in stop THEN res[s] ELSE f[step[s]]
    <3>1. (s \in stop <=> Ends(s)) /\ res[s] = Sum(s) /\ step[s] = Rest(s)
      OBVIOUS
    <3> HIDE DEF f, Ends, Sum, Rest, stop, res, step, D
    <3>2. f[s] = IF Ends(s) THEN Sum(s) ELSE f[Rest(s)]
      BY <1>8
    <3> QED
      BY <3>1, <3>2
  <2> HIDE DEF f, D, stop, res, step
  <2> QED
    BY <2>1 DEF IsLoop
<1>10. Bitwise(op, a, b) = f[<<a, b, 1, 0>>]
  BY DEF Bitwise
<1>11. <<a, b, 1, 0>> \in D
  OBVIOUS
<1> HIDE DEF f, D, stop, res, step, measure
<1>12. \A s \in D : f[s] \in Int
  <2>1. \A s \in D : s \notin stop => measure[step[s]] < measure[s]
    BY <1>6
  <2> QED
    BY <1>4, <1>5, <1>9, <2>1, LoopType
<1> QED
  BY <1>10, <1>11, <1>12

LEMMA ShiftedIsNumber ==
    ASSUME NEW op, NEW a \in Int, NEW n \in Nat
    PROVE  Shifted(op, a, n) \in Int
<1> DEFINE D == Int \X Nat
           Next1(s) == <<IF op = "<<" THEN 2 * s[1] ELSE s[1] \div 2, s[2] - 1>>
           stop == {s \in D : s[2] = 0}
           res == [s \in D |-> s[1]]
           step == [s \in D |-> IF s[2] = 0 THEN s ELSE Next1(s)]
           measure == [s \in D |-> s[2]]
           Shift(f) == f = [s \in D |-> IF s[2] = 0 THEN s[1] ELSE f[Next1(s)]]
           f == CHOOSE g : Shift(g)
<1>1. ASSUME NEW s \in D, s[2] # 0 PROVE Next1(s) \in D
  <2>1. s[1] \in Int /\ s[2] \in Nat
    OBVIOUS
  <2>2. 2 * s[1] \in Int /\ s[1] \div 2 \in Int /\ s[2] - 1 \in Nat
    BY <1>1, <2>1
  <2>3. (IF op = "<<" THEN 2 * s[1] ELSE s[1] \div 2) \in Int
    BY <2>2
  <2> QED
    BY <2>2, <2>3
<1>2. res \in [D -> Int] /\ step \in [D -> D] /\ measure \in [D -> Nat]
  BY <1>1
<1>3. ASSUME NEW s \in D, s \notin stop PROVE measure[step[s]] < measure[s]
  <2>1. s[2] # 0 /\ s[2] \in Nat
    BY <1>3
  <2>2. step[s] = Next1(s) /\ Next1(s) \in D /\ Next1(s)[2] = s[2] - 1
    BY <1>1, <2>1
  <2> QED
    BY <2>1, <2>2
<1>4. ASSUME NEW s \in D
      PROVE  (s \in stop <=> s[2] = 0) /\ res[s] = s[1] /\ (s[2] # 0 => step[s] = Next1(s))
  OBVIOUS
<1>5. \E g : Shift(g)
  <2>1. \E g \in [D -> Int] : IsLoop(g, D, stop, res, step)
    <3> HIDE DEF D, stop, res, step
    <3> QED
      BY <1>2, LoopExists
  <2>2. PICK g \in [D -> Int] : IsLoop(g, D, stop, res, step)
    BY <2>1
  <2>3. ASSUME NEW s \in D PROVE g[s] = IF s[2] = 0 THEN s[1] ELSE g[Next1(s)]
    <3>1. g[s] = IF s \in stop THEN res[s] ELSE g[step[s]]
      BY <2>2 DEF IsLoop
    <3> HIDE DEF Next1, stop, res, step, D
    <3> QED
      BY <1>4, <3>1
  <2> HIDE DEF Next1, D
  <2>4. Shift(g)
    BY <2>2, <2>3
  <2> QED
    BY <2>4
<1>6. Shift(f)
  <2> HIDE DEF Shift
  <2> QED
    BY <1>5
<1>7. IsLoop(f, D, stop, res, step)
  <2>1. ASSUME NEW s \in D PROVE f[s] = IF s \in stop THEN res[s] ELSE f[step[s]]
    <3> HIDE DEF f, Next1, stop, res, step, D
    <3>1. f[s] = IF s[2] = 0 THEN s[1] ELSE f[Next1(s)]
      BY <1>6
    <3> QED
      BY <1>4, <3>1
  <2> HIDE DEF f, D, stop, res, step
  <2> QED
    BY <2>1 DEF IsLoop
<1>8. Shifted(op, a, n) = f[<<a, n>>] /\ <<a, n>> \in D
  BY DEF Shifted
<1> HIDE DEF f, D, stop, res, step, measure
<1>9. \A s \in D : f[s] \in Int
  <2>1. \A s \in D : s \notin stop => measure[step[s]] < measure[s]
    BY <1>3
  <2> QED
    BY <1>2, <1>7, <2>1, LoopType
<1> QED
  BY <1>8, <1>9

\* What the operators give is a number.
LEMMA ValueIsNumber ==
    ASSUME NEW op \in BinaryOps, NEW a \in Int, NEW b \in Int
    PROVE  Value(op, a, b) \in Int
<1>1. \A c : Bit(c) \in Int
  BY DEF Bit
<1>2. ASSUME b # 0 PROVE Quotient(a, b) \in Int
  <2>1. \A x \in Int, y \in Int : y > 0 => x \div y \in Int
    OBVIOUS
  <2>2. QED
    BY <1>2, <2>1 DEF Quotient
<1>3. CASE op \in {"<", ">", "<=", ">=", "==", "!=", "||", "&&"}
  BY <1>1, <1>3 DEF Value, BitOps, ShiftOps
<1>4. CASE op \in {"+", "-", "*"}
  BY <1>4 DEF Value, BitOps, ShiftOps
<1>5. CASE op \in {"/", "%"}
  <2>1. Value(op, a, b) = IF b = 0 THEN 0 ELSE IF op = "/" THEN Quotient(a, b) ELSE a - b * Quotient(a, b)
    BY <1>5 DEF Value, BitOps, ShiftOps
  <2>2. b # 0 => b * Quotient(a, b) \in Int
    BY <1>2
  <2>3. QED
    BY <1>2, <2>1, <2>2
<1>6. CASE op \in BitOps
  <2>1. Value(op, a, b) = Bitwise(op, a, b)
    BY <1>6 DEF Value, BitOps, ShiftOps
  <2>2. QED
    BY <1>6, <2>1, BitwiseIsNumber
<1>7. CASE op \in ShiftOps
  <2>1. Value(op, a, b) = IF b \in ShiftPlaces THEN Shifted(op, a, b) ELSE 0
    BY <1>7 DEF Value, BitOps, ShiftOps
  <2>2. b \in ShiftPlaces => b \in Nat
    BY DEF ShiftPlaces
  <2>3. QED
    BY <2>1, <2>2, ShiftedIsNumber
<1>8. QED
  BY <1>3, <1>4, <1>5, <1>6, <1>7 DEF BinaryOps

\* What is known of a value, and its type.
LEMMA RightFacts ==
    ASSUME NEW v \in Int, NEW r, Right(r, v)
    PROVE  /\ r \in Results /\ r.lt \in {"ERROR", "IF", "TRUE", "FALSE"}
           /\ r.lt \in {"TRUE", "FALSE"} => r = Known(v) /\ r.val = v /\ r.lt = Truth(v)
           /\ r.lt = "ERROR" => r = ParseError
           /\ r.lt = "IF" => r = Open
BY DEF Right, Results, Known, Open, ParseError, Truth

\* An operator with one operand,
LEMMA UnaryRight ==
    ASSUME NEW op \in UnaryOps, NEW v \in Int, NEW r, Right(r, v)
    PROVE  Negated(op, v) \in Int /\ Right(Unary(op, r), Negated(op, v))
<1>1. Negated(op, v) \in Int
  BY DEF UnaryOps, Negated, Bit
<1>2. CASE r.lt \in {"ERROR", "IF"}
  <2>1. Unary(op, r) = r /\ r \in {Open, ParseError}
    BY <1>2, RightFacts DEF Unary
  <2>2. QED
    BY <1>1, <2>1 DEF Right
<1>3. CASE r.lt \in {"TRUE", "FALSE"}
  <2>1. r.val = v /\ r.lt \notin {"ERROR", "IF"}
    BY <1>3, RightFacts
  <2>2. Unary(op, r) = Known(Negated(op, v))
    BY <2>1 DEF Unary
  <2>3. QED
    BY <1>1, <2>2 DEF Right
<1>4. QED
  BY <1>1, <1>2, <1>3, RightFacts

\* and with two.  One side may decide: the other is whatever it is.
LEMMA BinaryRight ==
    ASSUME NEW o, NEW op \in BinaryOps, NEW v \in Int, NEW w \in Int,
           NEW a, Right(a, v), NEW b, Right(b, w)
    PROVE  Right(Binary(o, op, a, b), Value(op, v, w))
<1> DEFINE lts == {a.lt, b.lt}
<1>0. a.lt \in {"ERROR", "IF", "TRUE", "FALSE"} /\ b.lt \in {"ERROR", "IF", "TRUE", "FALSE"}
  BY RightFacts
<1>1. CASE "ERROR" \in lts
  <2>1. Binary(o, op, a, b) = ParseError
    BY <1>1 DEF Binary
  <2>2. QED
    BY <2>1 DEF Right
<1>2. CASE "ERROR" \notin lts /\ Decides(o, op, lts)
  <2>1. Binary(o, op, a, b) = Known(Bit(op = "||"))
    BY <1>2 DEF Binary
  <2>2. CASE op = "||" /\ "TRUE" \in lts
    <3>1. v # 0 \/ w # 0
      BY <2>2, RightFacts DEF Truth
    <3>2. Value(op, v, w) = Bit(v # 0 \/ w # 0)
      BY <2>2 DEF Value, BitOps, ShiftOps
    <3>3. QED
      BY <2>1, <2>2, <3>1, <3>2 DEF Right, Bit
  <2>3. CASE op = "&&" /\ "FALSE" \in lts
    <3>1. ~(v # 0 /\ w # 0)
      BY <2>3, RightFacts DEF Truth
    <3>2. Value(op, v, w) = Bit(v # 0 /\ w # 0)
      BY <2>3 DEF Value, BitOps, ShiftOps
    <3>3. QED
      BY <2>1, <2>3, <3>1, <3>2 DEF Right, Bit
  <2>4. QED
    BY <1>2, <2>2, <2>3 DEF Decides
<1>3. CASE "ERROR" \notin lts /\ ~Decides(o, op, lts) /\ "IF" \in lts
  <2>1. Binary(o, op, a, b) = Open
    BY <1>3 DEF Binary
  <2>2. QED
    BY <2>1 DEF Right
<1>4. CASE "ERROR" \notin lts /\ ~Decides(o, op, lts) /\ "IF" \notin lts
  <2>1. Binary(o, op, a, b) = Known(Value(op, a.val, b.val))
    BY <1>4 DEF Binary
  <2>2. a.val = v /\ b.val = w
    BY <1>0, <1>4, RightFacts
  <2>3. QED
    BY <2>1, <2>2 DEF Right
<1>5. QED
  BY <1>1, <1>2, <1>3, <1>4

\* A number or a symbol.
LEMMA LeafRight ==
    ASSUME NEW env, Environment(env), NEW o, Agrees(env, o), o.symlist = FALSE,
           NEW node, node.op \in Leaves, node.op = "number" => node.n \in Int, NEW values
    PROVE  CNode(env, node, values) \in Int /\ Right(Leaf(o, node), CNode(env, node, values))
<1> DEFINE s == node.s
           c == CNode(env, node, values)
<1>1. CASE node.op = "number"
  <2>1. c = node.n /\ Leaf(o, node) = Known(node.n)
    BY <1>1 DEF CNode, Leaf, UnaryOps, BinaryOps, BitOps, ShiftOps
  <2>2. QED
    BY <1>1, <2>1 DEF Right
<1>2. CASE node.op = "symbol"
  <2>1. c = (IF s \in DOMAIN env.value THEN env.value[s] ELSE 0) /\ Leaf(o, node) = Symbol(o, s)
    BY <1>2 DEF CNode, Leaf, UnaryOps, BinaryOps, BitOps, ShiftOps
  <2>2. c \in Int
    BY <2>1 DEF Environment
  <2>3. CASE s \notin o.known
    BY <2>1, <2>2, <2>3 DEF Symbol, Right
  <2>4. CASE s \in o.known /\ s \notin DOMAIN o.value
    <3>1. c = 0 /\ Symbol(o, s) = Known(0)
      BY <2>1, <2>4 DEF Symbol, Agrees
    <3>2. QED
      BY <2>1, <2>2, <3>1 DEF Right
  <2>5. CASE s \in o.known /\ s \in DOMAIN o.value
    <3>1. Symbol(o, s) = IF o.value[s].kind = "number" THEN Known(o.value[s].n) ELSE ParseError
      BY <2>5 DEF Symbol
    <3>2. o.value[s].kind = "number" => c = o.value[s].n
      BY <2>1, <2>5 DEF Agrees
    <3>3. QED
      BY <2>1, <2>2, <3>1, <3>2 DEF Right
  <2>6. QED
    BY <2>3, <2>4, <2>5
<1>3. CASE node.op = "defined"
  <2>1. c = Bit(s \in DOMAIN env.value) /\ Leaf(o, node) = Defined(o, s)
    BY <1>3 DEF CNode, Leaf, UnaryOps, BinaryOps, BitOps, ShiftOps
  <2>2. c \in Int
    BY <2>1 DEF Bit
  <2>3. CASE s \notin o.known
    BY <2>1, <2>2, <2>3 DEF Defined, Right
  <2>4. CASE s \in o.known
    <3>1. Defined(o, s) = Known(Bit(s \in DOMAIN o.value))
      BY <2>4 DEF Defined, Bit
    <3>2. s \in DOMAIN env.value <=> s \in DOMAIN o.value
      BY <2>4 DEF Agrees
    <3>3. c = Bit(s \in DOMAIN o.value)
      BY <2>1, <3>2 DEF Bit
    <3>4. QED
      BY <2>1, <2>2, <3>1, <3>3 DEF Right
  <2>5. QED
    BY <2>3, <2>4
<1>4. CASE node.op = "bad"
  <2>1. c = env.odd /\ Leaf(o, node) = ParseError
    BY <1>4 DEF CNode, Leaf, UnaryOps, BinaryOps, BitOps, ShiftOps
  <2>2. QED
    BY <2>1 DEF Right, Environment
<1>5. QED
  BY <1>1, <1>2, <1>3, <1>4 DEF Leaves

\* A node, when what is known of those before it is right.
RightUpTo(n, values, cvalues) ==
    /\ values \in Seq(Results) /\ cvalues \in Seq(Int) /\ Len(values) = n /\ Len(cvalues) = n
    /\ \A i \in 1..n : Right(values[i], cvalues[i])

LEMMA NodeRight ==
    ASSUME NEW env, Environment(env), NEW o, Agrees(env, o), o.symlist = FALSE,
           NEW e, WellFormed(e), NEW n \in 1..Len(e),
           NEW values, NEW cvalues, RightUpTo(n - 1, values, cvalues)
    PROVE  RightUpTo(n, WithNode(o, e[n], values), WithCNode(env, e[n], cvalues))
<1> DEFINE node == e[n]
           r == EvalNode(o, node, values)
           c == CNode(env, node, cvalues)
<1>0. n \in Nat /\ n >= 1
  BY DEF WellFormed
<1>1. /\ values \in Seq(Results) /\ cvalues \in Seq(Int) /\ Len(values) = n - 1 /\ Len(cvalues) = n - 1
      /\ \A i \in 1..(n - 1) : Right(values[i], cvalues[i])
  BY DEF RightUpTo
<1>2. \A i \in 1..(n - 1) : cvalues[i] \in Int
  BY <1>0, <1>1
<1>3. c \in Int /\ Right(r, c)
  <2>1. CASE node.op \in Leaves
    <3>1. node.op = "number" => node.n \in Int
      BY <2>1 DEF WellFormed, Leaves, UnaryOps, BinaryOps, BitOps, ShiftOps
    <3>2. r = Leaf(o, node)
      BY <2>1 DEF EvalNode, Leaves, UnaryOps, BinaryOps, BitOps, ShiftOps
    <3>3. QED
      BY <2>1, <3>1, <3>2, LeafRight
  <2>2. CASE node.op \in UnaryOps
    <3>1. n - 1 \in 1..(n - 1)
      BY <1>0, <2>2 DEF WellFormed, Leaves, UnaryOps, BinaryOps, BitOps, ShiftOps
    <3>2. LastOperand(values) = values[n - 1] /\ LastOperand(cvalues) = cvalues[n - 1]
      BY <1>1 DEF LastOperand
    <3>3. r = Unary(node.op, values[n - 1]) /\ c = Negated(node.op, cvalues[n - 1])
      BY <2>2, <3>2 DEF EvalNode, CNode, Leaves, UnaryOps, BinaryOps, BitOps, ShiftOps
    <3>4. Right(values[n - 1], cvalues[n - 1]) /\ cvalues[n - 1] \in Int
      BY <1>1, <1>2, <3>1
    <3> HIDE DEF node, r, c
    <3>5. QED
      BY <2>2, <3>3, <3>4, UnaryRight
  <2>3. CASE node.op \in BinaryOps
    <3> DEFINE k == n - 1 - node.right
    <3>1. node.right \in 1..(n - 2)
      BY <2>3 DEF WellFormed, Leaves, UnaryOps, BinaryOps, BitOps, ShiftOps
    <3>2. n - 1 \in 1..(n - 1) /\ k \in 1..(n - 1)
      BY <1>0, <3>1
    <3>3. /\ LastOperand(values) = values[n - 1] /\ LastOperand(cvalues) = cvalues[n - 1]
          /\ FirstOperand(values, node) = values[k] /\ FirstOperand(cvalues, node) = cvalues[k]
      BY <1>1 DEF LastOperand, FirstOperand
    <3>4. /\ r = Binary(o, node.op, values[k], values[n - 1])
          /\ c = Value(node.op, cvalues[k], cvalues[n - 1])
      BY <2>3, <3>3 DEF EvalNode, CNode, Leaves, UnaryOps, BinaryOps, BitOps, ShiftOps
    <3>5. /\ Right(values[n - 1], cvalues[n - 1]) /\ cvalues[n - 1] \in Int
          /\ Right(values[k], cvalues[k]) /\ cvalues[k] \in Int
      BY <1>1, <1>2, <3>2
    <3> HIDE DEF node, r, c, k
    <3>6. c \in Int
      BY <2>3, <3>4, <3>5, ValueIsNumber
    <3>7. Right(r, c)
      BY <2>3, <3>4, <3>5, BinaryRight
    <3>8. QED
      BY <3>6, <3>7
  <2>4. QED
    BY <2>1, <2>2, <2>3 DEF WellFormed
<1>4. r \in Results
  BY <1>3, RightFacts
<1>5. WithNode(o, node, values) = Append(values, r) /\ WithCNode(env, node, cvalues) = Append(cvalues, c)
  BY DEF WithNode, WithCNode
<1> HIDE DEF r, c
<1>6. /\ Append(values, r) \in Seq(Results) /\ Len(Append(values, r)) = n
      /\ \A i \in 1..n : Append(values, r)[i] = IF i = n THEN r ELSE values[i]
  BY <1>0, <1>1, <1>4
<1>7. /\ Append(cvalues, c) \in Seq(Int) /\ Len(Append(cvalues, c)) = n
      /\ \A i \in 1..n : Append(cvalues, c)[i] = IF i = n THEN c ELSE cvalues[i]
  BY <1>0, <1>1, <1>3
<1>8. \A i \in 1..n : i = n \/ i \in 1..(n - 1)
  BY <1>0
<1>9. QED
  BY <1>1, <1>3, <1>5, <1>6, <1>7, <1>8 DEF RightUpTo

\* All of them.
LEMMA NodesRight ==
    ASSUME NEW env, Environment(env), NEW o, Agrees(env, o), o.symlist = FALSE,
           NEW e, WellFormed(e)
    PROVE  RightUpTo(Len(e), Evaluation(o, e), CValues(env, e))
<1>0. Len(e) \in Nat
  BY DEF WellFormed
<1>1. PICK f : IsEvaluation(f, o, e) /\ Evaluation(o, e) = f[Len(e)]
  BY <1>0, EvaluationIsSteps
<1>2. PICK g : IsCEvaluation(g, env, e) /\ CValues(env, e) = g[Len(e)]
  BY <1>0, CValuesAreSteps
<1> DEFINE S == {n \in Nat : n <= Len(e) => RightUpTo(n, f[n], g[n])}
<1>3. 0 \in S
  <2>1. << >> \in Seq(Results) /\ << >> \in Seq(Int) /\ Len(<< >>) = 0
    OBVIOUS
  <2>2. f[0] = << >> /\ g[0] = << >>
    BY <1>1, <1>2 DEF IsEvaluation, IsCEvaluation
  <2>3. \A i \in 1..0 : FALSE
    OBVIOUS
  <2>4. RightUpTo(0, << >>, << >>)
    BY <2>1, <2>3 DEF RightUpTo
  <2>5. QED
    BY <2>2, <2>4
<1>4. ASSUME NEW k \in Nat, k \in S PROVE k + 1 \in S
  <2>1. CASE k + 1 <= Len(e)
    <3>1. k + 1 \in 1..Len(e) /\ (k + 1) - 1 = k /\ k <= Len(e)
      BY <1>0, <2>1
    <3>2. RightUpTo((k + 1) - 1, f[k], g[k])
      BY <1>4, <3>1
    <3>3. f[k + 1] = WithNode(o, e[k + 1], f[k]) /\ g[k + 1] = WithCNode(env, e[k + 1], g[k])
      BY <1>1, <1>2, <3>1 DEF IsEvaluation, IsCEvaluation
    <3>4. RightUpTo(k + 1, f[k + 1], g[k + 1])
      BY <3>1, <3>2, <3>3, NodeRight
    <3>5. QED
      BY <3>4
  <2>2. QED
    BY <1>4, <2>1
<1>5. Len(e) \in S
  <2> HIDE DEF S
  <2>1. QED
    BY <1>0, <1>3, <1>4, NumbersInduction
<1>6. QED
  BY <1>0, <1>1, <1>2, <1>5

(***************************************************************************)
(* ifeval says TRUE or FALSE of an expression only if the C preprocessor   *)
(* thinks the same of it, in every environment the -D and -U options agree *)
(* with: for every expression, of any length, with -k and -K or without.   *)
(***************************************************************************)
THEOREM VerdictIsRight ==
    ASSUME NEW env, Environment(env), NEW o, Agrees(env, o), o.symlist = FALSE,
           NEW e, WellFormed(e)
    PROVE  IfEval(o, e) \in {"IF", IF LastOperand(CValues(env, e)) # 0 THEN "TRUE" ELSE "FALSE"}
<1> DEFINE values == Evaluation(o, e)
           cvalues == CValues(env, e)
           r == LastOperand(values)
           c == LastOperand(cvalues)
<1>1. Len(e) \in Nat /\ Len(e) \in 1..Len(e)
  BY DEF WellFormed
<1>2. RightUpTo(Len(e), values, cvalues)
  BY NodesRight
<1> HIDE DEF values, cvalues
<1>3. Right(r, c) /\ c \in Int
  BY <1>1, <1>2 DEF RightUpTo, LastOperand
<1>4. IfEval(o, e) = "IF" \/ (IfEval(o, e) = r.lt /\ r.lt # "ERROR")
  BY DEF IfEval, Verdict, values
<1>5. r.lt \in {"ERROR", "IF", "TRUE", "FALSE"} /\ (r.lt \in {"TRUE", "FALSE"} => r.lt = Truth(c))
  BY <1>3, RightFacts
<1>6. QED
  BY <1>4, <1>5 DEF Truth, cvalues

\* parseline says of each line what is right, or that it does not know; the
\* line behind a dodgy one is taken for a plain one.
LEMMA LineTypeIsRight ==
    ASSUME NEW env, Environment(env), NEW o, Agrees(env, o), o.symlist = FALSE,
           NEW l \in Lines, NEW dirty, dirty => l.kind = "plain"
    PROVE  LineType(o, l, dirty) \in LineTypes(env, l)
<1> DEFINE lt == Keyword(o, l)
           junk == l.kind \in Openers \cup {"elif"} /\ l.junk
<1>0. ASSUME NEW t \in Verdicts(env, l) PROVE [lt |-> t, dodgy |-> l.split] \in LineTypes(env, l)
  BY DEF LineTypes
<1>1. CASE l \in Plains
  <2>1. l.kind = "plain" /\ l.split = FALSE
    <3>1. Blank.kind = "plain" /\ Blank.split = FALSE
      BY DEF Blank
    <3>2. l = Blank \/ l \in TextLines
      BY <1>1 DEF Plains
    <3>3. QED
      BY <3>1, <3>2 DEF TextLines
  <2>2. LineType(o, l, dirty) = [lt |-> "PLAIN", dodgy |-> l.split]
    BY <2>1 DEF LineType, Plainly
  <2>3. "PLAIN" \in Verdicts(env, l)
    BY <2>1 DEF Verdicts
  <2>4. QED
    BY <1>0, <2>2, <2>3
<1>2. CASE l \in Bares
  <2>1. l.kind \in {"else", "endif"}
    BY <1>2 DEF Bares
  <2>2. LineType(o, l, dirty) = [lt |-> lt, dodgy |-> l.split]
    BY <2>1 DEF LineType, Dodgy, Openers
  <2>3. lt \in Verdicts(env, l)
    BY <2>1 DEF Keyword, Verdicts, Openers
  <2>4. QED
    BY <1>0, <2>2, <2>3
<1>3. CASE l \in Conditionals
  <2>1. /\ l.kind \in {"if", "elif", "ifdef", "ifndef"} /\ l.e \in Conditions /\ WellFormed(l.e)
        /\ l.kind \in {"ifdef", "ifndef"} => Named(l.e)
    BY <1>3, ConditionsAssumption DEF Conditionals
  <2>2. LineType(o, l, dirty) = [lt |-> IF l.junk THEN WithJunk(lt) ELSE lt, dodgy |-> l.split]
    BY <2>1 DEF LineType, Dodgy, Openers
  <2>3. CASE l.kind \in {"if", "elif"}
    <3> DEFINE true == LastOperand(CValues(env, l.e)) # 0
    <3>1. IfEval(o, l.e) \in {"IF", IF true THEN "TRUE" ELSE "FALSE"}
      BY <2>1, VerdictIsRight
    <3>2. ~l.junk => (Holds(env, l) <=> true)
      BY <2>3 DEF Holds, IsTrue, NotC, Openers
    <3> HIDE DEF true
    <3>3. CASE l.kind = "if"
      <4>1. lt = IfEval(o, l.e)
        BY <3>3 DEF Keyword
      <4>2. (IF l.junk THEN WithJunk(lt) ELSE lt) \in Verdicts(env, l)
        BY <3>1, <3>2, <3>3, <4>1 DEF Verdicts, WithJunk
      <4>3. QED
        BY <1>0, <2>2, <4>2
    <3>4. CASE l.kind = "elif"
      <4>1. lt = ElifType(IfEval(o, l.e))
        BY <3>4 DEF Keyword
      <4>2. lt \in {"ELIF", IF true THEN "ELTRUE" ELSE "ELFALSE"}
        BY <3>1, <4>1 DEF ElifType
      <4>3. (IF l.junk THEN WithJunk(lt) ELSE lt) \in Verdicts(env, l)
        BY <3>2, <3>4, <4>2 DEF Verdicts, WithJunk
      <4>4. QED
        BY <1>0, <2>2, <4>3
    <3>5. QED
      BY <2>3, <3>3, <3>4
  <2>4. CASE l.kind \in {"ifdef", "ifndef"}
    <3> DEFINE s == l.e[1].s
               known == IF l.kind = "ifndef" THEN "FALSE" ELSE "TRUE"
               truth == IF s \notin DOMAIN o.value THEN Flip(known) ELSE known
    <3>1. lt = IfDef(o, l)
      BY <2>4 DEF Keyword
    <3>2. IfDef(o, l) = IF l.e[1].op = "bad" \/ s \notin o.known THEN "IF"
                        ELSE IF s \in o.ignore THEN Ignored(truth) ELSE truth
      BY DEF IfDef
    <3>3. ~NotC(l) => (Holds(env, l) <=> ((s \in DOMAIN env.value) <=> (l.kind = "ifdef")))
      BY <2>4 DEF Holds, IsTrue, Openers
    <3>4. s \in o.known => (s \in DOMAIN env.value <=> s \in DOMAIN o.value)
      BY DEF Agrees
    <3>5. truth = IF (s \in DOMAIN o.value) <=> (l.kind = "ifdef") THEN "TRUE" ELSE "FALSE"
      BY <2>4 DEF Flip
    <3>6. NotC(l) <=> l.junk \/ l.e[1].op = "bad"
      BY <2>4 DEF NotC
    <3>7. l.junk \in BOOLEAN
      BY <1>3 DEF Conditionals
    <3> HIDE DEF s, known, truth, lt
    <3>8. Verdicts(env, l) = {"IF"} \cup (IF Holds(env, l) THEN {"TRUE", "TRUEI"} ELSE {"FALSE", "FALSEI"})
      BY <2>4 DEF Verdicts
    <3>9. lt = "IF" \/ lt = truth \/ lt = Ignored(truth)
      BY <3>1, <3>2
    <3>10. CASE l.junk
      <4>1. WithJunk(lt) = "IF"
        BY <3>5, <3>9 DEF WithJunk, Ignored
      <4>2. QED
        BY <1>0, <2>2, <3>8, <3>10, <4>1
    <3>11. CASE ~l.junk /\ lt = "IF"
      BY <1>0, <2>2, <3>8, <3>11
    <3>12. CASE ~l.junk /\ lt # "IF"
      <4>1. ~NotC(l) /\ s \in o.known
        BY <3>1, <3>2, <3>6, <3>12
      <4>2. truth = IF Holds(env, l) THEN "TRUE" ELSE "FALSE"
        BY <3>3, <3>4, <3>5, <4>1
      <4>3. lt \in Verdicts(env, l)
        BY <3>8, <3>9, <3>12, <4>2 DEF Ignored
      <4>4. QED
        BY <1>0, <2>2, <3>12, <4>3
    <3>13. QED
      BY <3>10, <3>11, <3>12
  <2>5. QED
    BY <2>1, <2>3, <2>4
<1>4. QED
  BY <1>1, <1>2, <1>3 DEF Lines

-----------------------------------------------------------------------------
(* What was written before *)

\* A machine by its parts, and two that differ in that one has written pre before.
Machine(is, ig, w, al, s, bc, bm) ==
    [ifstate |-> is, ignoring |-> ig, out |-> w, altered |-> al, status |-> s, blankcount |-> bc, blankmax |-> bm]
Behind(pre, S, m1, m2) ==
    \E is, ig, al, s, bc, bm : \E w \in Seq(S) :
        m1 = Machine(is, ig, w, al, s, bc, bm) /\ m2 = Machine(is, ig, pre \o w, al, s, bc, bm)

LEMMA TheseAreBehind ==
    ASSUME NEW pre, NEW S, NEW w \in Seq(S), NEW is, NEW ig, NEW al, NEW s, NEW bc, NEW bm
    PROVE  Behind(pre, S, Machine(is, ig, w, al, s, bc, bm), Machine(is, ig, pre \o w, al, s, bc, bm))
BY Zenon DEF Behind

\* flushline does not look at what was written.
LEMMA FlushBehind ==
    ASSUME NEW o, PrintOptions(o), NEW S, Blank \in S, NEW pre \in Seq(S), NEW m1, NEW m2, Behind(pre, S, m1, m2),
           NEW l \in S, NEW keep \in BOOLEAN
    PROVE  Behind(pre, S, Flush(o, m1, l, keep), Flush(o, m2, l, keep))
<1>1. PICK is, ig, al, s, bc, bm : \E w \in Seq(S) :
              m1 = Machine(is, ig, w, al, s, bc, bm) /\ m2 = Machine(is, ig, pre \o w, al, s, bc, bm)
  BY DEF Behind
<1>2. PICK w \in Seq(S) : m1 = Machine(is, ig, w, al, s, bc, bm) /\ m2 = Machine(is, ig, pre \o w, al, s, bc, bm)
  BY <1>1
<1> DEFINE isblank == l.kind = "plain" /\ l.blank
           squeezed == isblank /\ o.compblank /\ bc # bm
           blanks == IF isblank THEN bc + 1 ELSE 0
           v == IF o.lnblank THEN Append(w, Blank) ELSE w
<1>3. o.symlist = FALSE /\ o.complement = FALSE
  BY DEF PrintOptions
<1>4. pre \o Append(w, l) = Append(pre \o w, l) /\ Append(w, l) \in Seq(S)
  OBVIOUS
<1>5. /\ v \in Seq(S)
      /\ pre \o v = IF o.lnblank THEN Append(pre \o w, Blank) ELSE pre \o w
  OBVIOUS
<1>6. CASE keep /\ squeezed
  <2>1. /\ Flush(o, m1, l, keep) = Machine(is, ig, w, al, s, bc + 1, bm)
        /\ Flush(o, m2, l, keep) = Machine(is, ig, pre \o w, al, s, bc + 1, bm)
    BY <1>2, <1>3, <1>6 DEF Flush, Machine
  <2>2. QED
    BY <2>1, TheseAreBehind
<1>7. CASE keep /\ ~squeezed
  <2>1. /\ Flush(o, m1, l, keep) = Machine(is, ig, Append(w, l), al, s, blanks, blanks)
        /\ Flush(o, m2, l, keep) = Machine(is, ig, Append(pre \o w, l), al, s, blanks, blanks)
    BY <1>2, <1>3, <1>7 DEF Flush, Machine
  <2> HIDE DEF blanks
  <2>2. QED
    BY <1>4, <2>1, TheseAreBehind
<1>8. CASE ~keep
  <2>1. /\ Flush(o, m1, l, keep) = Machine(is, ig, v, TRUE, s, 0, bm)
        /\ Flush(o, m2, l, keep) =
              Machine(is, ig, IF o.lnblank THEN Append(pre \o w, Blank) ELSE pre \o w, TRUE, s, 0, bm)
    BY <1>2, <1>3, <1>8 DEF Flush, Machine
  <2> HIDE DEF v
  <2>2. QED
    BY <1>5, <2>1, TheseAreBehind
<1>9. QED
  BY <1>6, <1>7, <1>8

\* Nor is what an edit does.
LEMMA AlteredBehind ==
    ASSUME NEW pre, NEW S, NEW m1, NEW m2, Behind(pre, S, m1, m2), NEW x
    PROVE  Behind(pre, S, [m1 EXCEPT !.altered = x], [m2 EXCEPT !.altered = x])
<1>1. PICK is, ig, al, s, bc, bm : \E w \in Seq(S) :
              m1 = Machine(is, ig, w, al, s, bc, bm) /\ m2 = Machine(is, ig, pre \o w, al, s, bc, bm)
  BY DEF Behind
<1>2. PICK w \in Seq(S) : m1 = Machine(is, ig, w, al, s, bc, bm) /\ m2 = Machine(is, ig, pre \o w, al, s, bc, bm)
  BY <1>1
<1>3. ASSUME NEW v, NEW mm, mm = Machine(is, ig, v, al, s, bc, bm)
      PROVE  [mm EXCEPT !.altered = x] = Machine(is, ig, v, x, s, bc, bm)
  BY ONLY <1>3 DEF Machine
<1>4. QED
  BY <1>2, <1>3, TheseAreBehind

\* The steps there are.
Steps == Writers \cup {"nest", "unnest", "ignoreoff", "ignoreon", "ioccc", "error", "done"} \cup IfStates

\* Nor does any step.
LEMMA StepBehind ==
    ASSUME NEW o, PrintOptions(o), NEW S, Blank \in S, NEW pre \in Seq(S), NEW m1, NEW m2, Behind(pre, S, m1, m2),
           NEW l \in S, IfForElif(l) \in S, \A k \in {"else", "endif"} : Edited(l, k) \in S, NEW p \in Steps
    PROVE  Behind(pre, S, Step(o, m1, l, p), Step(o, m2, l, p))
<1>1. PICK is, ig, al, s, bc, bm : \E w \in Seq(S) :
              m1 = Machine(is, ig, w, al, s, bc, bm) /\ m2 = Machine(is, ig, pre \o w, al, s, bc, bm)
  BY DEF Behind
<1>2. PICK w \in Seq(S) : m1 = Machine(is, ig, w, al, s, bc, bm) /\ m2 = Machine(is, ig, pre \o w, al, s, bc, bm)
  BY <1>1
<1>3. m1.status = s /\ m2.status = s
  BY <1>2 DEF Machine
<1>4. CASE s # "run"
  BY <1>3, <1>4, StepStops
<1>5. CASE s = "run" /\ p \in Writers
  <2>1. CASE p = "print"
    BY <1>3, <1>5, <2>1, FlushBehind DEF Step, IfStates
  <2>2. CASE p = "drop"
    BY <1>3, <1>5, <2>2, FlushBehind DEF Step, IfStates
  <2>3. CASE p = "if"
    BY <1>3, <1>5, <2>3, FlushBehind DEF Step, IfStates
  <2>4. CASE p \in {"else", "endif"}
    <3> DEFINE n1 == [m1 EXCEPT !.altered = TRUE]
               n2 == [m2 EXCEPT !.altered = TRUE]
    <3>1. Step(o, m1, l, p) = Flush(o, n1, Edited(l, p), TRUE) /\ Step(o, m2, l, p) = Flush(o, n2, Edited(l, p), TRUE)
      BY <1>3, <1>5, <2>4 DEF Step, IfStates, KeywordEdit
    <3>2. Behind(pre, S, n1, n2)
      BY Zenon, AlteredBehind
    <3> HIDE DEF n1, n2
    <3>3. QED
      BY <2>4, <3>1, <3>2, FlushBehind
  <2>5. QED
    BY <1>5, <2>1, <2>2, <2>3, <2>4 DEF Writers
<1>6. CASE s = "run" /\ p = "nest"
  <2> DEFINE full == Len(is) - 1 = MaxDepth - 1
             is2 == IF full THEN is ELSE Append(is, "OUTSIDE")
             ig2 == IF full THEN ig ELSE Append(ig, FALSE)
             s2 == IF full THEN "error" ELSE s
  <2>1. Step(o, m1, l, p) = Nest(m1) /\ Step(o, m2, l, p) = Nest(m2)
    BY <1>3, <1>6 DEF Step, IfStates
  <2>2. Nest(m1) = Machine(is2, ig2, w, al, s2, bc, bm) /\ Nest(m2) = Machine(is2, ig2, pre \o w, al, s2, bc, bm)
    BY <1>2 DEF Nest, Depth, Machine
  <2> HIDE DEF is2, ig2, s2
  <2>3. QED
    BY <2>1, <2>2, TheseAreBehind
<1>7. CASE s = "run" /\ p = "unnest"
  <2>1. Step(o, m1, l, p) = Unnest(m1) /\ Step(o, m2, l, p) = Unnest(m2)
    BY <1>3, <1>7 DEF Step, IfStates
  <2>2. m1.ifstate = is /\ m2.ifstate = is /\ m1.ignoring = ig /\ m2.ignoring = ig
    BY <1>2 DEF Machine
  <2>3. /\ Unnest(m1) = [m1 EXCEPT !.ifstate = Front(is), !.ignoring = Front(ig)]
         /\ Unnest(m2) = [m2 EXCEPT !.ifstate = Front(is), !.ignoring = Front(ig)]
    BY <2>2 DEF Unnest
  <2>4. /\ Unnest(m1) = Machine(Front(is), Front(ig), w, al, s, bc, bm)
        /\ Unnest(m2) = Machine(Front(is), Front(ig), pre \o w, al, s, bc, bm)
    BY <1>2, <2>3 DEF Machine
  <2>5. QED
    BY <2>1, <2>4, TheseAreBehind
<1>8. CASE s = "run" /\ p = "ignoreoff"
  <2> DEFINE ig2 == [ig EXCEPT ![Len(ig)] = ig[Len(ig) - 1]]
  <2>1. Step(o, m1, l, p) = IgnoreOff(m1) /\ Step(o, m2, l, p) = IgnoreOff(m2)
    BY <1>3, <1>8 DEF Step, IfStates
  <2>2. m1.ignoring = ig /\ m2.ignoring = ig
    BY <1>2 DEF Machine
  <2>3. IgnoreOff(m1) = [m1 EXCEPT !.ignoring = ig2] /\ IgnoreOff(m2) = [m2 EXCEPT !.ignoring = ig2]
    BY <2>2 DEF IgnoreOff
  <2>4. IgnoreOff(m1) = Machine(is, ig2, w, al, s, bc, bm) /\ IgnoreOff(m2) = Machine(is, ig2, pre \o w, al, s, bc, bm)
    BY <1>2, <2>3 DEF Machine
  <2> HIDE DEF ig2
  <2>5. QED
    BY <2>1, <2>4, TheseAreBehind
<1>9. CASE s = "run" /\ p = "ignoreon"
  <2> DEFINE ig2 == [ig EXCEPT ![Len(ig)] = TRUE]
  <2>1. Step(o, m1, l, p) = IgnoreOn(m1) /\ Step(o, m2, l, p) = IgnoreOn(m2)
    BY <1>3, <1>9 DEF Step, IfStates
  <2>2. m1.ignoring = ig /\ m2.ignoring = ig
    BY <1>2 DEF Machine
  <2>3. IgnoreOn(m1) = [m1 EXCEPT !.ignoring = ig2] /\ IgnoreOn(m2) = [m2 EXCEPT !.ignoring = ig2]
    BY <2>2 DEF IgnoreOn
  <2>4. IgnoreOn(m1) = Machine(is, ig2, w, al, s, bc, bm) /\ IgnoreOn(m2) = Machine(is, ig2, pre \o w, al, s, bc, bm)
    BY <1>2, <2>3 DEF Machine
  <2> HIDE DEF ig2
  <2>5. QED
    BY <2>1, <2>4, TheseAreBehind
<1>10. CASE s = "run" /\ p = "ioccc"
  <2> DEFINE s2 == IF o.iocccok THEN s ELSE "error"
  <2>1. /\ Step(o, m1, l, p) = IF o.iocccok THEN m1 ELSE [m1 EXCEPT !.status = "error"]
        /\ Step(o, m2, l, p) = IF o.iocccok THEN m2 ELSE [m2 EXCEPT !.status = "error"]
    BY <1>3, <1>10 DEF Step, IfStates
  <2>2. /\ Step(o, m1, l, p) = Machine(is, ig, w, al, s2, bc, bm)
        /\ Step(o, m2, l, p) = Machine(is, ig, pre \o w, al, s2, bc, bm)
    BY <1>2, <2>1 DEF Machine
  <2> HIDE DEF s2
  <2>3. QED
    BY <2>2, TheseAreBehind
<1>11. CASE s = "run" /\ p \in {"error", "done"}
  <2>1. Step(o, m1, l, p) = [m1 EXCEPT !.status = p] /\ Step(o, m2, l, p) = [m2 EXCEPT !.status = p]
    BY <1>3, <1>11 DEF Step, IfStates
  <2>2. Step(o, m1, l, p) = Machine(is, ig, w, al, p, bc, bm) /\ Step(o, m2, l, p) = Machine(is, ig, pre \o w, al, p, bc, bm)
    BY <1>2, <2>1 DEF Machine
  <2>3. QED
    BY <2>2, TheseAreBehind
<1>12. CASE s = "run" /\ p \in IfStates
  <2> DEFINE is2 == [is EXCEPT ![Len(is)] = p]
  <2>1. Step(o, m1, l, p) = SetState(m1, p) /\ Step(o, m2, l, p) = SetState(m2, p)
    BY <1>3, <1>12 DEF Step, IfStates
  <2>2. m1.ifstate = is /\ m2.ifstate = is
    BY <1>2 DEF Machine
  <2>3. SetState(m1, p) = [m1 EXCEPT !.ifstate = is2] /\ SetState(m2, p) = [m2 EXCEPT !.ifstate = is2]
    BY <2>2 DEF SetState
  <2>4. SetState(m1, p) = Machine(is2, ig, w, al, s, bc, bm) /\ SetState(m2, p) = Machine(is2, ig, pre \o w, al, s, bc, bm)
    BY <1>2, <2>3 DEF Machine
  <2> HIDE DEF is2
  <2>5. QED
    BY <2>1, <2>4, TheseAreBehind
<1>13. QED
  BY <1>4, <1>5, <1>6, <1>7, <1>8, <1>9, <1>10, <1>11, <1>12 DEF Steps

\* Nor does a function of the table, step by step.
IsTableFunction(s) == Len(s) \in 0..6 /\ \A k \in 1..Len(s) : s[k] \in Steps

LEMMA RunBehind ==
    ASSUME NEW o, PrintOptions(o), NEW S, Blank \in S, NEW pre \in Seq(S), NEW m1, NEW m2, Behind(pre, S, m1, m2),
           NEW l \in S, IfForElif(l) \in S, \A k \in {"else", "endif"} : Edited(l, k) \in S,
           NEW steps, IsTableFunction(steps)
    PROVE  Behind(pre, S, Run(o, m1, l, steps), Run(o, m2, l, steps))
<1> DEFINE len == Len(steps)
<1>1. len \in 0..6 /\ Len(steps) = len /\ \A k \in 1..len : steps[k] \in Steps
  BY DEF IsTableFunction
<1> HIDE DEF len
<1>2. RunsTo(o, m1, l, steps, len) /\ RunsTo(o, m2, l, steps, len)
  BY <1>1, RunIsSteps
<1>3. PICK R1 : IsRun(R1, o, m1, l, steps) /\ Run(o, m1, l, steps) = R1[len]
  BY <1>2 DEF RunsTo
<1>4. PICK R2 : IsRun(R2, o, m2, l, steps) /\ Run(o, m2, l, steps) = R2[len]
  BY <1>2 DEF RunsTo
<1> DEFINE T == {k \in Nat : k <= len => Behind(pre, S, R1[k], R2[k])}
<1>5. 0 \in T
  BY <1>3, <1>4 DEF IsRun
<1>6. ASSUME NEW k \in Nat, k \in T PROVE k + 1 \in T
  <2> SUFFICES ASSUME k + 1 <= len PROVE Behind(pre, S, R1[k + 1], R2[k + 1])
    OBVIOUS
  <2>1. k <= len /\ k + 1 \in 1..len /\ (k + 1) - 1 = k
    BY <1>1
  <2>2. R1[k + 1] = Step(o, R1[k], l, steps[k + 1]) /\ R2[k + 1] = Step(o, R2[k], l, steps[k + 1])
    BY <1>1, <1>3, <1>4, <2>1 DEF IsRun
  <2>3. Behind(pre, S, R1[k], R2[k]) /\ steps[k + 1] \in Steps
    BY <1>1, <1>6, <2>1
  <2>4. QED
    BY <2>2, <2>3, StepBehind
<1>7. len \in T
  <2> HIDE DEF T
  <2>1. QED
    BY <1>1, <1>5, <1>6, NumbersInduction
<1>8. QED
  BY <1>1, <1>3, <1>4, <1>7

\* The functions of the table are made of steps.
LEMMA TableFunctions ==
    ASSUME NEW s \in {Strue, Sfalse, Selse, Pelif, Pelse, Pendif, Dfalse, Delif, Delse, Dendif, Fdrop, Fpass,
                      Ftrue, Ffalse, Oif, Oiffy, Oelif, Idrop, Itrue, Ifalse, Mpass, Mtrue, Melif, Melse,
                      Error, <<"print">>, <<"drop">>, <<"done">>}
    PROVE  IsTableFunction(s)
<1>0. {"print", "drop", "if", "else", "endif", "nest", "unnest", "ignoreoff", "ignoreon", "ioccc", "error", "done"}
        \cup {"OUTSIDE", "FALSE_PREFIX", "TRUE_PREFIX", "PASS_MIDDLE", "FALSE_MIDDLE",
              "TRUE_MIDDLE", "PASS_ELSE", "FALSE_ELSE", "TRUE_ELSE", "FALSE_TRAILER"} = Steps
  BY DEF Steps, Writers, IfStates
<1>1. ASSUME NEW a \in Steps PROVE IsTableFunction(<<a>>)
  BY DEF IsTableFunction
<1>2. ASSUME NEW a \in Steps, NEW b \in Steps PROVE IsTableFunction(<<a, b>>)
  BY DEF IsTableFunction
<1>3. ASSUME NEW a \in Steps, NEW b \in Steps, NEW c \in Steps PROVE IsTableFunction(<<a, b, c>>)
  BY DEF IsTableFunction
<1>4. ASSUME NEW a \in Steps, NEW b \in Steps, NEW c \in Steps, NEW d \in Steps PROVE IsTableFunction(<<a, b, c, d>>)
  BY DEF IsTableFunction
<1>5. ASSUME NEW a \in Steps, NEW b \in Steps, NEW c \in Steps, NEW d \in Steps, NEW e \in Steps
      PROVE  IsTableFunction(<<a, b, c, d, e>>)
  BY DEF IsTableFunction
<1>6. ASSUME NEW a \in Steps, NEW b \in Steps, NEW c \in Steps, NEW d \in Steps, NEW e \in Steps, NEW f \in Steps
      PROVE  IsTableFunction(<<a, b, c, d, e, f>>)
  BY DEF IsTableFunction
<1>7. /\ IsTableFunction(Error) /\ IsTableFunction(<<"print">>) /\ IsTableFunction(<<"drop">>)
      /\ IsTableFunction(<<"done">>)
  BY <1>0, <1>1 DEF Error
<1>8. /\ IsTableFunction(Selse) /\ IsTableFunction(Pelse) /\ IsTableFunction(Pendif) /\ IsTableFunction(Delse)
      /\ IsTableFunction(Dendif) /\ IsTableFunction(Mtrue) /\ IsTableFunction(Melif) /\ IsTableFunction(Melse)
  BY <1>0, <1>2 DEF Selse, Pelse, Pendif, Delse, Dendif, Mtrue, Melif, Melse
<1>9. /\ IsTableFunction(Strue) /\ IsTableFunction(Sfalse) /\ IsTableFunction(Pelif) /\ IsTableFunction(Dfalse)
      /\ IsTableFunction(Delif) /\ IsTableFunction(Mpass)
  BY <1>0, <1>3 DEF Strue, Sfalse, Pelif, Dfalse, Delif, Mpass
<1>10. /\ IsTableFunction(Fdrop) /\ IsTableFunction(Fpass) /\ IsTableFunction(Ftrue) /\ IsTableFunction(Ffalse)
       /\ IsTableFunction(Oelif)
  BY <1>0, <1>4, Functions
<1>11. /\ IsTableFunction(Idrop) /\ IsTableFunction(Itrue) /\ IsTableFunction(Ifalse) /\ IsTableFunction(Oif)
  BY <1>0, <1>5, Functions
<1>12. IsTableFunction(Oiffy)
  BY <1>0, <1>6, Functions
<1>13. QED
  BY <1>7, <1>8, <1>9, <1>10, <1>11, <1>12

\* Whatever the state and the type of the line.
LEMMA TableIsSteps ==
    ASSUME NEW is \in IfStates, NEW type, type.lt \in OpenTypes \cup RestTypes \cup {"PLAIN", "EOF"},
           type.dodgy \in BOOLEAN
    PROVE  IsTableFunction(TransTable(is, type))
<1>1. CASE type.lt \in OpenTypes
  BY <1>1, OpenTable, TableFunctions
<1>2. CASE type.lt \in RestTypes
  <2>1. TransTable(is, type) = (IF type.dodgy THEN DodgyTable ELSE CleanTable)[is][Column(type.lt)]
    BY <1>2 DEF TransTable, RestColumn, OpenTypes, RestTypes
  <2>2. Column(type.lt) \in 1..5
    BY <1>2 DEF Column, RestTypes
  <2> DEFINE Cells == {Strue, Sfalse, Selse, Pelif, Pelse, Pendif, Dfalse, Delif, Delse, Dendif,
                       Oelif, Mpass, Mtrue, Melif, Melse, Error}
             Good(row) == \A n \in 1..5 : row[n] \in Cells
  <2>3. ASSUME NEW a \in Cells, NEW b \in Cells, NEW c \in Cells, NEW d \in Cells, NEW e \in Cells
        PROVE  Good(<<a, b, c, d, e>>)
    <3> HIDE DEF Cells
    <3>1. QED
      OBVIOUS
  <2>4. /\ CleanTable["OUTSIDE"] = <<Error, Error, Error, Error, Error>>
        /\ DodgyTable["OUTSIDE"] = <<Error, Error, Error, Error, Error>>
        /\ Errors = <<Error, Error, Error, Error, Error>>
    BY DEF CleanTable, DodgyTable, Errors
  <2> HIDE DEF Good
  <2>5. /\ Strue \in Cells /\ Sfalse \in Cells /\ Selse \in Cells /\ Pelif \in Cells /\ Pelse \in Cells
         /\ Pendif \in Cells /\ Dfalse \in Cells /\ Delif \in Cells /\ Delse \in Cells /\ Dendif \in Cells
         /\ Oelif \in Cells /\ Mpass \in Cells /\ Mtrue \in Cells /\ Melif \in Cells /\ Melse \in Cells
         /\ Error \in Cells
    OBVIOUS
  <2> HIDE DEF Cells
  <2>6. /\ Good(<<Mpass, Strue, Sfalse, Selse, Dendif>>) /\ Good(<<Dfalse, Dfalse, Dfalse, Delse, Dendif>>)
        /\ Good(<<Pelif, Mtrue, Delif, Pelse, Pendif>>) /\ Good(<<Melif, Melif, Melif, Melse, Pendif>>)
        /\ Good(<<Error, Error, Error, Error, Pendif>>) /\ Good(<<Error, Error, Error, Error, Dendif>>)
    BY <2>3, <2>5
  <2>7. /\ Good(<<Error, Error, Error, Error, Error>>) /\ Good(<<Mpass, Error, Error, Error, Error>>)
        /\ Good(<<Pelif, Oelif, Oelif, Pelse, Pendif>>) /\ Good(<<Dfalse, Dfalse, Dfalse, Delse, Error>>)
    BY <2>3, <2>5
  <2>8. Good(CleanTable[is])
    BY <2>4, <2>6, <2>7, CleanRows DEF IfStates
  <2>9. Good(DodgyTable[is])
    BY <2>4, <2>6, <2>7, DodgyRows DEF IfStates
  <2>10. TransTable(is, type) \in Cells
    BY <2>1, <2>2, <2>8, <2>9 DEF Good
  <2>11. QED
    BY <2>10, TableFunctions DEF Cells
<1>3. CASE type.lt = "PLAIN"
  BY <1>3, PlainTable, TableFunctions
<1>4. CASE type.lt = "EOF"
  BY <1>4, EndTable, TableFunctions
<1>5. QED
  BY <1>1, <1>2, <1>3, <1>4

LEMMA MachineFields ==
    ASSUME NEW mm, MachineType(mm), NEW w
    PROVE  [mm EXCEPT !.out = w] =
               [ifstate |-> mm.ifstate, ignoring |-> mm.ignoring, out |-> w, altered |-> mm.altered,
                status |-> mm.status, blankcount |-> mm.blankcount, blankmax |-> mm.blankmax]
BY DEF MachineType

\* What the machine does with a line does not depend on what was written before.
SameBehind(pre, m1, m2) ==
    /\ m2.status = m1.status
    /\ MachineType(m1) => MachineType(m2) /\ m2.ifstate = m1.ifstate /\ m2.out = pre \o m1.out

LEMMA ApplyBehind ==
    ASSUME NEW o, PrintOptions(o), NEW pre \in Seq(Lines), NEW mm, MachineType(mm), NEW l \in Lines,
           NEW env, NEW type \in LineTypes(env, l), NEW w \in Seq(Lines), mm.out = pre \o w
    PROVE  SameBehind(pre, Apply(o, [mm EXCEPT !.out = w], l, type), Apply(o, mm, l, type))
<1> DEFINE S == Lines \cup {IfForElif(l)}
           m0 == [mm EXCEPT !.out = w]
           steps == TransTable(Last(mm.ifstate), type)
           m1 == Apply(o, m0, l, type)
           m2 == Apply(o, mm, l, type)
<1>0. mm = [ifstate |-> mm.ifstate, ignoring |-> mm.ignoring, out |-> mm.out, altered |-> mm.altered,
            status |-> mm.status, blankcount |-> mm.blankcount, blankmax |-> mm.blankmax]
  BY DEF MachineType
<1>1. m0 = [ifstate |-> mm.ifstate, ignoring |-> mm.ignoring, out |-> w, altered |-> mm.altered,
            status |-> mm.status, blankcount |-> mm.blankcount, blankmax |-> mm.blankmax]
  BY MachineFields
<1> HIDE DEF m0
<1>2. Behind(pre, S, m0, mm)
  <2>1. w \in Seq(S)
    OBVIOUS
  <2> HIDE DEF S
  <2>2. /\ m0 = Machine(mm.ifstate, mm.ignoring, w, mm.altered, mm.status, mm.blankcount, mm.blankmax)
        /\ mm = Machine(mm.ifstate, mm.ignoring, pre \o w, mm.altered, mm.status, mm.blankcount, mm.blankmax)
    BY <1>0, <1>1 DEF Machine
  <2>3. QED
    BY <2>1, <2>2, TheseAreBehind
<1>3. type.lt \in OpenTypes \cup RestTypes \cup {"PLAIN", "EOF"} /\ type.dodgy \in BOOLEAN
  <2>1. type.lt \in Verdicts(env, l) /\ type.dodgy = l.split
    BY DEF LineTypes
  <2>2. l.split \in BOOLEAN /\ l.kind \in {"plain", "if", "ifdef", "ifndef", "elif", "else", "endif"}
    <3>1. Blank.split = FALSE /\ Blank.kind = "plain"
      BY DEF Blank
    <3>2. l \in TextLines \/ l = Blank \/ l \in Conditionals \/ l \in Bares
      BY DEF Lines, Plains
    <3>3. QED
      BY <3>1, <3>2 DEF TextLines, Conditionals, Bares
  <2>3. QED
    BY <2>1, <2>2 DEF Verdicts, OpenTypes, RestTypes
<1>4. IsTableFunction(steps)
  <2>1. Last(mm.ifstate) \in IfStates
    BY FrontFacts DEF MachineType
  <2>2. QED
    BY <1>3, <2>1, TableIsSteps
<1> HIDE DEF steps
<1>5. m1 = Run(o, m0, l, steps) /\ m2 = Run(o, mm, l, steps)
  <2>1. m0.ifstate = mm.ifstate
    BY <1>1
  <2>2. QED
    BY <2>1 DEF Apply, steps
<1>6. /\ Blank \in S /\ l \in S /\ IfForElif(l) \in S /\ pre \in Seq(S)
      /\ \A k \in {"else", "endif"} : Edited(l, k) \in S
  BY LineFacts
<1> HIDE DEF S, m1, m2
<1>7. Behind(pre, S, m1, m2)
  BY <1>2, <1>4, <1>5, <1>6, RunBehind
<1>8. PICK is, ig, al, s, bc, bm : \E v \in Seq(S) :
              m1 = Machine(is, ig, v, al, s, bc, bm) /\ m2 = Machine(is, ig, pre \o v, al, s, bc, bm)
  BY <1>7 DEF Behind
<1>9. PICK v \in Seq(S) : m1 = Machine(is, ig, v, al, s, bc, bm) /\ m2 = Machine(is, ig, pre \o v, al, s, bc, bm)
  BY <1>8
<1>10. m1.ifstate = is /\ m1.out = v /\ m1.status = s /\ m2.ifstate = is /\ m2.out = pre \o v /\ m2.status = s
  BY <1>9 DEF Machine
<1>11. ASSUME MachineType(m1) PROVE MachineType(m2)
  <2>1. /\ v \in Seq(Lines) /\ is \in Seq(IfStates) /\ ig \in Seq(BOOLEAN) /\ al \in BOOLEAN
        /\ s \in {"run", "done", "error"} /\ bc \in Nat /\ bm \in Nat /\ Len(is) >= 1 /\ Len(ig) = Len(is)
    BY <1>9, <1>11 DEF MachineType, Machine
  <2>2. pre \o v \in Seq(Lines)
    BY <2>1
  <2>3. QED
    BY <1>9, <2>1, <2>2 DEF MachineType, Machine
<1>12. SameBehind(pre, m1, m2)
  BY <1>10, <1>11 DEF SameBehind
<1>13. QED
  BY <1>12 DEF m1, m2, m0

-----------------------------------------------------------------------------
(* A whole file *)

\* The preprocessor reads a file line by line,
IsCompilation(c, env, f) ==
    c[0] = Beginning /\ \A n \in 1..Len(f) : c[n] = Compile(env, c[n - 1], f[n])

LEMMA CompilationIsSteps ==
    ASSUME NEW env, NEW file, Len(file) \in Nat
    PROVE  \E f : IsCompilation(f, env, file) /\ CompiledTo(env, file, Len(file)) = f[Len(file)]
<1> DEFINE N == Len(file)
           Def(k, f) == f = [n \in 0..k |-> IF n = 0 THEN Beginning ELSE Compile(env, f[n - 1], file[n])]
           S == {k \in Nat : \E f : Def(k, f)}
           upto == CHOOSE f : Def(N, f)
<1>1. 0 \in S
  <2> DEFINE f == [n \in 0..0 |-> Beginning]
  <2>1. Def(0, f)
    OBVIOUS
  <2>2. QED
    BY <2>1
<1>2. ASSUME NEW k \in Nat, k \in S PROVE k + 1 \in S
  <2>1. PICK f : Def(k, f)
    BY <1>2
  <2> DEFINE g == [n \in 0..(k + 1) |-> IF n = k + 1 THEN Compile(env, f[k], file[k + 1]) ELSE f[n]]
             h == [n \in 0..(k + 1) |-> IF n = 0 THEN Beginning ELSE Compile(env, g[n - 1], file[n])]
  <2>2. ASSUME NEW n \in 0..(k + 1) PROVE g[n] = IF n = 0 THEN Beginning ELSE Compile(env, g[n - 1], file[n])
    <3>1. n = 0 \/ n - 1 \in 0..k
      OBVIOUS
    <3>2. CASE n = k + 1
      <4>1. g[n] = Compile(env, f[k], file[k + 1]) /\ g[n - 1] = f[k] /\ n # 0
        BY <3>2
      <4>2. QED
        BY <3>2, <4>1
    <3>3. CASE n # k + 1
      <4>1. n \in 0..k /\ n \in 0..(k + 1) /\ (n # 0 => n - 1 \in 0..(k + 1) /\ n - 1 # k + 1)
        BY <3>3
      <4>2. g[n] = f[n] /\ (n # 0 => g[n - 1] = f[n - 1])
        BY <3>3, <4>1
      <4>3. f[n] = IF n = 0 THEN Beginning ELSE Compile(env, f[n - 1], file[n])
        BY <2>1, <4>1
      <4>4. QED
        BY <4>2, <4>3
    <3>4. QED
      BY <3>2, <3>3
  <2>3. g = h
    BY <2>2
  <2>4. Def(k + 1, g)
    BY <2>3
  <2> HIDE DEF g, h, Def
  <2>5. QED
    BY <2>4
<1>3. N \in S
  <2> HIDE DEF S
  <2>1. QED
    BY <1>1, <1>2, NumbersInduction
<1>4. Def(N, upto)
  <2> HIDE DEF Def
  <2>1. QED
    BY <1>3
<1>5. CompiledTo(env, file, N) = upto[N]
  BY DEF CompiledTo
<1> HIDE DEF upto
<1>6. upto[0] = Beginning
  BY <1>4
<1>7. ASSUME NEW n \in 1..N PROVE upto[n] = Compile(env, upto[n - 1], file[n])
  <2>1. n \in 0..N /\ n # 0
    OBVIOUS
  <2>2. QED
    BY <1>4, <2>1
<1>8. QED
  BY <1>5, <1>6, <1>7 DEF IsCompilation

\* and in one way only;
LEMMA OneCompilation ==
    ASSUME NEW env, NEW f, Len(f) \in Nat, NEW c, IsCompilation(c, env, f)
    PROVE  CompiledTo(env, f, Len(f)) = c[Len(f)]
<1>1. PICK d : IsCompilation(d, env, f) /\ CompiledTo(env, f, Len(f)) = d[Len(f)]
  BY CompilationIsSteps
<1> DEFINE T == {n \in Nat : n <= Len(f) => d[n] = c[n]}
<1>2. 0 \in T
  BY <1>1 DEF IsCompilation
<1>3. ASSUME NEW n \in Nat, n \in T PROVE n + 1 \in T
  <2> SUFFICES ASSUME n + 1 <= Len(f) PROVE d[n + 1] = c[n + 1]
    OBVIOUS
  <2>1. n <= Len(f) /\ n + 1 \in 1..Len(f) /\ (n + 1) - 1 = n
    OBVIOUS
  <2>2. d[n + 1] = Compile(env, d[n], f[n + 1]) /\ c[n + 1] = Compile(env, c[n], f[n + 1])
    BY <1>1, <2>1 DEF IsCompilation
  <2>3. QED
    BY <1>3, <2>1, <2>2
<1>4. Len(f) \in T
  <2> HIDE DEF T
  <2>1. QED
    BY <1>2, <1>3, NumbersInduction
<1>5. QED
  BY <1>1, <1>4

\* what is written behind it, one line at most, it reads last.
LEMMA CompilationGrows ==
    ASSUME NEW env, NEW f \in Seq(Lines), NEW c, IsCompilation(c, env, f), NEW w \in Seq(Lines), Len(w) <= 1
    PROVE  \E d : IsCompilation(d, env, f \o w) /\ d[Len(f \o w)] = Compiled(env, c[Len(f)], w)
<1> DEFINE k == Len(f)
<1>0. k \in Nat /\ Len(w) \in {0, 1}
  <2>1. \A n \in Nat : n <= 1 => n \in {0, 1}
    OBVIOUS
  <2>2. QED
    BY <2>1
<1>1. CASE Len(w) = 0
  <2>1. w = << >>
    BY <1>1
  <2>2. f \o w = f /\ Compiled(env, c[k], w) = c[k]
    BY <2>1 DEF Compiled
  <2>3. QED
    BY <2>2
<1>2. CASE Len(w) = 1
  <2> DEFINE x == w[1]
             d == [n \in 0..(k + 1) |-> IF n = k + 1 THEN Compile(env, c[k], x) ELSE c[n]]
             g == f \o w
  <2>1. Len(g) = k + 1 /\ g[k + 1] = x /\ \A n \in 1..k : g[n] = f[n]
    <3>1. Len(g) = k + Len(w) /\ \A n \in 1..k + Len(w) : g[n] = IF n <= k THEN f[n] ELSE w[n - k]
      BY ConcatProperties
    <3>2. k + 1 \in 1..k + 1 /\ ~(k + 1 <= k) /\ (k + 1) - k = 1 /\ \A n \in 1..k : n \in 1..k + 1 /\ n <= k
      BY <1>0
    <3> HIDE DEF g, k
    <3>3. QED
      BY <1>2, <3>1, <3>2
  <2>2. Compiled(env, c[k], w) = Compile(env, c[k], x)
    <3>1. w # << >>
      <4> SUFFICES ASSUME w = << >> PROVE FALSE
        OBVIOUS
      <4>1. Len(w) = 0
        OBVIOUS
      <4>2. QED
        BY <1>2, <4>1
    <3>2. Last(w) = x
      BY <1>2 DEF Last
    <3>3. QED
      BY <3>1, <3>2 DEF Compiled
  <2> HIDE DEF x, g
  <2>3. d[k + 1] = Compile(env, c[k], x) /\ \A n \in 0..k : d[n] = c[n]
    BY <1>0
  <2> HIDE DEF d
  <2>4. ASSUME NEW n \in 1..(k + 1) PROVE d[n] = Compile(env, d[n - 1], g[n])
    <3>1. CASE n = k + 1
      <4>1. n - 1 = k /\ k \in 0..k
        BY <1>0, <3>1
      <4>2. QED
        BY <2>1, <2>3, <3>1, <4>1
    <3>2. CASE n # k + 1
      <4>1. n \in 1..k /\ n \in 0..k /\ n - 1 \in 0..k
        BY <1>0, <3>2
      <4>2. c[n] = Compile(env, c[n - 1], f[n])
        BY <4>1 DEF IsCompilation
      <4>3. QED
        BY <2>1, <2>3, <4>1, <4>2
    <3>3. QED
      BY <3>1, <3>2
  <2>5. d[0] = Beginning
    BY <1>0, <2>3 DEF IsCompilation
  <2> HIDE DEF k
  <2>6. IsCompilation(d, env, g) /\ d[Len(g)] = Compiled(env, c[k], w)
    BY <2>1, <2>2, <2>3, <2>4, <2>5 DEF IsCompilation
  <2>7. QED
    BY <2>6 DEF g, k
<1>3. QED
  BY <1>0, <1>1, <1>2

\* unifdef reads it line by line.
IsProcess(f, o, file) ==
    f[0] = StartProcess /\ \A n \in 1..Len(file) : f[n] = ProcessLine(o, f[n - 1], file[n])

LEMMA ProcessIsSteps ==
    ASSUME NEW o, NEW file, Len(file) \in Nat
    PROVE  \E f : IsProcess(f, o, file) /\ Processed(o, file, Len(file)) = f[Len(file)]
<1> DEFINE N == Len(file)
           Def(k, f) == f = [n \in 0..k |-> IF n = 0 THEN StartProcess ELSE ProcessLine(o, f[n - 1], file[n])]
           S == {k \in Nat : \E f : Def(k, f)}
           upto == CHOOSE f : Def(N, f)
<1>1. 0 \in S
  <2> DEFINE f == [n \in 0..0 |-> StartProcess]
  <2>1. Def(0, f)
    OBVIOUS
  <2>2. QED
    BY <2>1
<1>2. ASSUME NEW k \in Nat, k \in S PROVE k + 1 \in S
  <2>1. PICK f : Def(k, f)
    BY <1>2
  <2> DEFINE g == [n \in 0..(k + 1) |-> IF n = k + 1 THEN ProcessLine(o, f[k], file[k + 1]) ELSE f[n]]
             h == [n \in 0..(k + 1) |-> IF n = 0 THEN StartProcess ELSE ProcessLine(o, g[n - 1], file[n])]
  <2>2. ASSUME NEW n \in 0..(k + 1) PROVE g[n] = IF n = 0 THEN StartProcess ELSE ProcessLine(o, g[n - 1], file[n])
    <3>1. n = 0 \/ n - 1 \in 0..k
      OBVIOUS
    <3>2. CASE n = k + 1
      <4>1. g[n] = ProcessLine(o, f[k], file[k + 1]) /\ g[n - 1] = f[k] /\ n # 0
        BY <3>2
      <4>2. QED
        BY <3>2, <4>1
    <3>3. CASE n # k + 1
      <4>1. n \in 0..k /\ n \in 0..(k + 1) /\ (n # 0 => n - 1 \in 0..(k + 1) /\ n - 1 # k + 1)
        BY <3>3
      <4>2. g[n] = f[n] /\ (n # 0 => g[n - 1] = f[n - 1])
        BY <3>3, <4>1
      <4>3. f[n] = IF n = 0 THEN StartProcess ELSE ProcessLine(o, f[n - 1], file[n])
        BY <2>1, <4>1
      <4>4. QED
        BY <4>2, <4>3
    <3>4. QED
      BY <3>2, <3>3
  <2>3. g = h
    BY <2>2
  <2>4. Def(k + 1, g)
    BY <2>3
  <2> HIDE DEF g, h, Def
  <2>5. QED
    BY <2>4
<1>3. N \in S
  <2> HIDE DEF S
  <2>1. QED
    BY <1>1, <1>2, NumbersInduction
<1>4. Def(N, upto)
  <2> HIDE DEF Def
  <2>1. QED
    BY <1>3
<1>5. Processed(o, file, N) = upto[N]
  BY DEF Processed
<1> HIDE DEF upto
<1>6. upto[0] = StartProcess
  BY <1>4
<1>7. ASSUME NEW n \in 1..N PROVE upto[n] = ProcessLine(o, upto[n - 1], file[n])
  <2>1. n \in 0..N /\ n # 0
    OBVIOUS
  <2>2. QED
    BY <1>4, <2>1
<1>8. QED
  BY <1>5, <1>6, <1>7 DEF IsProcess

\* Where unifdef is in a file: it goes on, and the preprocessors of what it
\* has read and of what it has written correspond.
IsProcessState(p) == p = [m |-> p.m, dirty |-> p.dirty, maytrap |-> p.maytrap]
GoesOn(env, p, g) ==
    /\ MachineType(p.m) /\ p.m.status = "run"
    /\ \E c : IsCompilation(c, env, p.m.out) /\ Same(p.m.ifstate, g, c[Len(p.m.out)])

\* A line goes through unifdef.
LEMMA ProcessLineKeeps ==
    ASSUME NEW env, Environment(env), NEW o, PrintOptions(o), Agrees(env, o), NEW l \in Lines,
           NEW g, PreType(g), NEW p, IsProcessState(p), GoesOn(env, p, g), p.dirty => l.kind = "plain",
           Compile(env, g, l).ok
    PROVE  LET p2 == ProcessLine(o, p, l)
           IN  /\ IsProcessState(p2)
               /\ \/ p2.m.status \in {"error", "trap"}
                  \/ GoesOn(env, p2, Compile(env, g, l)) /\ p2.dirty = (l.kind # "plain" /\ l.split)
<1> DEFINE p2 == ProcessLine(o, p, l)
           traps == IF Evaluated(l, p.dirty) THEN Traps(o, l.e) ELSE "never"
           type == LineType(o, l, p.dirty)
           m0 == [p.m EXCEPT !.out = << >>]
           m1 == Apply(o, m0, l, type)
           m2 == Apply(o, p.m, l, type)
<1>1. /\ MachineType(p.m) /\ p.m.status = "run"
      /\ p2 = AfterTraps(o, p, l, traps) /\ p = [m |-> p.m, dirty |-> p.dirty, maytrap |-> p.maytrap]
  BY DEF GoesOn, ProcessLine, IsProcessState
<1>2. PICK c : IsCompilation(c, env, p.m.out) /\ Same(p.m.ifstate, g, c[Len(p.m.out)])
  BY DEF GoesOn
<1> HIDE DEF traps
<1>3. CASE traps = "always"
  <2>1. p2 = [p EXCEPT !.m.status = "trap"]
    BY <1>1, <1>3 DEF AfterTraps
  <2>2. ASSUME NEW pm, NEW d, NEW t, p = [m |-> pm, dirty |-> d, maytrap |-> t]
        PROVE  [p EXCEPT !.m.status = "trap"] = [m |-> [pm EXCEPT !.status = "trap"], dirty |-> d, maytrap |-> t]
    BY ONLY <2>2
  <2> DEFINE pm == [p.m EXCEPT !.status = "trap"]
  <2>3. pm.status = "trap"
    BY <1>1 DEF MachineType
  <2>4. p2 = [m |-> pm, dirty |-> p.dirty, maytrap |-> p.maytrap]
    BY <1>1, <2>1, <2>2
  <2> HIDE DEF p2, pm
  <2>5. p2.m.status = "trap" /\ IsProcessState(p2)
    BY <2>3, <2>4 DEF IsProcessState
  <2>6. QED
    BY <2>5 DEF p2
<1>4. CASE traps # "always"
  <2>1. p2 = [m |-> m2, dirty |-> l.kind # "plain" /\ ~p.dirty /\ l.split, maytrap |-> p.maytrap \/ traps = "maybe"]
    BY <1>1, <1>4 DEF AfterTraps
  <2> HIDE DEF p2
  <2>2. p2.m = m2 /\ p2.dirty = (l.kind # "plain" /\ l.split) /\ IsProcessState(p2)
    BY <2>1 DEF IsProcessState
  <2>3. type \in LineTypes(env, l)
    BY LineTypeIsRight DEF PrintOptions
  <2>4. MachineType(m0) /\ m0.status = "run" /\ m0.ifstate = p.m.ifstate /\ m0.out = << >>
    <3>1. << >> \in Seq(Lines)
      OBVIOUS
    <3>2. QED
      BY <1>1, <3>1 DEF MachineType
  <2>5. Ready(o, m0, l, p.m.ifstate)
    BY <1>1, <2>4 DEF Ready, Running, MachineType
  <2>6. g.ok /\ ~Rejects(env, g, l) /\ Compile(env, g, l) = Preprocess(g, l, Holds(env, l))
    BY AcceptedLine
  <2> DEFINE pre == p.m.out
             q == c[Len(pre)]
  <2>7. /\ m2.status = m1.status
        /\ MachineType(m1) => MachineType(m2) /\ m2.ifstate = m1.ifstate /\ m2.out = pre \o m1.out
    <3>1. pre \in Seq(Lines) /\ << >> \in Seq(Lines) /\ p.m.out = pre \o << >>
      BY <1>1 DEF MachineType
    <3> HIDE DEF type, pre
    <3>2. SameBehind(pre, m1, m2)
      BY <1>1, <2>3, <3>1, ApplyBehind
    <3>3. QED
      BY <3>2 DEF SameBehind
  <2>8. pre \in Seq(Lines)
    BY <1>1 DEF MachineType
  <2> HIDE DEF m0, type, m1, m2, pre
  <2>9. Keeps(env, m1, Compile(env, g, l), q) \/ Fails(m1)
    BY <1>2, <2>3, <2>5, <2>6, LineKeeps DEF m1, pre
  <2>10. CASE Fails(m1)
    BY <2>2, <2>7, <2>10 DEF Fails, p2
  <2>11. CASE Keeps(env, m1, Compile(env, g, l), q)
    <3>1. PICK st, W : Running(m1, st, W) /\ \A w \in W : Len(w) <= 1 /\ Same(st, Compile(env, g, l), Compiled(env, q, w))
      BY <2>11 DEF Keeps
    <3> DEFINE w == m1.out
    <3>2. MachineType(m1) /\ m1.status = "run" /\ m1.ifstate = st /\ w \in W
      BY <3>1 DEF Running
    <3>3. w \in Seq(Lines) /\ Len(w) <= 1 /\ Same(st, Compile(env, g, l), Compiled(env, q, w))
      BY <3>1, <3>2 DEF MachineType
    <3> HIDE DEF w
    <3>4. PICK d : IsCompilation(d, env, pre \o w) /\ d[Len(pre \o w)] = Compiled(env, q, w)
      <4>1. IsCompilation(c, env, pre)
        BY <1>2 DEF pre
      <4>2. QED
        BY <2>8, <3>3, <4>1, CompilationGrows
    <3>5. MachineType(m2) /\ m2.status = "run" /\ m2.ifstate = st /\ m2.out = pre \o w
      BY <2>7, <3>2 DEF w
    <3>6. GoesOn(env, p2, Compile(env, g, l))
      BY <2>2, <3>3, <3>4, <3>5 DEF GoesOn
    <3>7. QED
      BY <2>2, <3>6 DEF p2
  <2>12. QED
    BY <2>9, <2>10, <2>11
<1>5. QED
  BY <1>3, <1>4

\* Where unifdef has ended it does nothing more.
LEMMA ProcessLineStops ==
    ASSUME NEW o, NEW p, NEW l, p.m.status # "run"
    PROVE  ProcessLine(o, p, l) = p
BY DEF ProcessLine, AfterTraps

\* At the beginning the machine is outside of all groups, as the preprocessors are.
LEMMA StartIsSame ==
    /\ MachineType(Start) /\ Start.status = "run" /\ PreType(Beginning)
    /\ Same(Start.ifstate, Beginning, Beginning)
<1> DEFINE st == <<"OUTSIDE">>
           gs == <<WholeFile>>
           h == <<1>>
<1>1. WholeFile \in Group /\ "OUTSIDE" \in IfStates
  BY DEF WholeFile, Group, IfStates
<1>2. st \in Seq(IfStates) /\ gs \in Seq(Group) /\ h \in Seq(Nat) /\ Len(st) = 1 /\ Len(gs) = 1 /\ Len(h) = 1
      /\ st[1] = "OUTSIDE" /\ gs[1] = WholeFile /\ h[1] = 1
  BY <1>1
<1>3. PreType(Beginning)
  BY <1>1 DEF PreType, Beginning
<1>4. MachineType(Start) /\ Start.status = "run" /\ Start.ifstate = st
  BY <1>1 DEF MachineType, Start
<1> HIDE DEF st, gs, h
<1>5. \A k \in 1..1 : k = 1
  OBVIOUS
<1>6. Heights(1, st, 1, h)
  BY <1>2, <1>5 DEF Heights
<1>7. Levels(1, st, gs, gs, h)
  BY <1>5 DEF Levels
<1>8. Hidden(1, st, gs)
  BY <1>2, <1>5 DEF Hidden, Printing
<1>9. SameText(1, st, gs, gs, h)
  BY <1>2, <1>5 DEF SameText
<1>10. Corresponds(st, gs, gs)
  BY <1>2, <1>5, <1>6, <1>7, <1>8, <1>9 DEF Corresponds, Stacks
<1>11. Same(st, Beginning, Beginning)
  BY <1>3, <1>10 DEF Same, Beginning, gs
<1>12. QED
  BY <1>3, <1>4, <1>11

\* What the end of the file does to the machine.
LEMMA EndOfText ==
    ASSUME NEW o, NEW mm
    PROVE  /\ mm.status # "run" => Apply(o, mm, Blank, Plainly("EOF")) = mm
           /\ mm.status = "run" =>
                 Apply(o, mm, Blank, Plainly("EOF")) =
                     [mm EXCEPT !.status = IF Last(mm.ifstate) = "OUTSIDE" THEN "done" ELSE "error"]
<1> DEFINE is == Last(mm.ifstate)
           p == IF is = "OUTSIDE" THEN "done" ELSE "error"
           steps == <<p>>
           m2 == Apply(o, mm, Blank, Plainly("EOF"))
<1>1. m2 = Run(o, mm, Blank, steps)
  BY EndTable DEF Apply, Plainly, Error
<1> HIDE DEF m2, p
<1>2. Len(steps) = 1
  OBVIOUS
<1>3. PICK R : IsRun(R, o, mm, Blank, steps) /\ Run(o, mm, Blank, steps) = R[1]
  BY <1>2, RunIsSteps DEF RunsTo
<1>4. m2 = Step(o, mm, Blank, p)
  BY <1>1, <1>2, <1>3 DEF IsRun
<1>5. mm.status # "run" => m2 = mm
  BY <1>4, StepStops
<1>6. mm.status = "run" => m2 = [mm EXCEPT !.status = p]
  <2>1. CASE p = "done"
    BY <1>4, <2>1 DEF Step, IfStates
  <2>2. CASE p = "error"
    BY <1>4, <2>2 DEF Step, IfStates
  <2>3. QED
    BY <2>1, <2>2 DEF p
<1>7. QED
  BY <1>5, <1>6 DEF m2, p

\* Where unifdef is after n lines of a file, as long as the preprocessor accepts them.
AtLine(n, env, file, f, g) ==
    /\ PreType(g[n])
    /\ g[n].ok =>
        /\ IsProcessState(f[n])
        /\ \/ f[n].m.status \in {"error", "trap"}
           \/ /\ GoesOn(env, f[n], g[n])
              /\ f[n].dirty => n > 0 /\ file[n].kind # "plain" /\ file[n].split

LEMMA BeginsAtLine ==
    ASSUME NEW env, NEW o, NEW file, NEW f, IsProcess(f, o, file), NEW g, IsCompilation(g, env, file)
    PROVE  AtLine(0, env, file, f, g)
<1> DEFINE c == [n \in {0} |-> Beginning]
<1>1. f[0] = StartProcess /\ g[0] = Beginning
  BY DEF IsProcess, IsCompilation
<1>2. StartProcess.m = Start /\ StartProcess.dirty = FALSE /\ IsProcessState(StartProcess)
  BY DEF StartProcess, IsProcessState
<1>3. Start.out = << >>
  BY DEF Start
<1>4. IsCompilation(c, env, << >>) /\ c[Len(<< >>)] = Beginning
  BY DEF IsCompilation
<1> HIDE DEF c
<1>5. GoesOn(env, StartProcess, Beginning)
  BY <1>2, <1>3, <1>4, StartIsSame DEF GoesOn
<1>6. QED
  BY <1>1, <1>2, <1>5, StartIsSame DEF AtLine

LEMMA NextLine ==
    ASSUME NEW env, Environment(env), NEW o, PrintOptions(o), Agrees(env, o),
           NEW file \in Seq(Lines), NothingSwallowed(file), NEW f, IsProcess(f, o, file),
           NEW g, IsCompilation(g, env, file), NEW n \in Nat, n + 1 <= Len(file), AtLine(n, env, file, f, g)
    PROVE  AtLine(n + 1, env, file, f, g)
<1> DEFINE l == file[n + 1]
<1>1. n + 1 \in 1..Len(file) /\ (n + 1) - 1 = n /\ Len(file) \in Nat
  OBVIOUS
<1>2. l \in Lines
  BY <1>1
<1> HIDE DEF l
<1>3. f[n + 1] = ProcessLine(o, f[n], l) /\ g[n + 1] = Compile(env, g[n], l)
  BY <1>1 DEF IsProcess, IsCompilation, l
<1>4. PreType(g[n]) /\ PreType(g[n + 1])
  BY <1>2, <1>3, PreTypeKept DEF AtLine
<1> SUFFICES ASSUME g[n + 1].ok
             PROVE  /\ IsProcessState(f[n + 1])
                    /\ \/ f[n + 1].m.status \in {"error", "trap"}
                       \/ /\ GoesOn(env, f[n + 1], g[n + 1])
                          /\ f[n + 1].dirty => n + 1 > 0 /\ l.kind # "plain" /\ l.split
  BY <1>4 DEF AtLine, l
<1>5. g[n].ok
  BY <1>3, <1>4, AcceptedLine
<1>6. IsProcessState(f[n])
  BY <1>5 DEF AtLine
<1>7. CASE f[n].m.status \in {"error", "trap"}
  BY <1>3, <1>6, <1>7, ProcessLineStops
<1>8. CASE ~(f[n].m.status \in {"error", "trap"})
  <2>1. GoesOn(env, f[n], g[n]) /\ (f[n].dirty => n > 0 /\ file[n].kind # "plain" /\ file[n].split)
    BY <1>5, <1>8 DEF AtLine
  <2>2. f[n].dirty => l.kind = "plain"
    <3>1. n > 0 => n \in 1..(Len(file) - 1)
      BY <1>1
    <3>2. QED
      BY <2>1, <3>1 DEF NothingSwallowed, l
  <2>3. /\ IsProcessState(f[n + 1])
        /\ \/ f[n + 1].m.status \in {"error", "trap"}
           \/ GoesOn(env, f[n + 1], g[n + 1]) /\ f[n + 1].dirty = (l.kind # "plain" /\ l.split)
    BY <1>2, <1>3, <1>4, <1>6, <2>1, <2>2, ProcessLineKeeps
  <2>4. n + 1 > 0
    OBVIOUS
  <2>5. QED
    BY <2>3, <2>4
<1>9. QED
  BY <1>7, <1>8

(***************************************************************************)
(* The whole of unifdef on one file: when it is done, the file written     *)
(* means to the preprocessor what the file read means.                     *)
(***************************************************************************)
LEMMA FileKept ==
    ASSUME NEW env, Environment(env), NEW o, PrintOptions(o), Agrees(env, o),
           NEW file \in Seq(Lines), NothingSwallowed(file), NEW r \in Endings(o, file),
           r.status = "done", CText(env, file).ok
    PROVE  CText(env, r.out) = CText(env, file)
<1> DEFINE N == Len(file)
<1>0. N \in Nat
  OBVIOUS
<1>1. PICK f : IsProcess(f, o, file) /\ Processed(o, file, N) = f[N]
  BY <1>0, ProcessIsSteps
<1>2. PICK g : IsCompilation(g, env, file) /\ CompiledTo(env, file, N) = g[N]
  BY <1>0, CompilationIsSteps
<1>3. AtLine(N, env, file, f, g)
  <2> DEFINE T == {n \in Nat : n <= N => AtLine(n, env, file, f, g)}
  <2>1. 0 \in T
    BY <1>1, <1>2, BeginsAtLine
  <2>2. ASSUME NEW n \in Nat, n \in T PROVE n + 1 \in T
    <3> SUFFICES ASSUME n + 1 <= N PROVE AtLine(n + 1, env, file, f, g)
      OBVIOUS
    <3>1. AtLine(n, env, file, f, g)
      BY <1>0, <2>2
    <3>2. QED
      BY <1>1, <1>2, <3>1, NextLine
  <2>3. N \in T
    <3> HIDE DEF T
    <3>1. QED
      BY <1>0, <2>1, <2>2, NumbersInduction
  <2>4. QED
    BY <1>0, <2>3
<1> DEFINE p == f[N]
           m2 == Apply(o, p.m, Blank, Plainly("EOF"))
           p2 == [p EXCEPT !.m = m2]
<1>4. CText(env, file) = CTextOf(g[N])
  BY <1>2 DEF CText
<1>5. g[N].ok /\ IsProcessState(p)
  <2>1. CTextOf(g[N]).ok
    BY <1>4
  <2>2. CTextOf(g[N]).ok <=> Complete(g[N])
    BY DEF CTextOf
  <2>3. g[N].ok
    BY <2>1, <2>2 DEF Complete
  <2>4. QED
    BY <1>3, <2>3 DEF AtLine
<1>6. p2.m = m2
  BY <1>5 DEF IsProcessState
<1>7. r = Ending(p2)
  <2>1. Process(o, file) = p2
    BY <1>1 DEF Process
  <2> HIDE DEF p2
  <2>2. r \in {Ending(p2)} \cup (IF p2.maytrap THEN {Trap} ELSE {})
    BY <2>1 DEF Endings
  <2>3. Trap.status # "done"
    BY DEF Trap
  <2>4. QED
    BY <2>2, <2>3
<1> HIDE DEF p2, m2
<1>8. m2.status = "done" /\ r.out = m2.out
  <2>1. Trap.status # "done"
    BY DEF Trap
  <2>2. QED
    BY <1>6, <1>7, <2>1 DEF Ending
<1>9. p.m.status = "run" => m2 = [p.m EXCEPT !.status = IF Last(p.m.ifstate) = "OUTSIDE" THEN "done" ELSE "error"]
  BY EndOfText DEF m2
<1>10. p.m.status # "run" => m2 = p.m
  BY EndOfText DEF m2
<1>11. GoesOn(env, p, g[N])
  BY <1>3, <1>5, <1>8, <1>10 DEF AtLine
<1>12. MachineType(p.m) /\ p.m.status = "run"
  BY <1>11 DEF GoesOn
<1>13. Last(p.m.ifstate) = "OUTSIDE" /\ m2.out = p.m.out
  BY <1>8, <1>9, <1>12 DEF MachineType
<1>14. PICK c : IsCompilation(c, env, p.m.out) /\ Same(p.m.ifstate, g[N], c[Len(p.m.out)])
  BY <1>11 DEF GoesOn
<1>15. CompiledTo(env, r.out, Len(r.out)) = c[Len(r.out)]
  <2>1. r.out = p.m.out /\ Len(r.out) \in Nat
    BY <1>8, <1>12, <1>13 DEF MachineType
  <2>2. QED
    BY <1>14, <2>1, OneCompilation
<1>16. CText(env, r.out) = CTextOf(c[Len(r.out)])
  BY <1>15 DEF CText
<1>17. Complete(g[N]) /\ Complete(c[Len(r.out)]) /\ c[Len(r.out)].text = g[N].text
  BY <1>8, <1>13, <1>14, OutsideFacts DEF Same
<1>18. QED
  BY <1>4, <1>16, <1>17 DEF CTextOf
=============================================================================
