-------------------------- MODULE DeltaPassProofs --------------------------
(***************************************************************************)
(* Theorems about DeltaPass, for every set of files, every pass, every     *)
(* interestingness test and every number of processes.                     *)
(*                                                                         *)
(* The argument: the types (Types), the accounting of children             *)
(* (ChildrenInv) and the shape of the speculation (SpeculationInv) form an *)
(* inductive invariant; with the honesty of the verdicts (HonestInv) it    *)
(* makes what the test says of the files on disk (DiskInv) inductive, when *)
(* children are not killed from outside.                                   *)
(*                                                                         *)
(* In the same case DeltaPass implements the sequential search of          *)
(* SequentialPass.  The state that search is in is read off the front of   *)
(* @variants (SeqState): creating a variant, waiting for a child and       *)
(* dropping speculation are stutters, and consuming a verdict is one       *)
(* attempt of the sequential search.                                       *)
(***************************************************************************)
EXTENDS DeltaPassProperties, RecursionLemmas, FiniteSetTheorems, SequenceTheorems

-----------------------------------------------------------------------------
(* Facts about the operators of ReductionTask *)

\* No two files have the same base name.
DistinctNames == \A f, g \in Files : BaseName[f] = BaseName[g] => f = g

\* A set of positions in a list that is not empty has a last element.
LEMMA LastExists ==
    ASSUME NEW N \in Nat, NEW S \in SUBSET (1..N), S # {}
    PROVE  \E m \in S : \A j \in S : j <= m
<1> DEFINE T == {N - i : i \in S}
           R == {ss \in Nat \X Nat : ss[1] < ss[2]}
<1>1. \A i \in S : i \in 1..N
  OBVIOUS
<1>2. T \in SUBSET Nat
  BY <1>1
<1>3. T # {}
  OBVIOUS
<1>4. PICK x \in T : \A y \in T : <<y, x>> \notin R
  <2>1. IsWellFoundedOn(R, Nat)
    BY NatOrderWellFounded
  <2> HIDE DEF T, R
  <2> QED
    BY <1>2, <1>3, <2>1, WFMin
<1>5. PICK m \in S : x = N - m
  BY <1>4
<1>6. ASSUME NEW j \in S PROVE j <= m
  <2>1. N - j \in T
    OBVIOUS
  <2>2. <<N - j, N - m>> \notin R
    BY <1>4, <1>5, <2>1
  <2>3. j \in 1..N /\ m \in 1..N
    BY <1>1
  <2>4. N - j \in Nat /\ N - m \in Nat
    BY <2>3
  <2>5. ~(N - j < N - m)
    BY <2>2, <2>4
  <2> QED
    BY <2>3, <2>5
<1> QED
  BY <1>6

\* There is at least one file.
LEMMA NumFilesPositive == NumFiles \in Nat \ {0}
BY FilesAssumption, FS_CardinalityType, FS_EmptySet DEF NumFiles

\* Every base name belongs to a position of the list, and to a last one.
LEMMA LastOwnerExists ==
    ASSUME NEW o \in Orders, NEW n \in Names
    PROVE  \E i \in 1..NumFiles :
               /\ BaseName[o[i]] = n
               /\ \A j \in (i + 1)..NumFiles : BaseName[o[j]] # n
<1> DEFINE S == {i \in 1..NumFiles : BaseName[o[i]] = n}
<1>1. PICK f \in Files : n = BaseName[f]
  BY DEF Names
<1>2. PICK i \in 1..NumFiles : o[i] = f
  BY DEF Orders
<1>3. S \in SUBSET (1..NumFiles) /\ S # {}
  BY <1>1, <1>2
<1>4. PICK m \in S : \A j \in S : j <= m
  <2> HIDE DEF S
  <2> QED
    BY <1>3, LastExists, NumFilesPositive
<1>5. ASSUME NEW j \in (m + 1)..NumFiles PROVE BaseName[o[j]] # n
  <2>1. m \in 1..NumFiles
    BY <1>4
  <2>2. j \in 1..NumFiles /\ ~(j <= m)
    BY <2>1, NumFilesPositive
  <2> QED
    BY <1>4, <2>2
<1> QED
  BY <1>4, <1>5

\* copy_files_here fills the directory with contents of files.
LEMMA CopyFilesHereType ==
    ASSUME NEW o \in Orders, NEW d \in [Files -> Contents]
    PROVE  CopyFilesHere(o, d) \in [Names -> Contents]
<1>1. ASSUME NEW n \in Names
      PROVE  CopyFilesHere(o, d)[n] \in Contents
  <2> DEFINE last == CHOOSE i \in 1..NumFiles :
                        /\ BaseName[o[i]] = n
                        /\ \A j \in (i + 1)..NumFiles : BaseName[o[j]] # n
  <2>1. last \in 1..NumFiles
    BY LastOwnerExists
  <2>2. d[o[last]] \in Contents
    BY <2>1 DEF Orders
  <2> QED
    BY <2>2 DEF CopyFilesHere
<1> QED
  BY <1>1 DEF CopyFilesHere

\* With distinct names, the directory holds every file under its name.
LEMMA CopyFilesHereDistinct ==
    ASSUME DistinctNames, NEW o \in Orders, NEW d, NEW f \in Files
    PROVE  CopyFilesHere(o, d)[BaseName[f]] = d[f]
<1> DEFINE last == CHOOSE i \in 1..NumFiles :
                      /\ BaseName[o[i]] = BaseName[f]
                      /\ \A j \in (i + 1)..NumFiles : BaseName[o[j]] # BaseName[f]
<1>1. BaseName[f] \in Names
  BY DEF Names
<1>2. last \in 1..NumFiles /\ BaseName[o[last]] = BaseName[f]
  BY <1>1, LastOwnerExists
<1>3. o[last] = f
  BY <1>2 DEF DistinctNames, Orders
<1> QED
  BY <1>1, <1>3 DEF CopyFilesHere

\* With distinct names, the order of the files does not matter.
LEMMA CopyFilesHereOrder ==
    ASSUME DistinctNames, NEW o \in Orders, NEW o2 \in Orders, NEW d
    PROVE  CopyFilesHere(o, d) = CopyFilesHere(o2, d)
<1>1. ASSUME NEW n \in Names
      PROVE  CopyFilesHere(o, d)[n] = CopyFilesHere(o2, d)[n]
  <2>1. PICK f \in Files : n = BaseName[f]
    BY DEF Names
  <2> QED
    BY <2>1, CopyFilesHereDistinct
<1> QED
  BY <1>1 DEF CopyFilesHere

\* With distinct names, changing a file changes the directory at its name.
LEMMA CopyFilesHereUpdate ==
    ASSUME DistinctNames, NEW o \in Orders, NEW f \in Files,
           NEW d \in [Files -> Contents], NEW e \in [Files -> Contents],
           \A g \in Files : g # f => e[g] = d[g],
           NEW n \in Names
    PROVE  CopyFilesHere(o, e)[n] = IF n = BaseName[f] THEN e[f] ELSE CopyFilesHere(o, d)[n]
<1>1. PICK g \in Files : n = BaseName[g]
  BY DEF Names
<1>2. CopyFilesHere(o, e)[n] = e[g] /\ CopyFilesHere(o, d)[n] = d[g]
  BY <1>1, CopyFilesHereDistinct
<1>3. n = BaseName[f] => g = f
  BY <1>1 DEF DistinctNames
<1> QED
  BY <1>1, <1>2, <1>3

-----------------------------------------------------------------------------
(* The inductive invariant *)

\* TypeOK without numRunning, which needs the accounting.
Types ==
    /\ disk \in [Files -> Contents]
    /\ cache \in [Passes -> [Contents -> Contents \cup {NoEntry}]]
    /\ toreduce \in Orders
    /\ nth \in 1..(NumFiles + 1)
    /\ pass \in Passes
    /\ before \in Contents
    /\ state \in States /\ stopAt \in States
    /\ since \in 0..(GiveUpConstant + 1)
    /\ stopped \in BOOLEAN /\ skip \in BOOLEAN
    /\ variants \in Seq(VariantSet)
    /\ proc \in [Pids -> ProcStatus]
    /\ bugs \in Nat
    /\ pc \in {"idle", "file", "again", "fill", "peel", "check", "exit"}
    /\ Working => nth \in 1..NumFiles

\* The contents of the directory in which a variant is built are contents,
\* and the pass answers with a result.
LEMMA TmpType ==
    ASSUME Types, Working
    PROVE  /\ Fn \in Files /\ Base \in Names
           /\ Tmp \in [Names -> Contents] /\ Tmp[Base] \in Contents
           /\ Transform(pass, Tmp[Base], state) \in TransformResults
           /\ \A s \in States : Advance(pass, s) \in States
<1>1. Fn \in Files
  BY DEF Types, Fn, Orders
<1>2. Base \in Names
  BY <1>1 DEF Base, Names
<1>3. Tmp \in [Names -> Contents]
  BY CopyFilesHereType DEF Types, Tmp
<1> QED
  BY <1>1, <1>2, <1>3, PassAssumption DEF Types

-----------------------------------------------------------------------------
(* Sequences of variants.                                                  *)

\* What Head and Tail give of a list that is not empty.
LEMMA TailFacts ==
    ASSUME NEW S, NEW s \in Seq(S), s # <<>>
    PROVE  /\ Head(s) = s[1] /\ Head(s) \in S
           /\ Tail(s) \in Seq(S)
           /\ Len(s) \in Nat \ {0} /\ Len(Tail(s)) = Len(s) - 1
           /\ DOMAIN s = 1..Len(s) /\ DOMAIN Tail(s) = 1..(Len(s) - 1)
           /\ \A k \in DOMAIN Tail(s) : Tail(s)[k] = s[k + 1]
OBVIOUS

\* What Append gives.
LEMMA AppendFacts ==
    ASSUME NEW S, NEW s \in Seq(S), NEW e \in S
    PROVE  /\ Append(s, e) \in Seq(S)
           /\ Len(s) \in Nat /\ Len(Append(s, e)) = Len(s) + 1
           /\ DOMAIN s = 1..Len(s) /\ DOMAIN Append(s, e) = 1..(Len(s) + 1)
           /\ \A k \in 1..Len(s) : Append(s, e)[k] = s[k]
           /\ Append(s, e)[Len(s) + 1] = e
OBVIOUS

\* A list changed element by element keeps its length.
LEMMA MapFacts ==
    ASSUME NEW S, NEW s \in Seq(S), NEW t, DOMAIN t = DOMAIN s,
           t = [k \in DOMAIN s |-> t[k]],
           \A k \in DOMAIN s : t[k] \in S
    PROVE  /\ t \in Seq(S) /\ Len(t) = Len(s) /\ DOMAIN s = 1..Len(s)
OBVIOUS

-----------------------------------------------------------------------------
(* Types.                                                                  *)

\* The files as they are given, and the options, have their types.
LEMMA TypesInit == Init => Types
<1> SUFFICES ASSUME Init PROVE Types
  OBVIOUS
<1>1. before \in Contents
  <2>1. PICK f \in Files : TRUE
    BY FilesAssumption
  <2>2. disk[f] \in Contents
    BY <2>1 DEF Init
  <2> QED
    BY <2>2 DEF Init
<1>2. pass \in Passes
  BY PassesAssumption DEF Init
<1>3. state \in States /\ stopAt \in States
  <2>1. New(pass) \in States
    BY <1>2, PassAssumption
  <2> QED
    BY <2>1 DEF Init
<1>4. cache \in [Passes -> [Contents -> Contents \cup {NoEntry}]]
  BY DEF Init
<1>5. proc \in [Pids -> ProcStatus]
  BY DEF Init, ProcStatus
<1>6. since \in 0..(GiveUpConstant + 1) /\ bugs \in Nat
  BY OptionsAssumption DEF Init
<1>7. nth \in 1..(NumFiles + 1) /\ ~Working
  BY NumFilesPositive DEF Init, Working
<1>8. variants \in Seq(VariantSet)
  BY DEF Init
<1> QED
  BY <1>1, <1>2, <1>3, <1>4, <1>5, <1>6, <1>7, <1>8 DEF Init, Types

\* Every step of the parent and of the children preserves the types.
LEMMA TypesStep == Types /\ [Next]_vars => Types'
<1> SUFFICES ASSUME Types, [Next]_vars PROVE Types'
  OBVIOUS
<1> USE DEF task, search, children
<1>1. ASSUME NEW p \in Passes, CallPass(p) PROVE Types'
  <2>1. /\ toreduce' \in Orders /\ nth' \in 1..(NumFiles + 1) /\ skip' \in BOOLEAN
        /\ pc' \in {"file", "exit"}
    <3>1. CASE pc' = "exit" /\ UNCHANGED <<toreduce, nth, skip>>
      BY <3>1 DEF Types
    <3>2. CASE /\ \E o \in Orders : SortedBySize(o, disk) /\ toreduce' = o
               /\ nth' = 1 /\ skip' = FALSE /\ pc' = "file"
      <4>1. toreduce' \in Orders
        BY <3>2
      <4>2. 1 \in 1..(NumFiles + 1)
        BY NumFilesPositive
      <4> QED
        BY <3>2, <4>1, <4>2
    <3> QED
      BY <1>1, <3>1, <3>2 DEF CallPass
  <2> QED
    BY <1>1, <2>1 DEF Types, CallPass, Working
<1>2. CASE SkipEmptyFile
  BY <1>2, NumFilesPositive DEF Types, SkipEmptyFile, Working
<1>3. CASE TakeCached
  <2>1. disk[Fn] \in Contents /\ cache[pass][disk[Fn]] \in Contents
    BY <1>3 DEF Types, TakeCached, CacheHit, Fn, Orders
  <2>2. disk' \in [Files -> Contents] /\ before' \in Contents
    BY <1>3, <2>1 DEF Types, TakeCached
  <2> QED
    BY <1>3, <2>2, NumFilesPositive DEF Types, TakeCached, Working
<1>4. CASE StartFile
  <2>1. disk[Fn] \in Contents /\ New(pass) \in States
    BY <1>4, PassAssumption DEF Types, StartFile, Fn, Orders
  <2>2. since' \in 0..(GiveUpConstant + 1) /\ nth' \in 1..NumFiles /\ nth' \in 1..(NumFiles + 1)
    BY <1>4, NumFilesPositive, OptionsAssumption DEF Types, StartFile
  <2> QED
    BY <1>4, <2>1, <2>2 DEF Types, StartFile, Working
<1>5. CASE ReturnFromPass
  BY <1>5 DEF Types, ReturnFromPass, Working
<1>6. CASE PollKey
  BY <1>6 DEF Types, PollKey, Working
<1>7. CASE TransformStops
  <2>1. Transform(pass, Tmp[Base], state) \in TransformResults
    BY <1>7, TmpType DEF TransformStops, Working
  <2> QED
    BY <1>7, <2>1 DEF Types, TransformStops, Working, TransformResults
<1>8. CASE TransformFails
  <2>1. Transform(pass, Tmp[Base], state) \in TransformResults
    BY <1>8, TmpType DEF TransformFails, Working
  <2>2. bugs' \in Nat /\ pc' \in {"fill", "exit"}
    BY <1>8 DEF TransformFails, ReportPassBug, Types
  <2> QED
    BY <1>8, <2>1, <2>2 DEF Types, TransformFails, Working, TransformResults
<1>9. ASSUME NEW pid \in Pids, ForkTest(pid) PROVE Types'
  <2> DEFINE t == Transform(pass, Tmp[Base], state)
  <2>1. /\ t \in TransformResults /\ Tmp \in [Names -> Contents] /\ Base \in Names
        /\ \A s \in States : Advance(pass, s) \in States
    BY <1>9, TmpType DEF ForkTest, Working
  <2>2. Variant(pid, state, t) \in VariantSet
    BY <2>1 DEF Variant, VariantSet, TransformResults, Types
  <2>3. variants' \in Seq(VariantSet)
    BY <1>9, <2>2 DEF ForkTest, Types
  <2>4. state' \in States
    BY <1>9, <2>1 DEF ForkTest, TransformResults
  <2>5. proc' \in [Pids -> ProcStatus]
    BY <1>9 DEF ForkTest, Types, ProcStatus
  <2> QED
    BY <1>9, <2>3, <2>4, <2>5 DEF Types, ForkTest, Working
<1>10. ASSUME NEW pid \in Pids, WaitForChild(pid) PROVE Types'
  <2>1. \A k \in DOMAIN variants : variants'[k] \in VariantSet
    <3>1. \A v \in VariantSet, r \in {"good", "bad"} :
              [v EXCEPT !.pid = NoPid, !.res = r] \in VariantSet
      BY DEF VariantSet
    <3>2. \A k \in DOMAIN variants : variants[k] \in VariantSet
      BY DEF Types
    <3> QED
      BY <1>10, <3>1, <3>2 DEF WaitForChild
  <2>2. variants' \in Seq(VariantSet)
    <3>1. DOMAIN variants' = DOMAIN variants /\ variants' = [k \in DOMAIN variants |-> variants'[k]]
      BY <1>10 DEF WaitForChild
    <3> QED
      BY <2>1, <3>1, MapFacts DEF Types
  <2>3. proc' \in [Pids -> ProcStatus]
    BY <1>10 DEF WaitForChild, Types, ProcStatus
  <2> QED
    BY <1>10, <2>2, <2>3 DEF Types, WaitForChild, Working
<1>11. CASE NothingToWaitFor
  BY <1>11 DEF Types, NothingToWaitFor, Working
<1>12. CASE PeelAccept
  <2>1. Head(variants) \in VariantSet /\ Base \in Names
    BY <1>12, TailFacts, TmpType DEF PeelAccept, FrontIsReady, Types, Working
  <2>2. FrontContent \in Contents /\ Head(variants).newsh \in States
    BY <2>1 DEF FrontContent, VariantSet
  <2>3. disk' \in [Files -> Contents] /\ state' \in States
    BY <1>12, <2>2 DEF PeelAccept, Types
  <2>4. variants' \in Seq(VariantSet) /\ proc' \in [Pids -> ProcStatus]
    BY <1>12 DEF PeelAccept, Killem, Types, ProcStatus
  <2>5. since' \in 0..(GiveUpConstant + 1)
    BY <1>12, OptionsAssumption DEF PeelAccept
  <2> QED
    BY <1>12, <2>3, <2>4, <2>5 DEF Types, PeelAccept, Working
<1>13. CASE PeelReject
  <2>1. variants' \in Seq(VariantSet)
    BY <1>13, TailFacts DEF PeelReject, FrontIsReady, Types
  <2>2. since' \in 0..(GiveUpConstant + 1)
    BY <1>13, OptionsAssumption DEF PeelReject, CountFailure, Types
  <2> QED
    BY <1>13, <2>1, <2>2 DEF Types, PeelReject, Working
<1>14. CASE PeelDone
  BY <1>14 DEF Types, PeelDone, Working
<1>15. CASE GiveUp
  <2>1. variants' \in Seq(VariantSet) /\ proc' \in [Pids -> ProcStatus]
    BY <1>15 DEF GiveUp, Killem, Types, ProcStatus
  <2>2. bugs' \in Nat /\ pc' \in {"file", "exit"}
    BY <1>15 DEF GiveUp, ReportPassBug, Types
  <2>3. nth' \in 1..(NumFiles + 1)
    BY <1>15, NumFilesPositive DEF GiveUp, Types, Working
  <2> QED
    BY <1>15, <2>1, <2>2, <2>3 DEF Types, GiveUp, Working
<1>16. CASE EndFile
  <2>1. disk[Fn] \in Contents
    BY <1>16, TmpType DEF EndFile, Types, Working
  <2>2. cache' \in [Passes -> [Contents -> Contents \cup {NoEntry}]]
    BY <1>16, <2>1 DEF EndFile, Types
  <2>3. nth' \in 1..(NumFiles + 1)
    BY <1>16, NumFilesPositive DEF EndFile, Types, Working
  <2> QED
    BY <1>16, <2>2, <2>3 DEF Types, EndFile, Working
<1>17. CASE GotoAgain
  BY <1>17 DEF Types, GotoAgain, Working
<1>18. ASSUME NEW pid \in Pids, ChildStep(pid) PROVE Types'
  BY <1>18 DEF Types, ChildStep, TestEnds, TestTimesOut, StatusAfterTerm, ChildIsKilled, ProcStatus, Working
<1>19. CASE UNCHANGED vars
  BY <1>19 DEF Types, vars, Working
<1> QED
  BY <1>1, <1>2, <1>3, <1>4, <1>5, <1>6, <1>7, <1>8, <1>9, <1>10, <1>11, <1>12, <1>13,
     <1>14, <1>15, <1>16, <1>17, <1>18, <1>19 DEF Next, ParentStep

-----------------------------------------------------------------------------
(* The accounting of children.                                             *)

\* Where there is nobody to take care of children there are none; a fatal pass
\* bug is the exception.
ParentIsAlone == pc \in {"idle", "file"} \/ (pc = "exit" /\ ~DieOnPassBug)

ChildrenInv ==
    /\ IsFiniteSet(Live)
    /\ ChildrenAccounted
    /\ ParentIsAlone => variants = <<>>

\* An empty list has no children.
LEMMA RunningPidsEmpty == RunningPids(<<>>) = {}
BY DEF RunningPids

\* Dropping a variant whose child has been waited for loses no child.
LEMMA RunningPidsTail ==
    ASSUME NEW s \in Seq(VariantSet), s # <<>>, Head(s).pid = NoPid
    PROVE  RunningPids(Tail(s)) = RunningPids(s)
<1>1. \A k \in DOMAIN Tail(s) : k + 1 \in DOMAIN s /\ Tail(s)[k] = s[k + 1]
  BY TailFacts
<1>2. \A k \in DOMAIN s : k # 1 => k - 1 \in DOMAIN Tail(s) /\ s[k] = Tail(s)[k - 1]
  <2> SUFFICES ASSUME NEW k \in DOMAIN s, k # 1
               PROVE  k - 1 \in DOMAIN Tail(s) /\ s[k] = Tail(s)[k - 1]
    OBVIOUS
  <2>1. k - 1 \in DOMAIN Tail(s)
    BY TailFacts
  <2> QED
    BY <2>1, TailFacts
<1>3. s[1].pid = NoPid
  BY TailFacts
<1>4. ASSUME NEW q \in RunningPids(s) PROVE q \in RunningPids(Tail(s))
  <2>1. PICK k \in DOMAIN s : q = s[k].pid /\ q # NoPid
    BY DEF RunningPids
  <2>2. k - 1 \in DOMAIN Tail(s) /\ q = Tail(s)[k - 1].pid
    BY <1>2, <1>3, <2>1
  <2> QED
    BY <2>1, <2>2 DEF RunningPids
<1>5. ASSUME NEW q \in RunningPids(Tail(s)) PROVE q \in RunningPids(s)
  <2>1. PICK k \in DOMAIN Tail(s) : q = Tail(s)[k].pid /\ q # NoPid
    BY DEF RunningPids
  <2> QED
    BY <1>1, <2>1 DEF RunningPids
<1> QED
  BY <1>4, <1>5

\* Pushing the variant of a fork adds its child.
LEMMA RunningPidsAppend ==
    ASSUME NEW s \in Seq(VariantSet), NEW v \in VariantSet, v.pid # NoPid
    PROVE  RunningPids(Append(s, v)) = RunningPids(s) \cup {v.pid}
<1>1. /\ Len(s) + 1 \in DOMAIN Append(s, v) /\ Append(s, v)[Len(s) + 1] = v
      /\ \A k \in DOMAIN s : k \in DOMAIN Append(s, v) /\ Append(s, v)[k] = s[k]
      /\ \A k \in DOMAIN Append(s, v) : k \in DOMAIN s \/ k = Len(s) + 1
  BY AppendFacts
<1> QED
  BY <1>1 DEF RunningPids

\* Before the first child and after the last one there is nobody to count.
LEMMA AloneFacts ==
    ASSUME ChildrenInv, variants = <<>>
    PROVE  Live = {} /\ numRunning = 0
BY RunningPidsEmpty, FS_EmptySet DEF ChildrenInv, ChildrenAccounted

\* killem, called with all the children that live, leaves none.
LEMMA KillemFacts ==
    ASSUME Types, ChildrenInv, NEW rest, RunningPids(rest) = Live, Killem(rest)
    PROVE  ChildrenInv'
<1>1. Live' = {}
  BY DEF Killem, Live
<1>2. numRunning' = 0
  <2>1. Cardinality(Live) \in Nat
    BY FS_CardinalityType DEF ChildrenInv
  <2> QED
    BY <2>1 DEF Killem, ChildrenInv, ChildrenAccounted
<1>3. variants' = <<>> /\ RunningPids(variants)' = {}
  BY RunningPidsEmpty DEF Killem
<1> QED
  BY <1>1, <1>2, <1>3, FS_EmptySet, ProcsAssumption DEF ChildrenInv, ChildrenAccounted

\* No child has been forked when the first pass is called.
LEMMA ChildrenInit == Init => ChildrenInv
<1> SUFFICES ASSUME Init PROVE ChildrenInv
  OBVIOUS
<1>1. Live = {} /\ variants = <<>> /\ numRunning = 0
  BY DEF Init, Live
<1> QED
  BY <1>1, RunningPidsEmpty, FS_EmptySet, ProcsAssumption DEF ChildrenInv, ChildrenAccounted

\* A step that leaves the children alone, and does not send the parent to
\* where it is alone while variants are left.
LEMMA ChildrenUnchanged ==
    ASSUME ChildrenInv, Live' = Live, UNCHANGED <<variants, numRunning>>,
           ParentIsAlone' => variants = <<>>
    PROVE  ChildrenInv'
<1>1. RunningPids(variants)' = RunningPids(variants)
  BY DEF RunningPids
<1> QED
  BY <1>1 DEF ChildrenInv, ChildrenAccounted

\* fork, wait and killem keep the count and the list in step.
LEMMA ChildrenStep == Types /\ ChildrenInv /\ [Next]_vars => ChildrenInv'
<1> SUFFICES ASSUME Types, ChildrenInv, [Next]_vars PROVE ChildrenInv'
  OBVIOUS
<1> USE DEF task, search, children
<1>1. ASSUME NEW p \in Passes, CallPass(p) PROVE ChildrenInv'
  <2>1. variants = <<>>
    BY <1>1 DEF CallPass, ChildrenInv, ParentIsAlone
  <2>2. UNCHANGED children
    BY <1>1 DEF CallPass
  <2> QED
    BY <2>1, <2>2, ChildrenUnchanged DEF Live
<1>2. CASE SkipEmptyFile \/ TakeCached \/ ReturnFromPass
  <2>1. variants = <<>>
    BY <1>2 DEF SkipEmptyFile, TakeCached, ReturnFromPass, ChildrenInv, ParentIsAlone
  <2> QED
    BY <1>2, <2>1, ChildrenUnchanged DEF SkipEmptyFile, TakeCached, ReturnFromPass, Live
<1>3. CASE StartFile \/ PollKey \/ TransformStops \/ NothingToWaitFor \/ PeelDone \/ GotoAgain
  <2>1. UNCHANGED children /\ ~ParentIsAlone'
    BY <1>3 DEF StartFile, PollKey, TransformStops, NothingToWaitFor, PeelDone, GotoAgain,
                ParentIsAlone
  <2> QED
    BY <2>1, ChildrenUnchanged DEF Live
<1>4. CASE TransformFails
  <2>1. UNCHANGED children /\ ~ParentIsAlone'
    BY <1>4, OptionsAssumption DEF TransformFails, ReportPassBug, BugIsFatal, ParentIsAlone
  <2> QED
    BY <2>1, ChildrenUnchanged DEF Live
<1>5. ASSUME NEW pid \in Pids, ForkTest(pid) PROVE ChildrenInv'
  <2> DEFINE t == Transform(pass, Tmp[Base], state)
             v == Variant(pid, state, t)
  <2>1. v \in VariantSet /\ v.pid = pid /\ pid # NoPid
    <3>1. t \in TransformResults /\ Tmp \in [Names -> Contents] /\ Base \in Names
      BY <1>5, TmpType DEF ForkTest, Working
    <3> QED
      BY <3>1, ProcsAssumption DEF Variant, VariantSet, TransformResults, Types
  <2>2. pid \notin Live /\ Live' = Live \cup {pid}
    BY <1>5 DEF ForkTest, Live, Types
  <2>3. IsFiniteSet(Live') /\ Cardinality(Live') = Cardinality(Live) + 1
    BY <2>2, FS_AddElement DEF ChildrenInv
  <2>4. variants \in Seq(VariantSet) /\ variants' = Append(variants, v)
    BY <1>5 DEF ForkTest, Types
  <2>5. RunningPids(variants)' = Live'
    <3> HIDE DEF v
    <3> QED
      BY <2>1, <2>2, <2>4, RunningPidsAppend DEF ChildrenInv, ChildrenAccounted
  <2>6. numRunning' = Cardinality(Live') /\ numRunning' <= NProcs
    <3>1. Cardinality(Live) \in Nat
      BY FS_CardinalityType DEF ChildrenInv
    <3> QED
      BY <1>5, <2>3, <3>1, ProcsAssumption DEF ForkTest, MayCreate, ChildrenInv, ChildrenAccounted
  <2>7. ASSUME NEW j \in DOMAIN variants', NEW k \in DOMAIN variants',
               variants'[j].pid = variants'[k].pid, variants'[k].pid # NoPid
        PROVE  j = k
    <3> HIDE DEF v
    <3>1. /\ DOMAIN variants' = 1..(Len(variants) + 1) /\ DOMAIN variants = 1..Len(variants)
          /\ Len(variants) \in Nat
          /\ \A i \in 1..Len(variants) : variants'[i] = variants[i]
          /\ variants'[Len(variants) + 1] = v
      BY <2>1, <2>4, AppendFacts
    <3>2. \A i \in 1..Len(variants) : variants[i].pid # pid
      BY <2>1, <2>2, <3>1 DEF ChildrenInv, ChildrenAccounted, RunningPids
    <3>3. \A i, l \in 1..Len(variants) :
              (variants[i].pid = variants[l].pid /\ variants[l].pid # NoPid) => i = l
      BY <3>1 DEF ChildrenInv, ChildrenAccounted
    <3>4. CASE j \in 1..Len(variants) /\ k \in 1..Len(variants)
      BY <2>7, <3>1, <3>3, <3>4
    <3>5. CASE j = Len(variants) + 1 \/ k = Len(variants) + 1
      BY <2>1, <2>7, <3>1, <3>2, <3>5
    <3> QED
      BY <3>1, <3>4, <3>5
  <2>8. ~ParentIsAlone'
    BY <1>5 DEF ForkTest, ParentIsAlone
  <2> QED
    BY <2>3, <2>5, <2>6, <2>7, <2>8 DEF ChildrenInv, ChildrenAccounted
<1>6. ASSUME NEW pid \in Pids, WaitForChild(pid) PROVE ChildrenInv'
  <2>1. pid \in Live /\ Live' = Live \ {pid}
    BY <1>6 DEF WaitForChild, Zombie, Live, Types
  <2>2. IsFiniteSet(Live') /\ Cardinality(Live') = Cardinality(Live) - 1
    BY <2>1, FS_RemoveElement DEF ChildrenInv
  <2>3. PICK k \in DOMAIN variants : variants[k].pid = pid
    BY <2>1 DEF ChildrenInv, ChildrenAccounted, RunningPids
  <2>4. numRunning' = Cardinality(Live') /\ numRunning' <= NProcs
    <3>1. Cardinality(Live) \in Nat
      BY FS_CardinalityType DEF ChildrenInv
    <3>2. numRunning = Cardinality(Live) /\ numRunning <= NProcs
      BY DEF ChildrenInv, ChildrenAccounted
    <3>3. numRunning' = numRunning - 1
      BY <1>6 DEF WaitForChild
    <3> HIDE DEF Live
    <3> QED
      BY <2>2, <3>1, <3>2, <3>3, ProcsAssumption
  <2>5. /\ DOMAIN variants' = DOMAIN variants
        /\ \A j \in DOMAIN variants :
               variants'[j].pid = IF variants[j].pid = pid THEN NoPid ELSE variants[j].pid
    <3>1. \A j \in DOMAIN variants : variants[j] \in VariantSet
      BY DEF Types
    <3>2. \A w \in VariantSet : \A r : [w EXCEPT !.pid = NoPid, !.res = r].pid = NoPid
      BY DEF VariantSet
    <3> QED
      BY <1>6, <3>1, <3>2 DEF WaitForChild
  <2>6. RunningPids(variants)' = Live'
    BY <2>1, <2>5 DEF RunningPids, ChildrenInv, ChildrenAccounted
  <2>7. \A i, j \in DOMAIN variants' :
            (variants'[i].pid = variants'[j].pid /\ variants'[j].pid # NoPid) => i = j
    BY <2>5 DEF ChildrenInv, ChildrenAccounted
  <2>8. ~ParentIsAlone'
    BY <1>6, <2>3 DEF WaitForChild, ParentIsAlone
  <2> QED
    BY <2>2, <2>4, <2>6, <2>7, <2>8 DEF ChildrenInv, ChildrenAccounted
<1>7. CASE PeelAccept
  <2>1. RunningPids(Tail(variants)) = Live
    BY <1>7, RunningPidsTail DEF PeelAccept, FrontIsReady, Types, ChildrenInv, ChildrenAccounted
  <2> QED
    BY <1>7, <2>1, KillemFacts DEF PeelAccept
<1>8. CASE PeelReject
  <2>1. RunningPids(variants)' = RunningPids(variants)
    BY <1>8, RunningPidsTail DEF PeelReject, FrontIsReady, Types
  <2>2. Live' = Live /\ ~ParentIsAlone'
    BY <1>8 DEF PeelReject, Live, ParentIsAlone
  <2>3. \A i, j \in DOMAIN variants' :
            (variants'[i].pid = variants'[j].pid /\ variants'[j].pid # NoPid) => i = j
    <3> SUFFICES ASSUME NEW i \in DOMAIN Tail(variants), NEW j \in DOMAIN Tail(variants),
                        Tail(variants)[i].pid = Tail(variants)[j].pid,
                        Tail(variants)[j].pid # NoPid
                 PROVE  i = j
      BY <1>8 DEF PeelReject
    <3>1. variants \in Seq(VariantSet) /\ variants # <<>>
      BY <1>8 DEF PeelReject, FrontIsReady, Types
    <3>2. /\ i + 1 \in DOMAIN variants /\ Tail(variants)[i] = variants[i + 1]
          /\ j + 1 \in DOMAIN variants /\ Tail(variants)[j] = variants[j + 1]
          /\ i \in Int /\ j \in Int
      <4>1. /\ DOMAIN variants = 1..Len(variants) /\ Len(variants) \in Nat
            /\ DOMAIN Tail(variants) = 1..(Len(variants) - 1)
        BY <3>1, TailFacts
      <4>2. /\ Tail(variants)[i] = variants[i + 1]
            /\ Tail(variants)[j] = variants[j + 1]
        BY <3>1, TailFacts
      <4> QED
        BY <4>1, <4>2
    <3>3. i + 1 = j + 1
      BY <3>2 DEF ChildrenInv, ChildrenAccounted
    <3> QED
      BY <3>2, <3>3
  <2> QED
    BY <1>8, <2>1, <2>2, <2>3 DEF PeelReject, ChildrenInv, ChildrenAccounted
<1>9. CASE GiveUp
  BY <1>9, KillemFacts DEF GiveUp, ChildrenInv, ChildrenAccounted
<1>10. CASE EndFile
  BY <1>10, ChildrenUnchanged DEF EndFile, IsFinished, Live
<1>11. ASSUME NEW pid \in Pids, ChildStep(pid) PROVE ChildrenInv'
  <2>1. Live' = Live
    BY <1>11 DEF ChildStep, TestEnds, TestTimesOut, StatusAfterTerm, ChildIsKilled, Live, Types
  <2> QED
    BY <1>11, <2>1, ChildrenUnchanged
       DEF ChildStep, TestEnds, TestTimesOut, StatusAfterTerm, ChildIsKilled, ParentIsAlone, ChildrenInv
<1>12. CASE UNCHANGED vars
  BY <1>12, ChildrenUnchanged DEF vars, Live, ParentIsAlone, ChildrenInv
<1> QED
  BY <1>1, <1>2, <1>3, <1>4, <1>5, <1>6, <1>7, <1>8, <1>9, <1>10, <1>11, <1>12
     DEF Next, ParentStep

-----------------------------------------------------------------------------
(* The shape of the speculation.                                           *)

SpeculationInv == SpeculationFresh /\ FrontierFollows /\ StopIsGenuine

\* What SpeculationFresh says of one variant, and of a list of them, for a
\* pass p, a file with content c and name b, and a directory tmp.
IsFresh(p, c, b, tmp, v) ==
    LET t == Transform(p, tmp[b], v.from)
    IN  /\ t.res = "OK" /\ t.out # c
        /\ v.newsh = t.st
        /\ v.dir = [tmp EXCEPT ![b] = t.out]

IsChain(p, c, b, tmp, vs) ==
    \A k \in DOMAIN vs :
        /\ IsFresh(p, c, b, tmp, vs[k])
        /\ k > 1 => vs[k].from = Advance(p, vs[k - 1].newsh)

\* SpeculationFresh in the form in which lists grow and shrink.
LEMMA FreshIsChain ==
    SpeculationFresh <=> (Working => IsChain(pass, disk[Fn], Base, Tmp, variants))
BY DEF SpeculationFresh, IsChain, IsFresh

\* A chain grows by a variant that follows its last element.
LEMMA ChainAppend ==
    ASSUME NEW p, NEW c, NEW b, NEW tmp,
           NEW s \in Seq(VariantSet), NEW v \in VariantSet,
           IsChain(p, c, b, tmp, s), IsFresh(p, c, b, tmp, v),
           s # <<>> => v.from = Advance(p, s[Len(s)].newsh)
    PROVE  IsChain(p, c, b, tmp, Append(s, v))
<1> DEFINE n == Len(s)
           t == Append(s, v)
<1>1. /\ n \in Nat /\ DOMAIN s = 1..n /\ DOMAIN t = 1..(n + 1)
      /\ \A i \in 1..n : t[i] = s[i]
      /\ t[n + 1] = v
  BY AppendFacts
<1> HIDE DEF t
<1>2. ASSUME NEW k \in 1..n
      PROVE  IsFresh(p, c, b, tmp, t[k]) /\ (k > 1 => t[k].from = Advance(p, t[k - 1].newsh))
  <2>1. k > 1 => k - 1 \in 1..n
    BY <1>1
  <2> QED
    BY <1>1, <2>1 DEF IsChain
<1>3. n + 1 > 1 => t[n + 1].from = Advance(p, t[(n + 1) - 1].newsh)
  <2> SUFFICES ASSUME n + 1 > 1 PROVE v.from = Advance(p, t[n].newsh)
    BY <1>1
  <2>1. s # <<>> /\ n \in 1..n
    BY <1>1
  <2> QED
    BY <1>1, <2>1
<1>4. ASSUME NEW k \in 1..(n + 1)
      PROVE  IsFresh(p, c, b, tmp, t[k]) /\ (k > 1 => t[k].from = Advance(p, t[k - 1].newsh))
  <2>1. CASE k \in 1..n
    BY <1>2, <2>1
  <2>2. CASE k = n + 1
    BY <1>1, <1>3, <2>2
  <2> QED
    BY <1>1, <2>1, <2>2
<1>5. IsChain(p, c, b, tmp, t)
  BY <1>1, <1>4 DEF IsChain
<1> QED
  BY <1>5 DEF t

\* A chain without its first element is a chain.
LEMMA ChainTail ==
    ASSUME NEW p, NEW c, NEW b, NEW tmp, NEW s \in Seq(VariantSet), s # <<>>,
           IsChain(p, c, b, tmp, s)
    PROVE  IsChain(p, c, b, tmp, Tail(s))
<1> DEFINE n == Len(s)
           t == Tail(s)
<1>1. /\ n \in Nat \ {0} /\ DOMAIN s = 1..n /\ DOMAIN t = 1..(n - 1)
      /\ \A k \in 1..(n - 1) : t[k] = s[k + 1]
  BY TailFacts
<1> HIDE DEF t
<1>2. ASSUME NEW k \in 1..(n - 1)
      PROVE  IsFresh(p, c, b, tmp, t[k]) /\ (k > 1 => t[k].from = Advance(p, t[k - 1].newsh))
  <2>1. k + 1 \in 1..n /\ k + 1 > 1 /\ (k + 1) - 1 = k
    BY <1>1
  <2>2. IsFresh(p, c, b, tmp, s[k + 1]) /\ s[k + 1].from = Advance(p, s[k].newsh)
    BY <1>1, <2>1 DEF IsChain
  <2>3. k > 1 => t[k - 1] = s[k]
    <3> SUFFICES ASSUME k > 1 PROVE t[k - 1] = s[k]
      OBVIOUS
    <3>1. k - 1 \in 1..(n - 1) /\ (k - 1) + 1 = k
      BY <1>1
    <3> QED
      BY <1>1, <3>1
  <2> QED
    BY <1>1, <2>2, <2>3
<1> QED
  BY <1>1, <1>2 DEF IsChain, t

\* The invariant says nothing of the rest of the state.
LEMMA SpeculationUnchanged ==
    ASSUME SpeculationInv, UNCHANGED <<disk, toreduce, nth, pass, variants, state, stopped, stopAt>>,
           Working' => Working
    PROVE  SpeculationInv'
BY DEF SpeculationInv, SpeculationFresh, FrontierFollows, StopIsGenuine, Frontier,
       PassIsOver, Tmp, Base, Fn

\* Nothing is listed before a pass works on a file.
LEMMA SpeculationInit == Init => SpeculationInv
BY DEF Init, SpeculationInv, SpeculationFresh, FrontierFollows, StopIsGenuine, Working

\* The speculation is extended at its end, consumed at its front, and dropped
\* whole when the file changes.
LEMMA SpeculationStep ==
    Types /\ ChildrenInv /\ SpeculationInv /\ [Next]_vars => SpeculationInv'
<1> SUFFICES ASSUME Types, ChildrenInv, SpeculationInv, [Next]_vars PROVE SpeculationInv'
  OBVIOUS
<1> USE DEF task, search, children
<1>1. CASE ~Working'
  BY <1>1 DEF SpeculationInv, SpeculationFresh, FrontierFollows, StopIsGenuine
<1>2. ASSUME NEW p \in Passes, CallPass(p) PROVE SpeculationInv'
  <2>1. ~Working'
    BY <1>2 DEF CallPass, Working
  <2> QED
    BY <1>1, <2>1
<1>3. CASE SkipEmptyFile \/ TakeCached \/ ReturnFromPass \/ EndFile \/ GiveUp
  <2>1. ~Working'
    BY <1>3 DEF SkipEmptyFile, TakeCached, ReturnFromPass, EndFile, GiveUp, ReportPassBug, Working
  <2> QED
    BY <1>1, <2>1
<1>4. CASE StartFile
  <2>1. variants' = <<>> /\ stopped' = FALSE
    BY <1>4 DEF StartFile, ChildrenInv, ParentIsAlone
  <2> QED
    BY <2>1 DEF SpeculationInv, SpeculationFresh, FrontierFollows, StopIsGenuine
<1>5. CASE PollKey \/ NothingToWaitFor \/ PeelDone \/ GotoAgain
  <2>1. /\ UNCHANGED <<disk, toreduce, nth, pass, variants, state, stopped, stopAt>>
        /\ Working' => Working
    BY <1>5 DEF PollKey, NothingToWaitFor, PeelDone, GotoAgain, Working
  <2> QED
    BY <2>1, SpeculationUnchanged
<1>6. CASE TransformStops \/ (TransformFails /\ Working')
  <2> DEFINE t == Transform(pass, Tmp[Base], state)
  <2>1. /\ UNCHANGED <<disk, toreduce, nth, pass, variants>>
        /\ Working /\ ~stopped /\ stopped' = TRUE /\ stopAt' = state
        /\ t.res # "OK" \/ t.out = disk[Fn]
    <3>1. CASE TransformStops
      BY <3>1 DEF TransformStops, MayCreate, Working
    <3>2. CASE TransformFails /\ Working'
      BY <3>2 DEF TransformFails, MayCreate, ReportPassBug, Working
    <3> QED
      BY <1>6, <3>1, <3>2
  <2>2. SpeculationFresh'
    BY <2>1 DEF SpeculationInv, SpeculationFresh, Tmp, Base, Fn
  <2>3. Frontier' = Frontier
    BY <2>1 DEF Frontier
  <2>4. FrontierFollows'
    BY <2>1, <2>3 DEF SpeculationInv, FrontierFollows
  <2>5. StopIsGenuine'
    BY <2>1 DEF StopIsGenuine, PassIsOver, Tmp, Base, Fn
  <2> QED
    BY <2>2, <2>4, <2>5 DEF SpeculationInv
<1>7. ASSUME NEW pid \in Pids, ForkTest(pid) PROVE SpeculationInv'
  <2> DEFINE t == Transform(pass, Tmp[Base], state)
             v == Variant(pid, state, t)
             n == Len(variants)
  <2>1. /\ UNCHANGED <<disk, toreduce, nth, pass, stopped, stopAt>>
        /\ Working /\ ~stopped
        /\ t.res = "OK" /\ t.out # disk[Fn]
        /\ variants' = Append(variants, v)
        /\ state' = Advance(pass, t.st)
    BY <1>7 DEF ForkTest, MayCreate, Working
  <2>2. v.from = state /\ v.newsh = t.st /\ v.dir = [Tmp EXCEPT ![Base] = t.out]
    BY DEF Variant
  <2>3. v \in VariantSet
    <3>1. t \in TransformResults /\ Tmp \in [Names -> Contents] /\ Base \in Names
      BY <2>1, TmpType
    <3> QED
      BY <3>1 DEF Variant, VariantSet, TransformResults, Types
  <2>4. /\ n \in Nat /\ DOMAIN variants = 1..n /\ DOMAIN variants' = 1..(n + 1)
        /\ \A i \in 1..n : variants'[i] = variants[i]
        /\ variants'[n + 1] = v /\ Len(variants') = n + 1
    <3> HIDE DEF v
    <3> QED
      BY <2>1, <2>3, AppendFacts DEF Types
  <2>5. Tmp' = Tmp /\ Base' = Base /\ disk'[Fn'] = disk[Fn]
    BY <2>1 DEF Tmp, Base, Fn
  <2>6. variants # <<>> => v.from = Advance(pass, variants[n].newsh)
    BY <2>1, <2>2 DEF SpeculationInv, FrontierFollows, Frontier
  <2>7. IsFresh(pass, disk[Fn], Base, Tmp, v)
    BY <2>1, <2>2 DEF IsFresh
  <2>8. SpeculationFresh'
    <3>1. IsChain(pass, disk[Fn], Base, Tmp, variants)
      BY <2>1, FreshIsChain DEF SpeculationInv
    <3>2. variants \in Seq(VariantSet)
      BY DEF Types
    <3>3. IsChain(pass, disk[Fn], Base, Tmp, variants')
      <4> HIDE DEF v
      <4> QED
        BY <2>1, <2>3, <2>6, <2>7, <3>1, <3>2, ChainAppend
    <3>4. IsChain(pass', disk'[Fn'], Base', Tmp', variants')
      BY <2>1, <2>5, <3>3
    <3> QED
      BY <3>4 DEF SpeculationFresh, IsChain, IsFresh
  <2>9. FrontierFollows'
    BY <2>1, <2>2, <2>4 DEF FrontierFollows, Frontier
  <2>10. StopIsGenuine'
    BY <2>1 DEF StopIsGenuine
  <2> QED
    BY <2>8, <2>9, <2>10 DEF SpeculationInv
<1>8. ASSUME NEW pid \in Pids, WaitForChild(pid) PROVE SpeculationInv'
  <2>1. /\ UNCHANGED <<disk, toreduce, nth, pass, state, stopped, stopAt>>
        /\ Working
    BY <1>8 DEF WaitForChild, Working
  <2>2. /\ DOMAIN variants' = DOMAIN variants /\ Len(variants') = Len(variants)
        /\ \A k \in DOMAIN variants :
               /\ variants'[k].from = variants[k].from
               /\ variants'[k].newsh = variants[k].newsh
               /\ variants'[k].dir = variants[k].dir
    <3>1. \A k \in DOMAIN variants : variants[k] \in VariantSet
      BY DEF Types
    <3>2. \A w \in VariantSet : \A r :
              LET u == [w EXCEPT !.pid = NoPid, !.res = r]
              IN  u.from = w.from /\ u.newsh = w.newsh /\ u.dir = w.dir
      BY DEF VariantSet
    <3>3. variants' \in Seq(VariantSet) /\ variants \in Seq(VariantSet)
      BY TypesStep DEF Types
    <3>4. DOMAIN variants' = DOMAIN variants
      BY <1>8 DEF WaitForChild
    <3>5. Len(variants') = Len(variants)
      BY <3>3, <3>4
    <3>6. \A k \in DOMAIN variants :
              \/ variants'[k] = variants[k]
              \/ \E r : variants'[k] = [variants[k] EXCEPT !.pid = NoPid, !.res = r]
      BY <1>8 DEF WaitForChild
    <3>7. ASSUME NEW k \in DOMAIN variants
          PROVE  /\ variants'[k].from = variants[k].from
                 /\ variants'[k].newsh = variants[k].newsh
                 /\ variants'[k].dir = variants[k].dir
      <4>1. CASE variants'[k] = variants[k]
        BY <4>1
      <4>2. CASE \E r : variants'[k] = [variants[k] EXCEPT !.pid = NoPid, !.res = r]
        BY <3>1, <3>2, <4>2
      <4> QED
        BY <3>6, <4>1, <4>2
    <3> QED
      BY <3>4, <3>5, <3>7
  <2>3. SpeculationFresh'
    BY <2>1, <2>2 DEF SpeculationInv, SpeculationFresh, Tmp, Base, Fn
  <2>4. FrontierFollows'
    <3>1. variants' # <<>> => variants # <<>> /\ Len(variants) \in DOMAIN variants
      BY <2>2 DEF Types
    <3> QED
      BY <2>1, <2>2, <3>1 DEF SpeculationInv, FrontierFollows, Frontier
  <2>5. StopIsGenuine'
    BY <2>1 DEF SpeculationInv, StopIsGenuine, PassIsOver, Tmp, Base, Fn
  <2> QED
    BY <2>3, <2>4, <2>5 DEF SpeculationInv
<1>9. CASE PeelAccept
  BY <1>9 DEF PeelAccept, Killem, SpeculationInv, SpeculationFresh, FrontierFollows, StopIsGenuine
<1>10. CASE PeelReject
  <2> DEFINE n == Len(variants)
  <2>1. /\ UNCHANGED <<disk, toreduce, nth, pass, state, stopped, stopAt>>
        /\ Working /\ variants # <<>> /\ variants \in Seq(VariantSet)
        /\ variants' = Tail(variants)
    BY <1>10 DEF PeelReject, FrontIsReady, Types, Working
  <2>2. /\ n \in Nat \ {0} /\ DOMAIN variants = 1..n
        /\ DOMAIN variants' = 1..(n - 1) /\ Len(variants') = n - 1
        /\ \A k \in 1..(n - 1) : variants'[k] = variants[k + 1]
    BY <2>1, TailFacts
  <2>3. Tmp' = Tmp /\ Base' = Base /\ disk'[Fn'] = disk[Fn]
    BY <2>1 DEF Tmp, Base, Fn
  <2>4. SpeculationFresh'
    <3>1. IsChain(pass, disk[Fn], Base, Tmp, variants)
      BY <2>1, FreshIsChain DEF SpeculationInv
    <3>2. IsChain(pass, disk[Fn], Base, Tmp, variants')
      BY <2>1, <3>1, ChainTail
    <3>3. IsChain(pass', disk'[Fn'], Base', Tmp', variants')
      BY <2>1, <2>3, <3>2
    <3> QED
      BY <3>3 DEF SpeculationFresh, IsChain, IsFresh
  <2>5. FrontierFollows'
    <3>1. CASE n = 1
      BY <2>1, <2>2, <3>1 DEF FrontierFollows
    <3>2. CASE n > 1
      <4>1. n - 1 \in 1..(n - 1) /\ (n - 1) + 1 = n
        BY <2>2, <3>2
      <4>2. variants'[Len(variants')] = variants[n]
        BY <2>2, <4>1
      <4> QED
        BY <2>1, <4>2 DEF SpeculationInv, FrontierFollows, Frontier
    <3> QED
      BY <2>2, <3>1, <3>2
  <2>6. StopIsGenuine'
    BY <2>1 DEF SpeculationInv, StopIsGenuine, PassIsOver, Tmp, Base, Fn
  <2> QED
    BY <2>4, <2>5, <2>6 DEF SpeculationInv
<1>11. ASSUME NEW pid \in Pids, ChildStep(pid) PROVE SpeculationInv'
  <2>1. /\ UNCHANGED <<disk, toreduce, nth, pass, variants, state, stopped, stopAt>>
        /\ Working' => Working
    BY <1>11 DEF ChildStep, TestEnds, TestTimesOut, StatusAfterTerm, ChildIsKilled, Working
  <2> QED
    BY <2>1, SpeculationUnchanged
<1>12. CASE UNCHANGED vars
  <2>1. /\ UNCHANGED <<disk, toreduce, nth, pass, variants, state, stopped, stopAt>>
        /\ Working' => Working
    BY <1>12 DEF vars, Working
  <2> QED
    BY <2>1, SpeculationUnchanged
<1> QED
  BY <1>1, <1>2, <1>3, <1>4, <1>5, <1>6, <1>7, <1>8, <1>9, <1>10, <1>11, <1>12
     DEF Next, ParentStep

-----------------------------------------------------------------------------
(* Verdicts.                                                               *)

\* What a verdict may say of the directory it is about.
IsHonestStatus(status, dir) ==
    /\ status = "exit0" => Interesting(dir)
    /\ (status = "exit1" /\ ~Timeouts) => ~Interesting(dir)
    /\ status # "signalled"

IsHonestResult(res, dir) ==
    /\ res = "good" => Interesting(dir)
    /\ (res = "bad" /\ ~Timeouts) => ~Interesting(dir)

HonestInv ==
    \A k \in DOMAIN variants :
        /\ IsHonestResult(variants[k].res, variants[k].dir)
        /\ variants[k].pid # NoPid => IsHonestStatus(proc[variants[k].pid], variants[k].dir)

\* There are no verdicts at first.
LEMMA HonestInit == Init => HonestInv
BY DEF Init, HonestInv

\* HonestInv speaks of the list and of the children only.
LEMMA HonestUnchanged ==
    ASSUME HonestInv, UNCHANGED <<variants, proc>>
    PROVE  HonestInv'
BY DEF HonestInv

\* The exit status of a child is the test's verdict on its own directory, and
\* wait_helper's caller files it with the variant of that child.
LEMMA HonestStep ==
    ~Signals /\ Types /\ ChildrenInv /\ HonestInv /\ [Next]_vars => HonestInv'
<1> SUFFICES ASSUME ~Signals, Types, ChildrenInv, HonestInv, [Next]_vars PROVE HonestInv'
  OBVIOUS
<1> USE DEF task, search, children
<1>1. CASE UNCHANGED <<variants, proc>>
  BY <1>1, HonestUnchanged
<1>2. ASSUME NEW p \in Passes, CallPass(p) PROVE HonestInv'
  <2>1. UNCHANGED <<variants, proc>>
    BY <1>2 DEF CallPass
  <2> QED
    BY <1>1, <2>1
<1>3. CASE \/ SkipEmptyFile \/ TakeCached \/ StartFile \/ ReturnFromPass \/ PollKey
           \/ TransformStops \/ TransformFails \/ NothingToWaitFor \/ PeelDone
           \/ EndFile \/ GotoAgain \/ UNCHANGED vars
  <2>1. UNCHANGED <<variants, proc>>
    BY <1>3 DEF SkipEmptyFile, TakeCached, StartFile, ReturnFromPass, PollKey, TransformStops,
                TransformFails, NothingToWaitFor, PeelDone, EndFile, GotoAgain, vars
  <2> QED
    BY <1>1, <2>1
<1>4. ASSUME NEW pid \in Pids, ForkTest(pid) PROVE HonestInv'
  <2> DEFINE t == Transform(pass, Tmp[Base], state)
             v == Variant(pid, state, t)
             n == Len(variants)
  <2>1. /\ v \in VariantSet /\ v.res = "pending" /\ v.pid = pid
    <3>1. t \in TransformResults /\ Tmp \in [Names -> Contents] /\ Base \in Names
      BY <1>4, TmpType DEF ForkTest, Working
    <3> QED
      BY <3>1 DEF Variant, VariantSet, TransformResults, Types
  <2>2. variants' = Append(variants, v) /\ proc' = [proc EXCEPT ![pid] = "running"]
    BY <1>4 DEF ForkTest
  <2> HIDE DEF v
  <2>3. /\ n \in Nat /\ DOMAIN variants = 1..n /\ DOMAIN variants' = 1..(n + 1)
        /\ \A i \in 1..n : variants'[i] = variants[i]
        /\ variants'[n + 1] = v
    BY <2>1, <2>2, AppendFacts DEF Types
  <2>4. ASSUME NEW k \in 1..n
        PROVE  /\ IsHonestResult(variants'[k].res, variants'[k].dir)
               /\ variants'[k].pid # NoPid =>
                      IsHonestStatus(proc'[variants'[k].pid], variants'[k].dir)
    <3>1. variants[k].pid # NoPid => variants[k].pid # pid /\ variants[k].pid \in Pids
      BY <1>4, <2>3 DEF ForkTest, ChildrenInv, ChildrenAccounted, RunningPids, Live
    <3>2. variants[k].pid # NoPid => proc'[variants[k].pid] = proc[variants[k].pid]
      BY <2>2, <3>1 DEF Types
    <3> QED
      BY <2>3, <3>2 DEF HonestInv
  <2>5. /\ IsHonestResult(variants'[n + 1].res, variants'[n + 1].dir)
        /\ IsHonestStatus(proc'[variants'[n + 1].pid], variants'[n + 1].dir)
    BY <2>1, <2>2, <2>3 DEF IsHonestResult, IsHonestStatus, Types
  <2>6. ASSUME NEW k \in DOMAIN variants'
        PROVE  /\ IsHonestResult(variants'[k].res, variants'[k].dir)
               /\ variants'[k].pid # NoPid =>
                      IsHonestStatus(proc'[variants'[k].pid], variants'[k].dir)
    <3>1. k \in 1..n \/ k = n + 1
      BY <2>3
    <3> QED
      BY <2>4, <2>5, <3>1
  <2> QED
    BY <2>6 DEF HonestInv
<1>5. ASSUME NEW pid \in Pids, WaitForChild(pid) PROVE HonestInv'
  <2>1. DOMAIN variants' = DOMAIN variants /\ proc' = [proc EXCEPT ![pid] = "none"]
    BY <1>5 DEF WaitForChild
  <2>2. ASSUME NEW k \in DOMAIN variants
        PROVE  /\ IsHonestResult(variants'[k].res, variants'[k].dir)
               /\ variants'[k].pid # NoPid =>
                      IsHonestStatus(proc'[variants'[k].pid], variants'[k].dir)
    <3>1. CASE variants[k].pid # pid
      <4>1. variants'[k] = variants[k]
        BY <1>5, <3>1 DEF WaitForChild
      <4>2. variants[k].pid # NoPid => proc'[variants[k].pid] = proc[variants[k].pid]
        BY <2>1, <3>1 DEF Types, ChildrenInv, ChildrenAccounted, RunningPids, Live
      <4> QED
        BY <4>1, <4>2 DEF HonestInv
    <3>2. CASE variants[k].pid = pid
      <4>1. variants[k] \in VariantSet
        BY DEF Types
      <4>2. /\ variants'[k].pid = NoPid /\ variants'[k].dir = variants[k].dir
            /\ variants'[k].res = IF proc[pid] = "exit1" THEN "bad" ELSE "good"
        BY <1>5, <3>2, <4>1 DEF WaitForChild, VariantSet
      <4>3. IsHonestStatus(proc[pid], variants[k].dir)
        BY <3>2, ProcsAssumption DEF HonestInv
      <4>4. proc[pid] \in {"exit0", "exit1"}
        BY <1>5, <4>3 DEF WaitForChild, Zombie, IsHonestStatus
      <4> QED
        BY <4>2, <4>3, <4>4 DEF IsHonestStatus, IsHonestResult
    <3> QED
      BY <3>1, <3>2
  <2> QED
    BY <2>1, <2>2 DEF HonestInv
<1>6. CASE PeelAccept \/ GiveUp
  <2>1. variants' = <<>>
    BY <1>6 DEF PeelAccept, GiveUp, Killem
  <2> QED
    BY <2>1 DEF HonestInv
<1>7. CASE PeelReject
  <2>1. variants \in Seq(VariantSet) /\ variants # <<>> /\ variants' = Tail(variants)
        /\ UNCHANGED proc
    BY <1>7 DEF PeelReject, FrontIsReady, Types
  <2>2. \A k \in DOMAIN variants' : k + 1 \in DOMAIN variants /\ variants'[k] = variants[k + 1]
    <3>1. /\ DOMAIN variants = 1..Len(variants) /\ Len(variants) \in Nat
          /\ DOMAIN variants' = 1..(Len(variants) - 1)
          /\ \A k \in DOMAIN variants' : variants'[k] = variants[k + 1]
      BY <2>1, TailFacts
    <3> QED
      BY <3>1
  <2> QED
    BY <2>1, <2>2 DEF HonestInv
<1>8. ASSUME NEW pid \in Pids, ChildStep(pid) PROVE HonestInv'
  <2>1. /\ UNCHANGED variants /\ ~ChildIsKilled(pid)
        /\ proc[pid] = "running"
        /\ proc' = [proc EXCEPT ![pid] = proc'[pid]]
    BY <1>8 DEF ChildStep, TestEnds, TestTimesOut, StatusAfterTerm, ChildIsKilled, Types
  <2>2. ASSUME NEW k \in DOMAIN variants, variants[k].pid # NoPid
        PROVE  IsHonestStatus(proc'[variants[k].pid], variants[k].dir)
    <3>1. CASE variants[k].pid # pid
      <4>1. proc'[variants[k].pid] = proc[variants[k].pid]
        BY <2>1, <2>2, <3>1 DEF Types, ChildrenInv, ChildrenAccounted, RunningPids, Live
      <4> QED
        BY <2>2, <4>1 DEF HonestInv
    <3>2. CASE variants[k].pid = pid
      <4>1. Tested(pid) = k
        BY <2>2, <3>2 DEF Tested, ChildrenInv, ChildrenAccounted
      <4>2. CASE TestEnds(pid)
        BY <3>2, <4>1, <4>2 DEF TestEnds, Types, IsHonestStatus
      <4>3. CASE TestTimesOut(pid)
        BY <3>2, <4>3 DEF TestTimesOut, StatusAfterTerm, Types, IsHonestStatus
      <4> QED
        BY <1>8, <2>1, <4>2, <4>3 DEF ChildStep
    <3> QED
      BY <3>1, <3>2
  <2> QED
    BY <2>1, <2>2 DEF HonestInv
<1> QED
  BY <1>2, <1>3, <1>4, <1>5, <1>6, <1>7, <1>8 DEF Next, ParentStep

-----------------------------------------------------------------------------
(* The files on disk.                                                      *)

\* The cache is off, or there is one file to reduce.
CacheIsSafe == UseCache => NumFiles = 1

\* What has to be granted for the files on disk to be interesting.
Reliable == ~Signals /\ DistinctNames /\ CacheIsSafe

DiskInv == DiskInteresting /\ CacheInteresting

\* With one file, the directory holds that file and nothing else.
LEMMA SingleFile ==
    ASSUME DistinctNames, NumFiles = 1, NEW o \in Orders,
           NEW d \in [Files -> Contents], NEW f \in Files, NEW c, d[f] = c
    PROVE  CopyFilesHere(o, d) = [n \in Names |-> c]
<1>1. Files = {f}
  BY FS_Singleton, FilesAssumption DEF NumFiles
<1>2. \A n \in Names : CopyFilesHere(o, d)[n] = c
  BY <1>1, CopyFilesHereDistinct DEF Names
<1> QED
  BY <1>2, CopyFilesHereType

\* sanity_check has run the test on the files as they are given.
LEMMA DiskInit == Init => DiskInv
<1> SUFFICES ASSUME Init PROVE DiskInv
  OBVIOUS
<1>1. DiskInteresting
  BY DEF Init, DiskInteresting
<1>2. CacheInteresting
  BY DEF Init, CacheInteresting
<1> QED
  BY <1>1, <1>2 DEF DiskInv

\* An accepted variant was tested together with the other files as they are.
LEMMA AcceptedIsTested ==
    ASSUME Types, SpeculationInv, HonestInv, DistinctNames, PeelAccept
    PROVE  Interesting(CopyFilesHere(toreduce, disk')) /\ Fn \in Files
<1> DEFINE v == variants[1]
<1>1. /\ variants # <<>> /\ Head(variants) = v /\ 1 \in DOMAIN variants
      /\ Working /\ v.res = "good"
  BY TailFacts DEF PeelAccept, FrontIsReady, FrontIsGood, Types, Working
<1>2. Interesting(v.dir)
  BY <1>1 DEF HonestInv, IsHonestResult
<1>3. /\ Fn \in Files /\ Base \in Names /\ Base = BaseName[Fn]
      /\ Tmp \in [Names -> Contents] /\ Tmp = CopyFilesHere(toreduce, disk)
  BY <1>1, TmpType DEF Base, Tmp
<1>4. v.dir = [Tmp EXCEPT ![Base] = FrontContent]
  <2>1. IsFresh(pass, disk[Fn], Base, Tmp, v)
    BY <1>1, FreshIsChain DEF SpeculationInv, IsChain
  <2> QED
    BY <1>1, <1>3, <2>1 DEF IsFresh, FrontContent
<1>5. disk' = [disk EXCEPT ![Fn] = FrontContent]
  BY DEF PeelAccept
<1>6. CopyFilesHere(toreduce, disk') = v.dir
  <2>1. /\ disk \in [Files -> Contents] /\ disk' \in [Files -> Contents] /\ toreduce \in Orders
        /\ disk'[Fn] = FrontContent
        /\ \A g \in Files : g # Fn => disk'[g] = disk[g]
    <3>1. FrontContent \in Contents
      <4>1. Head(variants) \in VariantSet
        BY <1>1, TailFacts DEF Types
      <4>2. Head(variants).dir \in [Names -> Contents]
        BY <4>1 DEF VariantSet
      <4> QED
        BY <1>3, <4>2 DEF FrontContent
    <3> HIDE DEF v
    <3> QED
      BY <1>3, <1>5, <3>1 DEF Types
  <2>2. \A n \in Names : CopyFilesHere(toreduce, disk')[n]
                           = IF n = Base THEN FrontContent ELSE Tmp[n]
    BY <1>3, <2>1, CopyFilesHereUpdate
  <2>3. CopyFilesHere(toreduce, disk') \in [Names -> Contents]
    BY <2>1, CopyFilesHereType
  <2> HIDE DEF v
  <2> QED
    BY <1>3, <1>4, <2>2, <2>3
<1> QED
  BY <1>2, <1>3, <1>6

\* DiskInv speaks of the files, their order and the cache only.
LEMMA DiskUnchanged ==
    ASSUME DiskInv, UNCHANGED <<disk, cache, toreduce>>
    PROVE  DiskInv'
BY DEF DiskInv, DiskInteresting, CacheInteresting

\* A file is only ever replaced by a tested variant or a safe cached result.
LEMMA DiskStep ==
    Reliable /\ Types /\ SpeculationInv /\ HonestInv /\ DiskInv /\ [Next]_vars => DiskInv'
<1> SUFFICES ASSUME Reliable, Types, SpeculationInv, HonestInv, DiskInv, [Next]_vars
             PROVE  DiskInv'
  OBVIOUS
<1> USE DEF task, search, children
<1>1. ASSUME NEW p \in Passes, CallPass(p) PROVE DiskInv'
  <2>1. toreduce' \in Orders /\ UNCHANGED <<disk, cache>>
    BY <1>1 DEF CallPass, Types
  <2>2. CopyFilesHere(toreduce', disk') = CopyFilesHere(toreduce, disk)
    BY <2>1, CopyFilesHereOrder DEF Reliable, Types
  <2> QED
    BY <2>1, <2>2 DEF DiskInv, DiskInteresting, CacheInteresting
<1>2. CASE TakeCached
  <2> DEFINE c == cache[pass][disk[Fn]]
  <2>1. Fn \in Files /\ disk[Fn] \in Contents
    BY <1>2 DEF TakeCached, Types, Fn, Orders
  <2>2. UseCache /\ c # NoEntry /\ disk' = [disk EXCEPT ![Fn] = c]
        /\ UNCHANGED <<cache, toreduce>>
    BY <1>2 DEF TakeCached, CacheHit
  <2>3. Interesting([n \in Names |-> c])
    BY <2>1, <2>2 DEF DiskInv, CacheInteresting, Types
  <2>4. disk'[Fn] = c /\ disk' \in [Files -> Contents]
    BY <2>1, <2>2 DEF Types, CacheHit
  <2>5. DistinctNames /\ NumFiles = 1 /\ toreduce \in Orders
    BY <2>2 DEF Reliable, CacheIsSafe, Types
  <2> HIDE DEF c
  <2>6. CopyFilesHere(toreduce, disk') = [n \in Names |-> c]
    BY <2>1, <2>4, <2>5, SingleFile
  <2>7. Interesting(CopyFilesHere(toreduce, disk'))
    BY <2>3, <2>6
  <2> QED
    BY <2>2, <2>7 DEF DiskInv, DiskInteresting, CacheInteresting
<1>3. CASE PeelAccept
  <2>1. Interesting(CopyFilesHere(toreduce, disk'))
    BY <1>3, AcceptedIsTested DEF Reliable
  <2> QED
    BY <1>3, <2>1 DEF PeelAccept, DiskInv, DiskInteresting, CacheInteresting
<1>4. CASE EndFile
  <2>1. Fn \in Files /\ UNCHANGED <<disk, toreduce>>
    BY <1>4, TmpType DEF EndFile, Working
  <2>2. CASE ~UseCache
    BY <1>4, <2>1, <2>2 DEF EndFile, DiskInv, DiskInteresting, CacheInteresting
  <2>3. CASE UseCache
    <3>1. CopyFilesHere(toreduce, disk) = [n \in Names |-> disk[Fn]]
      BY <2>1, <2>3, SingleFile DEF Reliable, CacheIsSafe, Types
    <3>2. Interesting([n \in Names |-> disk[Fn]])
      BY <3>1 DEF DiskInv, DiskInteresting
    <3>3. cache' = [cache EXCEPT ![pass][before] = disk[Fn]]
      BY <1>4, <2>3 DEF EndFile
    <3>4. CacheInteresting'
      BY <2>3, <3>2, <3>3 DEF DiskInv, CacheInteresting, Types
    <3> QED
      BY <2>1, <3>4 DEF DiskInv, DiskInteresting
  <2> QED
    BY <2>2, <2>3
<1>5. CASE \/ SkipEmptyFile \/ StartFile \/ ReturnFromPass \/ PollKey
           \/ TransformStops \/ TransformFails \/ NothingToWaitFor \/ PeelReject \/ PeelDone
           \/ GiveUp \/ GotoAgain \/ UNCHANGED vars
  BY <1>5, DiskUnchanged
     DEF SkipEmptyFile, StartFile, ReturnFromPass, PollKey, TransformStops, TransformFails,
         NothingToWaitFor, PeelReject, PeelDone, GiveUp, GotoAgain, vars
<1>6. ASSUME NEW pid \in Pids,
             ForkTest(pid) \/ WaitForChild(pid) \/ ChildStep(pid)
      PROVE  DiskInv'
  BY <1>6, DiskUnchanged
     DEF ForkTest, WaitForChild, ChildStep, TestEnds, TestTimesOut, StatusAfterTerm, ChildIsKilled
<1> QED
  BY <1>1, <1>2, <1>3, <1>4, <1>5, <1>6 DEF Next, ParentStep

-----------------------------------------------------------------------------
(* Theorems.                                                               *)

Inv == Types /\ ChildrenInv /\ SpeculationInv

\* Types, accounting and speculation hold at all times.
LEMMA Invariance == Spec => []Inv
<1>1. Init => Inv
  BY TypesInit, ChildrenInit, SpeculationInit DEF Inv
<1>2. Inv /\ [Next]_vars => Inv'
  BY TypesStep, ChildrenStep, SpeculationStep DEF Inv
<1> QED
  BY <1>1, <1>2, PTL DEF Spec

\* Every variable has its type, and $num_running stays within 0..$NPROCS.
THEOREM TypeCorrect == Spec => []TypeOK
<1>1. Inv => TypeOK
  <2> SUFFICES ASSUME Inv PROVE TypeOK
    OBVIOUS
  <2>1. numRunning \in 0..NProcs
    <3>1. Cardinality(Live) \in Nat
      BY FS_CardinalityType DEF Inv, ChildrenInv
    <3>2. numRunning = Cardinality(Live) /\ numRunning <= NProcs
      BY DEF Inv, ChildrenInv, ChildrenAccounted
    <3> HIDE DEF Live
    <3> QED
      BY <3>1, <3>2, ProcsAssumption
  <2> QED
    BY <2>1 DEF Inv, Types, TypeOK
<1> QED
  BY <1>1, Invariance, PTL

\* Every forked child is counted, listed once and waited for.
THEOREM ChildrenAreAccounted == Spec => []ChildrenAccounted
<1>1. Inv => ChildrenAccounted
  BY DEF Inv, ChildrenInv
<1> QED
  BY <1>1, Invariance, PTL

\* Parallel execution does not escape delta_pass, unless a pass bug is fatal.
THEOREM ParallelismContained == ASSUME ~DieOnPassBug PROVE Spec => []NoEscape
<1>1. Inv => NoEscape
  <2> SUFFICES ASSUME Inv, ~Working PROVE Live = {} /\ variants = <<>> /\ numRunning = 0
    BY DEF NoEscape
  <2>1. variants = <<>>
    BY DEF Inv, Types, Working, ChildrenInv, ParentIsAlone
  <2> QED
    BY <2>1, AloneFacts DEF Inv
<1> QED
  BY <1>1, Invariance, PTL

\* No variant is ever stale, each was built where its predecessor left off, and
\* the next one is built where the last one left off, also when the pass had
\* nothing to offer there.
THEOREM SpeculationStaysIntact == Spec => []SpeculationIntact
<1>1. Inv => SpeculationIntact
  BY DEF Inv, SpeculationInv, SpeculationIntact
<1> QED
  BY <1>1, Invariance, PTL

\* With distinct base names, the directory of every variant holds each of the
\* other files as it is on disk: nothing is tested against a stale neighbour.
THEOREM NoFileIsHidden == ASSUME DistinctNames PROVE Spec => []EveryFileIsTested
<1>1. Inv => EveryFileIsTested
  <2> SUFFICES ASSUME Inv, Working, NEW k \in DOMAIN variants, NEW f \in Files, f # Fn
               PROVE  variants[k].dir[BaseName[f]] = disk[f]
    BY DEF EveryFileIsTested
  <2>1. Fn \in Files /\ Tmp \in [Names -> Contents] /\ toreduce \in Orders
    BY TmpType DEF Inv, Types
  <2>2. BaseName[f] \in Names /\ BaseName[f] # Base
    BY <2>1 DEF Names, Base, DistinctNames
  <2>3. variants[k].dir = [Tmp EXCEPT ![Base] = Transform(pass, Tmp[Base], variants[k].from).out]
    BY DEF Inv, SpeculationInv, SpeculationFresh
  <2>4. variants[k].dir[BaseName[f]] = Tmp[BaseName[f]]
    BY <2>1, <2>2, <2>3
  <2> QED
    BY <2>1, <2>4, CopyFilesHereDistinct DEF Tmp
<1> QED
  BY <1>1, Invariance, PTL

\* A pass is never over because of a speculative transformation.
THEOREM NoSpeculativeStop == Spec => []StopIsGenuine
<1>1. Inv => StopIsGenuine
  BY DEF Inv, SpeculationInv
<1> QED
  BY <1>1, Invariance, PTL

\* A verdict is the test's verdict on the variant it is filed with.
THEOREM VerdictsAreHonest == Spec => []VerdictsHonest
<1>1. CASE Signals
  <2>1. VerdictsHonest
    BY <1>1 DEF VerdictsHonest
  <2> QED
    BY <2>1, PTL
<1>2. CASE ~Signals
  <2>1. Init => HonestInv
    BY HonestInit
  <2>2. Inv /\ HonestInv /\ [Next]_vars => HonestInv'
    BY <1>2, HonestStep DEF Inv
  <2>3. HonestInv => VerdictsHonest
    BY DEF HonestInv, IsHonestResult, VerdictsHonest
  <2> QED
    BY <2>1, <2>2, <2>3, Invariance, PTL DEF Spec
<1> QED
  BY <1>1, <1>2

\* After a wait, and until the next fork, a child less than allowed is running.
BelowLimit == pc \in {"peel", "check"} => numRunning < NProcs

\* Reached only by waiting for a child, or with no child to wait for.
LEMMA BelowLimitStep ==
    Types /\ ChildrenInv /\ BelowLimit /\ [Next]_vars => BelowLimit'
<1> SUFFICES ASSUME Types, ChildrenInv, BelowLimit, [Next]_vars PROVE BelowLimit'
  OBVIOUS
<1> USE DEF task, search, children
<1>1. numRunning \in Nat /\ numRunning <= NProcs /\ NProcs \in Nat \ {0}
  BY FS_CardinalityType, ProcsAssumption DEF ChildrenInv, ChildrenAccounted
<1>2. CASE UNCHANGED numRunning /\ (pc' \in {"peel", "check"} => pc \in {"peel", "check"})
  BY <1>2 DEF BelowLimit
<1>3. CASE pc' \notin {"peel", "check"}
  BY <1>3 DEF BelowLimit
<1>4. ASSUME NEW pid \in Pids, ForkTest(pid) PROVE BelowLimit'
  BY <1>3, <1>4 DEF ForkTest
<1>5. ASSUME NEW pid \in Pids, WaitForChild(pid) PROVE BelowLimit'
  <2>1. numRunning' = numRunning - 1
    BY <1>5 DEF WaitForChild
  <2> QED
    BY <1>1, <2>1 DEF BelowLimit
<1>6. CASE NothingToWaitFor
  BY <1>1, <1>6 DEF NothingToWaitFor, BelowLimit
<1>7. CASE PeelAccept
  <2>1. numRunning' = numRunning - Cardinality(RunningPids(Tail(variants))) /\ pc = "peel"
    BY <1>7 DEF PeelAccept, Killem
  <2>2. RunningPids(Tail(variants)) = Live
    BY <1>7, RunningPidsTail DEF PeelAccept, FrontIsReady, Types, ChildrenInv, ChildrenAccounted
  <2>3. Cardinality(RunningPids(Tail(variants))) \in Nat
    BY <2>2, FS_CardinalityType DEF ChildrenInv
  <2> QED
    BY <1>1, <2>1, <2>3 DEF BelowLimit
<1>8. CASE PeelReject \/ PeelDone
  BY <1>2, <1>8 DEF PeelReject, PeelDone
<1>9. CASE \/ SkipEmptyFile \/ TakeCached \/ StartFile \/ ReturnFromPass \/ PollKey
           \/ TransformStops \/ TransformFails \/ GiveUp \/ EndFile \/ GotoAgain
  BY <1>3, <1>9 DEF SkipEmptyFile, TakeCached, StartFile, ReturnFromPass, PollKey,
                    TransformStops, TransformFails, GiveUp, EndFile, GotoAgain, ReportPassBug
<1>10. ASSUME NEW p \in Passes, CallPass(p) PROVE BelowLimit'
  BY <1>3, <1>10 DEF CallPass
<1>11. ASSUME NEW pid \in Pids, ChildStep(pid) PROVE BelowLimit'
  BY <1>2, <1>11 DEF ChildStep, TestEnds, TestTimesOut, StatusAfterTerm, ChildIsKilled
<1>12. CASE UNCHANGED vars
  BY <1>2, <1>12 DEF vars
<1> QED
  BY <1>4, <1>5, <1>6, <1>7, <1>8, <1>9, <1>10, <1>11, <1>12 DEF Next, ParentStep

\* The parent never kills $NPROCS tests at once; with one process it kills none.
THEOREM FewAreKilled == Spec => FewerThanProcsAreKilled
<1> DEFINE Killed == {pid \in Pids : proc[pid] = "running" /\ proc'[pid] = "none"}
<1>1. Init => BelowLimit
  BY DEF Init, BelowLimit
<1>2. Inv /\ BelowLimit /\ [Next]_vars => BelowLimit'
  BY BelowLimitStep DEF Inv
<1>3. Inv /\ BelowLimit /\ [Next]_vars => Cardinality(Killed) < NProcs \/ UNCHANGED vars
  <2> SUFFICES ASSUME Inv, BelowLimit, Next PROVE Cardinality(Killed) < NProcs
    OBVIOUS
  <2> USE DEF task, search, children
  <2>1. IsFiniteSet(Live) /\ numRunning = Cardinality(Live) /\ Killed \subseteq Live
    BY DEF Inv, ChildrenInv, ChildrenAccounted, Live
  <2>2. CASE PeelAccept \/ GiveUp
    <3>1. numRunning < NProcs
      BY <2>2 DEF BelowLimit, PeelAccept, GiveUp
    <3>2. /\ Cardinality(Killed) \in Nat /\ Cardinality(Live) \in Nat
          /\ Cardinality(Killed) <= Cardinality(Live)
      BY <2>1, FS_Subset, FS_CardinalityType
    <3> QED
      BY <2>1, <3>1, <3>2, ProcsAssumption
  <2>3. CASE Killed = {}
    BY <2>3, FS_EmptySet, ProcsAssumption
  <2>4. ASSUME NEW pid \in Pids, ForkTest(pid) \/ WaitForChild(pid) \/ ChildStep(pid)
        PROVE  Killed = {}
    BY <2>4 DEF ForkTest, WaitForChild, ChildStep, TestEnds, TestTimesOut, StatusAfterTerm, ChildIsKilled, Zombie,
                Inv, Types
  <2>5. ASSUME proc' = proc PROVE Killed = {}
    BY <2>5
  <2>6. ASSUME NEW p \in Passes, CallPass(p) PROVE Killed = {}
    BY <2>5, <2>6 DEF CallPass
  <2>7. CASE \/ SkipEmptyFile \/ TakeCached \/ StartFile \/ ReturnFromPass \/ PollKey
             \/ TransformStops \/ TransformFails \/ NothingToWaitFor \/ PeelReject
             \/ PeelDone \/ EndFile \/ GotoAgain
    BY <2>3, <2>5, <2>7 DEF SkipEmptyFile, TakeCached, StartFile, ReturnFromPass, PollKey,
                      TransformStops, TransformFails, NothingToWaitFor, PeelReject, PeelDone,
                      EndFile, GotoAgain
  <2> QED
    BY <2>2, <2>3, <2>4, <2>6, <2>7 DEF Next, ParentStep
<1>4. Inv /\ BelowLimit /\ [Next]_vars => [Cardinality(Killed) < NProcs]_vars
  BY <1>3
<1> QED
  BY <1>1, <1>2, <1>4, Invariance, PTL DEF Spec, FewerThanProcsAreKilled

\* What the test says of the files and of the remembered results holds at all
\* times.
LEMMA DiskInvariance == ASSUME Reliable PROVE Spec => []DiskInv
<1> DEFINE J == HonestInv /\ DiskInv
<1>1. Init => J
  BY HonestInit, DiskInit
<1>2. Inv /\ J /\ [Next]_vars => J'
  BY HonestStep, DiskStep DEF Inv, Reliable
<1>3. J => DiskInv
  OBVIOUS
<1> QED
  BY <1>1, <1>2, <1>3, Invariance, PTL DEF Spec

\* The files on disk are interesting at all times, if no child is killed from
\* outside, base names differ, and the cache is not used for several files.
THEOREM DiskStaysInteresting == ASSUME Reliable PROVE Spec => []DiskInteresting
<1>1. DiskInv => DiskInteresting
  BY DEF DiskInv
<1> QED
  BY <1>1, DiskInvariance, PTL

\* Under the same conditions every result that %cache may write to a file
\* without testing it is interesting.
THEOREM CacheStaysInteresting == ASSUME Reliable PROVE Spec => []CacheInteresting
<1>1. DiskInv => CacheInteresting
  BY DEF DiskInv
<1> QED
  BY <1>1, DiskInvariance, PTL

-----------------------------------------------------------------------------
(* The parallel search is the sequential one *)

\* A variant whose child has been waited for has a verdict.
Judged ==
    \A k \in DOMAIN variants : variants[k].pid = NoPid => variants[k].res \in {"good", "bad"}

\* Judged holds of the empty list the program starts with.
LEMMA JudgedInit == Init => Judged
BY DEF Init, Judged

\* A verdict is filed in the step that marks the child as waited for.
LEMMA JudgedStep == Types /\ Judged /\ [Next]_vars => Judged'
<1> SUFFICES ASSUME Types, Judged, [Next]_vars PROVE Judged'
  OBVIOUS
<1> USE DEF task, search, children
<1>1. CASE UNCHANGED variants
  BY <1>1 DEF Judged
<1>2. CASE variants' = <<>>
  BY <1>2 DEF Judged
<1>3. ASSUME NEW pid \in Pids, ForkTest(pid) PROVE Judged'
  <2> DEFINE v == Variant(pid, state, Transform(pass, Tmp[Base], state))
  <2>1. variants' = Append(variants, v) /\ v.pid = pid /\ pid # NoPid
    BY <1>3, ProcsAssumption DEF ForkTest, Variant
  <2>2. v \in VariantSet
    <3>1. /\ Transform(pass, Tmp[Base], state) \in TransformResults
          /\ Tmp \in [Names -> Contents] /\ Base \in Names
      BY <1>3, TmpType DEF ForkTest, Working
    <3> QED
      BY <3>1 DEF Variant, VariantSet, TransformResults, Types
  <2> HIDE DEF v
  <2>3. variants \in Seq(VariantSet)
    BY DEF Types
  <2>4. \A k \in DOMAIN variants' :
          \/ k \in DOMAIN variants /\ variants'[k] = variants[k]
          \/ variants'[k] = v
    BY <2>1, <2>2, <2>3, AppendFacts
  <2> QED
    BY <2>1, <2>4 DEF Judged
<1>4. ASSUME NEW pid \in Pids, WaitForChild(pid) PROVE Judged'
  <2>1. DOMAIN variants' = DOMAIN variants
    BY <1>4 DEF WaitForChild
  <2>2. ASSUME NEW k \in DOMAIN variants
        PROVE  variants'[k] = variants[k] \/ variants'[k].res \in {"good", "bad"}
    <3>1. variants[k] \in VariantSet
      BY DEF Types
    <3>2. variants'[k] = IF variants[k].pid # pid THEN variants[k]
                         ELSE [variants[k] EXCEPT
                                 !.pid = NoPid,
                                 !.res = IF proc[pid] = "exit1" THEN "bad" ELSE "good"]
      BY <1>4 DEF WaitForChild
    <3> QED
      BY <3>1, <3>2 DEF VariantSet
  <2> QED
    BY <2>1, <2>2 DEF Judged
<1>5. CASE PeelReject
  <2>1. variants' = Tail(variants) /\ variants \in Seq(VariantSet) /\ variants # <<>>
    BY <1>5 DEF PeelReject, FrontIsReady, Types
  <2>2. \A k \in DOMAIN variants' : k + 1 \in DOMAIN variants /\ variants'[k] = variants[k + 1]
    BY <2>1, TailFacts
  <2> QED
    BY <2>2 DEF Judged
<1>6. CASE PeelAccept \/ GiveUp
  BY <1>2, <1>6 DEF PeelAccept, GiveUp, Killem
<1>7. ASSUME NEW p \in Passes, CallPass(p) PROVE Judged'
  BY <1>1, <1>7 DEF CallPass
<1>8. ASSUME NEW pid \in Pids, ChildStep(pid) PROVE Judged'
  BY <1>1, <1>8 DEF ChildStep, TestEnds, TestTimesOut, StatusAfterTerm, ChildIsKilled
<1>9. CASE \/ SkipEmptyFile \/ TakeCached \/ StartFile \/ ReturnFromPass \/ PollKey
           \/ TransformStops \/ TransformFails \/ NothingToWaitFor \/ PeelDone
           \/ EndFile \/ GotoAgain \/ UNCHANGED vars
  BY <1>1, <1>9 DEF SkipEmptyFile, TakeCached, StartFile, ReturnFromPass, PollKey,
                    TransformStops, TransformFails, NothingToWaitFor, PeelDone, EndFile,
                    GotoAgain, vars
<1> QED
  BY <1>3, <1>4, <1>5, <1>6, <1>7, <1>8, <1>9 DEF Next, ParentStep

-----------------------------------------------------------------------------
(* The operators of the instance are those of the task.                    *)

\* SequentialPass shares the task: its copies of the operators are the same.
LEMMA SameTask ==
    /\ Sequential!NumFiles = NumFiles
    /\ Sequential!Orders = Orders
    /\ \A o, d : Sequential!SortedBySize(o, d) <=> SortedBySize(o, d)
    /\ \A o, d : Sequential!CopyFilesHere(o, d) = CopyFilesHere(o, d)
    /\ \A s : Sequential!CountFailure(s) = CountFailure(s)
    /\ \A a, b : Sequential!WithinMaxWin(a, b) <=> WithinMaxWin(a, b)
    /\ \A p, c, t, s : Sequential!PassIsOver(p, c, t, s) <=> PassIsOver(p, c, t, s)
<1>1. Sequential!NumFiles = NumFiles /\ Sequential!Names = Names
  BY DEF Sequential!NumFiles, NumFiles, Sequential!Names, Names, Sequential!Cardinality, Cardinality
<1>2. Sequential!Orders = Orders
  BY <1>1 DEF Sequential!Orders, Orders
<1>3. \A o, d : Sequential!SortedBySize(o, d) <=> SortedBySize(o, d)
  BY <1>1 DEF Sequential!SortedBySize, SortedBySize
<1>4. \A o, d : Sequential!CopyFilesHere(o, d) = CopyFilesHere(o, d)
  BY DEF Sequential!CopyFilesHere, CopyFilesHere, Sequential!NumFiles, NumFiles,
         Sequential!Names, Names, Sequential!Cardinality, Cardinality
<1>5. \A s : Sequential!CountFailure(s) = CountFailure(s)
  BY DEF Sequential!CountFailure, CountFailure
<1>6. \A a, b : Sequential!WithinMaxWin(a, b) <=> WithinMaxWin(a, b)
  BY DEF Sequential!WithinMaxWin, WithinMaxWin
<1>7. \A p, c, t, s : Sequential!PassIsOver(p, c, t, s) <=> PassIsOver(p, c, t, s)
  BY DEF Sequential!PassIsOver, PassIsOver
<1> QED
  BY <1>1, <1>2, <1>3, <1>4, <1>5, <1>6, <1>7

\* The sequential search sees the same file and the same directory.
LEMMA SameFile == Sequential!Fn = Fn /\ Sequential!Tmp = Tmp
BY SameTask DEF Sequential!Fn, Fn, Sequential!Tmp, Tmp

-----------------------------------------------------------------------------
(* Steps.                                                                  *)

RefInv == Types /\ ChildrenInv /\ SpeculationInv /\ HonestInv /\ Judged

\* The front of the list, when there is one, is a variant of the file as it is.
LEMMA FrontFacts ==
    ASSUME RefInv, Working, variants # <<>>
    PROVE  LET v == variants[1]
               t == Transform(pass, Tmp[Base], SeqState)
           IN  /\ Head(variants) = v /\ SeqState = v.from
               /\ ~PassIsOver(pass, disk[Fn], Tmp[Base], SeqState)
               /\ v.newsh = t.st /\ v.dir = [Tmp EXCEPT ![Base] = t.out]
               /\ FrontContent = t.out
               /\ v.res = "good" => Interesting(v.dir)
               /\ (v.res = "bad" /\ ~Timeouts) => ~Interesting(v.dir)
               /\ v.pid = NoPid => v.res \in {"good", "bad"}
<1> DEFINE v == variants[1]
<1>1. Head(variants) = v /\ 1 \in DOMAIN variants
  BY TailFacts DEF RefInv, Types
<1>2. SeqState = v.from
  BY <1>1 DEF SeqState
<1>3. IsFresh(pass, disk[Fn], Base, Tmp, v)
  BY <1>1, FreshIsChain DEF RefInv, SpeculationInv, IsChain
<1>4. Base \in Names /\ Tmp \in [Names -> Contents]
  BY TmpType DEF RefInv
<1>5. v.dir[Base] = Transform(pass, Tmp[Base], v.from).out
  BY <1>3, <1>4 DEF IsFresh
<1>6. IsHonestResult(v.res, v.dir) /\ (v.pid = NoPid => v.res \in {"good", "bad"})
  BY <1>1 DEF RefInv, HonestInv, Judged
<1> QED
  BY <1>1, <1>2, <1>3, <1>5, <1>6 DEF IsFresh, IsHonestResult, PassIsOver, FrontContent

\* What the sequential search sees.
Seen == <<disk, cache, toreduce, nth, pass, before, since, skip>>

\* A step that changes nothing the sequential search sees is a stutter.
LEMMA Stutters ==
    ASSUME UNCHANGED Seen, SeqState' = SeqState, SeqPhase' = SeqPhase
    PROVE  UNCHANGED Sequential!vars
BY DEF Sequential!vars, Seen

\* The state and the phase between files, and while there is nothing listed.
LEMMA SeqStateFacts ==
    /\ ~Working => SeqState = NoState /\ SeqPhase = pc
    /\ Working => SeqPhase = "try"
    /\ Working /\ variants = <<>> => SeqState = Frontier
BY DEF SeqState, SeqPhase

\* Calling the pass and walking over its files.
LEMMA FilesRefine ==
    ASSUME RefInv,
           \/ \E p \in Passes : CallPass(p)
           \/ SkipEmptyFile \/ TakeCached \/ StartFile \/ ReturnFromPass
    PROVE  Sequential!Next
<1> USE DEF task, search, children
<1>1. variants = <<>> /\ numRunning = 0 /\ ~Working /\ SeqState = NoState /\ SeqPhase = pc
  <2>1. pc \in {"idle", "file"}
    BY DEF CallPass, SkipEmptyFile, TakeCached, StartFile, ReturnFromPass
  <2>2. variants = <<>> /\ numRunning = 0
    BY <2>1, AloneFacts DEF RefInv, ChildrenInv, ParentIsAlone
  <2> QED
    BY <2>1, <2>2, SeqStateFacts DEF Working
<1>2. ASSUME NEW p \in Passes, CallPass(p)
      PROVE  Sequential!CallPass(p) \/ Sequential!NothingLeft(p)
  <2>1. ~Working' /\ SeqState' = NoState /\ SeqPhase' = pc'
    <3>1. pc' \in {"exit", "file"}
      BY <1>2 DEF CallPass
    <3> QED
      BY <3>1 DEF SeqState, SeqPhase, Working
  <2>2. CASE pc' = "exit"
    <3>1. /\ \A f \in Files : Size(disk[f]) = 0
          /\ UNCHANGED <<toreduce, nth, skip>>
      BY <1>1, <1>2, <2>2 DEF CallPass
    <3> QED
      BY <1>1, <1>2, <2>1, <2>2, <3>1 DEF CallPass, Sequential!NothingLeft
  <2>3. CASE pc' = "file"
    <3>1. /\ \E f \in Files : Size(disk[f]) # 0
          /\ \E o \in Orders : SortedBySize(o, disk) /\ toreduce' = o
          /\ nth' = 1 /\ skip' = FALSE
      BY <1>1, <1>2, <2>3 DEF CallPass
    <3> QED
      BY <1>1, <1>2, <2>1, <2>3, <3>1, SameTask DEF CallPass, Sequential!CallPass
  <2> QED
    BY <1>2, <2>2, <2>3 DEF CallPass
<1>3. CASE SkipEmptyFile
  <2>1. SeqState' = NoState /\ SeqPhase' = "file"
    BY <1>3 DEF SkipEmptyFile, SeqState, SeqPhase, Working
  <2>2. Sequential!SkipEmptyFile
    BY <1>1, <1>3, <2>1, SameTask, SameFile
       DEF SkipEmptyFile, Sequential!SkipEmptyFile, Sequential!NextFile
  <2> QED
    BY <2>2 DEF Sequential!Next
<1>4. CASE TakeCached
  <2>1. SeqState' = NoState /\ SeqPhase' = "file"
    BY <1>4 DEF TakeCached, SeqState, SeqPhase, Working
  <2>2. Sequential!TakeCached
    BY <1>1, <1>4, <2>1, SameTask, SameFile
       DEF TakeCached, CacheHit, Sequential!TakeCached, Sequential!NextFile
  <2> QED
    BY <2>2 DEF Sequential!Next
<1>5. CASE StartFile
  <2>1. SeqState' = New(pass) /\ SeqPhase' = "try"
    BY <1>1, <1>5 DEF StartFile, SeqState, SeqPhase, Working, Frontier
  <2>2. Sequential!StartFile
    BY <1>1, <1>5, <2>1, SameTask, SameFile DEF StartFile, CacheHit, Sequential!StartFile
  <2> QED
    BY <2>2 DEF Sequential!Next
<1>6. CASE ReturnFromPass
  <2>1. SeqState' = NoState /\ SeqPhase' = "idle"
    BY <1>6 DEF ReturnFromPass, SeqState, SeqPhase, Working
  <2>2. Sequential!ReturnFromPass
    BY <1>1, <1>6, <2>1, SameTask DEF ReturnFromPass, Sequential!ReturnFromPass
  <2> QED
    BY <2>2 DEF Sequential!Next
<1> QED
  BY <1>2, <1>3, <1>4, <1>5, <1>6 DEF Sequential!Next

\* Steps of the parent that only prepare variants or wait for their tests
\* change nothing the sequential search sees, unless a pass bug is fatal.
LEMMA SpeculationStutters ==
    ASSUME RefInv,
           \/ TransformStops \/ TransformFails
           \/ \E pid \in Pids : ForkTest(pid) \/ WaitForChild(pid)
           \/ NothingToWaitFor \/ PeelDone \/ GotoAgain
    PROVE  Sequential!Die \/ UNCHANGED Sequential!vars
<1> USE DEF task, search, children
<1>1. ASSUME TransformStops \/ TransformFails, pc' # "exit"
      PROVE  UNCHANGED Sequential!vars
  <2>1. /\ pc = "fill" /\ pc' = "fill" /\ ~stopped /\ stopped' /\ stopAt' = state
        /\ UNCHANGED <<variants>> /\ UNCHANGED Seen
    BY <1>1 DEF TransformStops, TransformFails, MayCreate, ReportPassBug, Seen
  <2>2. SeqState' = SeqState /\ SeqPhase' = SeqPhase
    BY <2>1 DEF SeqState, SeqPhase, Frontier, Working
  <2> QED
    BY <2>1, <2>2, Stutters
<1>2. ASSUME TransformFails, pc' = "exit"
      PROVE  Sequential!Die
  <2>1. pc = "fill" /\ DieOnPassBug
    BY <1>2 DEF TransformFails, ReportPassBug, BugIsFatal
  <2>2. SeqPhase = "try" /\ SeqPhase' = "exit" /\ SeqState' = NoState
    BY <1>2, <2>1 DEF SeqState, SeqPhase, Working
  <2> QED
    BY <1>2, <2>1, <2>2 DEF TransformFails, Sequential!Die
<1>3. ASSUME NEW pid \in Pids, ForkTest(pid)
      PROVE  UNCHANGED Sequential!vars
  <2> DEFINE v == Variant(pid, state, Transform(pass, Tmp[Base], state))
  <2>1. /\ pc = "fill" /\ pc' = "fill" /\ ~stopped /\ UNCHANGED Seen
        /\ variants' = Append(variants, v) /\ v.from = state
    BY <1>3 DEF ForkTest, MayCreate, Seen, Variant
  <2>2. v \in VariantSet
    <3>1. /\ Transform(pass, Tmp[Base], state) \in TransformResults
          /\ Tmp \in [Names -> Contents] /\ Base \in Names
      BY <2>1, TmpType DEF RefInv, Working
    <3> QED
      BY <3>1 DEF Variant, VariantSet, TransformResults, RefInv, Types
  <2> HIDE DEF v
  <2>3. variants' # <<>> /\ Head(variants') = IF variants = <<>> THEN v ELSE Head(variants)
    <3>1. variants \in Seq(VariantSet)
      BY DEF RefInv, Types
    <3> QED
      BY <2>1, <2>2, <3>1
  <2>4. SeqState' = SeqState /\ SeqPhase' = SeqPhase
    BY <2>1, <2>3 DEF SeqState, SeqPhase, Frontier, Working
  <2> QED
    BY <2>1, <2>4, Stutters
<1>4. ASSUME NEW pid \in Pids, WaitForChild(pid)
      PROVE  UNCHANGED Sequential!vars
  <2>1. \E k \in DOMAIN variants : variants[k].pid = pid
    <3>1. pid \in Live
      BY <1>4 DEF WaitForChild, Zombie, Live
    <3> QED
      BY <3>1 DEF RefInv, ChildrenInv, ChildrenAccounted, RunningPids
  <2>2. pc = "fill" /\ pc' = "peel" /\ UNCHANGED <<state, stopped, stopAt>> /\ UNCHANGED Seen
    BY <1>4, <2>1 DEF WaitForChild, Seen
  <2>3. variants # <<>> /\ 1 \in DOMAIN variants /\ variants[1] \in VariantSet
    BY <2>1, TailFacts DEF RefInv, Types
  <2>4. variants' # <<>> /\ Head(variants').from = Head(variants).from
    <3>1. DOMAIN variants' = DOMAIN variants /\ variants' \in Seq(VariantSet)
      BY <1>4, TypesStep DEF WaitForChild, RefInv, Types, Next, ParentStep
    <3>2. variants'[1] = IF variants[1].pid # pid THEN variants[1]
                         ELSE [variants[1] EXCEPT
                                 !.pid = NoPid,
                                 !.res = IF proc[pid] = "exit1" THEN "bad" ELSE "good"]
      BY <1>4, <2>3 DEF WaitForChild
    <3>3. variants'[1].from = variants[1].from
      BY <2>3, <3>2 DEF VariantSet
    <3>4. Head(variants) = variants[1]
      BY <2>3, TailFacts DEF RefInv, Types
    <3>5. variants' # <<>> /\ Head(variants') = variants'[1]
      BY <2>3, <3>1
    <3> QED
      BY <3>3, <3>4, <3>5
  <2>5. SeqState' = SeqState /\ SeqPhase' = SeqPhase
    BY <2>2, <2>3, <2>4 DEF SeqState, SeqPhase, Working
  <2> QED
    BY <2>2, <2>5, Stutters
<1>5. CASE NothingToWaitFor \/ PeelDone \/ GotoAgain
  <2>1. UNCHANGED <<variants, state, stopped, stopAt>> /\ UNCHANGED Seen /\ Working /\ Working'
    BY <1>5 DEF NothingToWaitFor, PeelDone, GotoAgain, Seen, Working
  <2>2. SeqState' = SeqState /\ SeqPhase' = SeqPhase
    BY <2>1 DEF SeqState, SeqPhase, Frontier
  <2> QED
    BY <2>1, <2>2, Stutters
<1>6. TransformStops => pc' # "exit"
  BY DEF TransformStops
<1> QED
  BY <1>1, <1>2, <1>3, <1>4, <1>5, <1>6

\* A step of a child is not seen.
LEMMA ChildStutters ==
    ASSUME NEW pid \in Pids, ChildStep(pid)
    PROVE  UNCHANGED Sequential!vars
<1> USE DEF task, search, children
<1>1. UNCHANGED <<variants, state, stopped, stopAt, pc>> /\ UNCHANGED Seen
  BY DEF ChildStep, TestEnds, TestTimesOut, StatusAfterTerm, ChildIsKilled, Seen
<1>2. SeqState' = SeqState /\ SeqPhase' = SeqPhase
  BY <1>1 DEF SeqState, SeqPhase, Frontier, Working
<1> QED
  BY <1>1, <1>2, Stutters

\* Pressing the key is seen when it was not pressed before.
LEMMA KeyRefines ==
    ASSUME RefInv, PollKey
    PROVE  Sequential!PressSkip \/ UNCHANGED Sequential!vars
<1> USE DEF task, search, children
<1>1. /\ UNCHANGED <<variants, state, stopped, stopAt>>
      /\ UNCHANGED <<disk, cache, toreduce, nth, pass, before, since>>
      /\ pc = "again" /\ pc' = "fill" /\ (skip' = skip \/ skip' = TRUE)
  BY DEF PollKey
<1>2. SeqState' = SeqState /\ SeqPhase' = SeqPhase /\ SeqPhase = "try"
  BY <1>1 DEF SeqState, SeqPhase, Frontier, Working
<1>3. CASE skip' = skip
  BY <1>1, <1>2, <1>3, Stutters DEF Seen
<1>4. CASE skip' = TRUE
  BY <1>1, <1>2, <1>4 DEF Sequential!PressSkip
<1> QED
  BY <1>1, <1>3, <1>4

\* The list without its first element is empty or begins with the second.
LEMMA SecondFacts ==
    ASSUME NEW S, NEW s \in Seq(S), s # <<>>
    PROVE  /\ Len(s) = 1 => Tail(s) = <<>>
           /\ Len(s) # 1 => /\ 2 \in DOMAIN s /\ Tail(s) # <<>>
                            /\ Head(Tail(s)) = s[2]
<1> DEFINE r == Tail(s)
<1>1. /\ r \in Seq(S) /\ Len(s) \in Nat \ {0} /\ Len(r) = Len(s) - 1
      /\ DOMAIN s = 1..Len(s)
      /\ \A k \in DOMAIN r : r[k] = s[k + 1]
  BY TailFacts
<1> HIDE DEF r
<1>2. Len(s) = 1 => r = <<>>
  <2> SUFFICES ASSUME Len(s) = 1, r # <<>> PROVE FALSE
    OBVIOUS
  <2>1. Len(r) \in Nat \ {0}
    BY <1>1, EmptySeq
  <2> QED
    BY <1>1, <2>1
<1>3. ASSUME Len(s) # 1
      PROVE  2 \in DOMAIN s /\ r # <<>> /\ Head(r) = s[2]
  <2>1. Len(r) \in Nat \ {0} /\ 2 \in DOMAIN s
    BY <1>1, <1>3
  <2>2. r # <<>>
    BY <2>1, EmptySeq
  <2>3. Head(r) = r[1] /\ DOMAIN r = 1..Len(r)
    BY <1>1, <2>2, TailFacts
  <2>4. r[1] = s[2]
    BY <1>1, <2>1, <2>3
  <2> QED
    BY <2>1, <2>2, <2>3, <2>4
<1> QED
  BY <1>2, <1>3 DEF r

\* Using a verdict is one attempt of the sequential search.
LEMMA VerdictRefines ==
    ASSUME RefInv, PeelAccept \/ PeelReject
    PROVE  Sequential!Accept \/ Sequential!Reject
<1> USE DEF task, search, children
<1> DEFINE v == variants[1]
           t == Transform(pass, Tmp[Base], SeqState)
<1>1. variants # <<>> /\ Working /\ Working' /\ Head(variants).pid = NoPid
  BY DEF PeelAccept, PeelReject, FrontIsReady, Working
<1>2. /\ Head(variants) = v /\ SeqState = v.from
      /\ ~PassIsOver(pass, disk[Fn], Tmp[Base], SeqState)
      /\ v.newsh = t.st /\ v.dir = [Tmp EXCEPT ![Base] = t.out]
      /\ FrontContent = t.out
      /\ v.res = "good" => Interesting(v.dir)
      /\ (v.res = "bad" /\ ~Timeouts) => ~Interesting(v.dir)
      /\ v.res \in {"good", "bad"}
  BY <1>1, FrontFacts
<1>3. SeqPhase = "try" /\ SeqPhase' = "try"
  BY <1>1 DEF SeqPhase
<1>4. /\ Sequential!Try = t /\ Sequential!Candidate = v.dir
      /\ ~Sequential!Over
  <2>1. Sequential!Try = t
    BY SameFile DEF Sequential!Try, Base
  <2> HIDE DEF t
  <2>2. Sequential!Candidate = v.dir
    BY <1>2, <2>1, SameFile DEF Sequential!Candidate, Base
  <2>3. ~Sequential!Over
    BY <1>2, SameTask, SameFile DEF Sequential!Over, Base
  <2> QED
    BY <2>1, <2>2, <2>3
<1> HIDE DEF v, t
<1>5. CASE PeelAccept
  <2>1. SeqState' = t.st
    BY <1>1, <1>2, <1>5 DEF PeelAccept, Killem, SeqState, Frontier
  <2>2. /\ Interesting(v.dir) /\ WithinMaxWin(disk[Fn], t.out)
        /\ disk' = [disk EXCEPT ![Fn] = t.out] /\ since' = 0
        /\ UNCHANGED <<cache, toreduce, nth, pass, before, skip>>
    BY <1>2, <1>5 DEF PeelAccept, FrontIsGood
  <2>3. Sequential!Accept
    BY <1>3, <1>4, <2>1, <2>2, SameTask, SameFile DEF Sequential!Accept
  <2> QED
    BY <2>3
<1>6. CASE PeelReject
  <2>1. SeqState' = Advance(pass, t.st)
    <3>1. variants' = Tail(variants) /\ UNCHANGED <<pass, state, stopped, stopAt>>
      BY <1>6 DEF PeelReject
    <3>2. variants \in Seq(VariantSet) /\ variants # <<>> /\ v.newsh = t.st
      BY <1>1, <1>2 DEF RefInv, Types
    <3>3. CASE Len(variants) = 1
      <4>1. Tail(variants) = <<>>
        BY <3>2, <3>3, SecondFacts
      <4>2. Frontier = Advance(pass, v.newsh)
        BY <1>1, <3>3 DEF RefInv, SpeculationInv, FrontierFollows, v
      <4>3. Frontier' = Frontier
        BY <3>1 DEF Frontier
      <4>4. SeqState' = Frontier'
        BY <1>1, <3>1, <4>1 DEF SeqState
      <4> QED
        BY <3>2, <4>2, <4>3, <4>4
    <3>4. CASE Len(variants) # 1
      <4>1. /\ 2 \in DOMAIN variants /\ 2 - 1 = 1
            /\ Tail(variants) # <<>> /\ Head(Tail(variants)) = variants[2]
        BY <3>2, <3>4, SecondFacts
      <4>2. variants[2].from = Advance(pass, variants[1].newsh)
        BY <1>1, <4>1, FreshIsChain DEF RefInv, SpeculationInv, IsChain
      <4>3. SeqState' = variants[2].from
        BY <1>1, <3>1, <4>1 DEF SeqState
      <4> QED
        BY <3>2, <4>2, <4>3 DEF v
    <3> QED
      BY <3>3, <3>4
  <2>2. \/ Timeouts
        \/ ~Interesting(v.dir)
        \/ ~WithinMaxWin(disk[Fn], t.out)
    BY <1>2, <1>6 DEF PeelReject, FrontIsGood
  <2>3. Sequential!Reject
    BY <1>3, <1>4, <1>6, <2>1, <2>2, SameTask, SameFile DEF PeelReject, Sequential!Reject
  <2> QED
    BY <2>3
<1> QED
  BY <1>5, <1>6

\* The end of a file, by giving up or by the end of the pass.
LEMMA EndRefines ==
    ASSUME RefInv, GiveUp \/ EndFile
    PROVE  Sequential!GiveUp \/ Sequential!EndFile \/ Sequential!Die
<1> USE DEF task, search, children
<1>1. pc = "check" /\ Working /\ SeqPhase = "try"
  BY DEF GiveUp, EndFile, Working, SeqPhase
<1>2. CASE GiveUp
  <2>1. /\ GiveUpConstant # 0 /\ since > GiveUpConstant
        /\ UNCHANGED <<disk, cache, toreduce, pass, before, since, skip>>
    BY <1>2 DEF GiveUp, IsStuck
  <2>2. CASE BugIsFatal
    <3>1. pc' = "exit" /\ nth' = nth /\ DieOnPassBug
      BY <1>2, <2>2 DEF GiveUp, ReportPassBug, BugIsFatal
    <3>2. SeqPhase' = "exit" /\ SeqState' = NoState
      BY <3>1 DEF SeqState, SeqPhase, Working
    <3> QED
      BY <1>1, <2>1, <3>1, <3>2 DEF Sequential!Die
  <2>3. CASE ~BugIsFatal
    <3>1. pc' = "file" /\ nth' = nth + 1
      BY <1>2, <2>3 DEF GiveUp, ReportPassBug
    <3>2. SeqPhase' = "file" /\ SeqState' = NoState
      BY <3>1 DEF SeqState, SeqPhase, Working
    <3> QED
      BY <1>1, <2>1, <3>1, <3>2 DEF Sequential!GiveUp, Sequential!NextFile
  <2> QED
    BY <2>2, <2>3
<1>3. CASE EndFile
  <2>1. /\ pc' = "file" /\ nth' = nth + 1 /\ variants = <<>> /\ (skip \/ stopped)
        /\ cache' = IF UseCache THEN [cache EXCEPT ![pass][before] = disk[Fn]] ELSE cache
        /\ UNCHANGED <<disk, toreduce, pass, before, since, skip>>
    BY <1>3 DEF EndFile, IsFinished
  <2>2. SeqPhase' = "file" /\ SeqState' = NoState
    BY <2>1 DEF SeqState, SeqPhase, Working
  <2>3. stopped => Sequential!Over
    <3>1. stopped => SeqState = stopAt /\ PassIsOver(pass, disk[Fn], Tmp[Base], stopAt)
      BY <1>1, <2>1 DEF SeqState, Frontier, RefInv, SpeculationInv, StopIsGenuine
    <3> QED
      BY <3>1, SameTask, SameFile DEF Sequential!Over, Base
  <2>4. Sequential!EndFile
    BY <1>1, <2>1, <2>2, <2>3, SameFile DEF Sequential!EndFile, Sequential!NextFile
  <2> QED
    BY <2>4
<1> QED
  BY <1>2, <1>3

\* Every step of the parallel search is a step of the sequential one, or a
\* stutter.
LEMMA StepRefines ==
    RefInv /\ [Next]_vars => [Sequential!Next]_(Sequential!vars)
<1> SUFFICES ASSUME RefInv, [Next]_vars PROVE Sequential!Next \/ UNCHANGED Sequential!vars
  OBVIOUS
<1>1. CASE \/ \E p \in Passes : CallPass(p)
           \/ SkipEmptyFile \/ TakeCached \/ StartFile \/ ReturnFromPass
  BY <1>1, FilesRefine
<1>2. CASE \/ TransformStops \/ TransformFails
           \/ \E pid \in Pids : ForkTest(pid) \/ WaitForChild(pid)
           \/ NothingToWaitFor \/ PeelDone \/ GotoAgain
  BY <1>2, SpeculationStutters DEF Sequential!Next
<1>3. CASE PollKey
  BY <1>3, KeyRefines DEF Sequential!Next
<1>4. CASE PeelAccept \/ PeelReject
  BY <1>4, VerdictRefines DEF Sequential!Next
<1>5. CASE GiveUp \/ EndFile
  BY <1>5, EndRefines DEF Sequential!Next
<1>6. ASSUME NEW pid \in Pids, ChildStep(pid) PROVE UNCHANGED Sequential!vars
  BY <1>6, ChildStutters
<1>7. CASE UNCHANGED vars
  <2>1. UNCHANGED Seen /\ SeqState' = SeqState /\ SeqPhase' = SeqPhase
    BY <1>7 DEF vars, task, search, children, Seen, SeqState, SeqPhase, Frontier, Working
  <2> QED
    BY <2>1, Stutters
<1> QED
  BY <1>1, <1>2, <1>3, <1>4, <1>5, <1>6, <1>7 DEF Next, ParentStep

\* The initial states are the same.
LEMMA InitRefines == Init => Sequential!Init
<1> SUFFICES ASSUME Init PROVE Sequential!Init
  OBVIOUS
<1>1. SeqState = NoState /\ SeqPhase = "idle"
  BY DEF Init, SeqState, SeqPhase, Working
<1> QED
  BY <1>1, SameTask DEF Init, Sequential!Init

-----------------------------------------------------------------------------
\* delta_pass with any number of processes does nothing that a search with one
\* test at a time could not do, as long as no child is killed from outside.
THEOREM ParallelIsSequential == ASSUME ~Signals PROVE Spec => RefinesSequential
<1>1. Init => RefInv
  BY TypesInit, ChildrenInit, SpeculationInit, HonestInit, JudgedInit DEF RefInv
<1>2. RefInv /\ [Next]_vars => RefInv'
  BY TypesStep, ChildrenStep, SpeculationStep, HonestStep, JudgedStep DEF RefInv
<1>3. RefInv /\ [Next]_vars => [Sequential!Next]_(Sequential!vars)
  BY StepRefines
<1> QED
  BY <1>1, <1>2, <1>3, InitRefines, PTL DEF Spec, Sequential!Spec, RefinesSequential

-----------------------------------------------------------------------------
(***************************************************************************)
(* What %cache remembers.  When nothing disturbs a pass on a single file,  *)
(* the search that has begun with a content and the first pass state is at *)
(* all times on the way to what the pass makes of that content, however    *)
(* many tests run at the same time; so what it leaves at its end, and      *)
(* stores, is that.                                                        *)
(***************************************************************************)

\* One file; no test times out or dies of a signal, and nobody presses the key.
Undisturbed == ~Signals /\ ~Timeouts /\ ~SkipKey /\ NumFiles = 1

\* RunToEnd is a solution of its equation, which has one.
LEMMA RunToEndStep ==
    ASSUME NEW p \in Passes, NEW c \in Contents, NEW s \in States
    PROVE  RunToEnd(p)[<<c, s>>] = IF PassIsOver(p, c, c, s) THEN c
                                   ELSE RunToEnd(p)[Attempt(p, c, s)]
<1> DEFINE D == Contents \X States
           stop == {e \in D : PassIsOver(p, e[1], e[1], e[2])}
           res == [e \in D |-> e[1]]
           step == [e \in D |-> Attempt(p, e[1], e[2])]
           Run(f) == f = [e \in D |-> IF PassIsOver(p, e[1], e[1], e[2]) THEN e[1]
                                      ELSE f[Attempt(p, e[1], e[2])]]
<1>1. res \in [D -> Contents]
  OBVIOUS
<1>2. \A d \in Contents, r \in States : Attempt(p, d, r) \in D
  BY PassAssumption DEF Attempt, TransformResults
<1>3. step \in [D -> D]
  BY <1>2
<1>4. \E f \in [D -> Contents] : IsLoop(f, D, stop, res, step)
  <2> HIDE DEF D, stop, res, step
  <2> QED
    BY <1>1, <1>3, LoopExists
<1>5. \E f : Run(f)
  <2>1. PICK f \in [D -> Contents] : IsLoop(f, D, stop, res, step)
    BY <1>4
  <2>2. ASSUME NEW e \in D
        PROVE  f[e] = IF PassIsOver(p, e[1], e[1], e[2]) THEN e[1] ELSE f[Attempt(p, e[1], e[2])]
    BY <2>1 DEF IsLoop
  <2>3. Run(f)
    BY <2>1, <2>2
  <2> QED
    BY <2>3
<1>6. RunToEnd(p) = CHOOSE f : Run(f)
  BY DEF RunToEnd
<1>7. Run(RunToEnd(p))
  <2> HIDE DEF Run
  <2> QED
    BY <1>5, <1>6
<1> QED
  BY <1>7

\* With one file, the directory holds that file and nothing else.
LEMMA SingleDirectory ==
    ASSUME Undisturbed, Types, Working
    PROVE  /\ Fn \in Files /\ Base \in Names /\ disk[Fn] \in Contents
           /\ Tmp[Base] = disk[Fn]
           /\ \A c : [Tmp EXCEPT ![Base] = c] = [n \in Names |-> c]
<1>1. /\ Fn \in Files /\ Base \in Names /\ Tmp \in [Names -> Contents]
      /\ disk \in [Files -> Contents] /\ toreduce \in Orders
  BY TmpType DEF Types
<1>2. Files = {Fn}
  BY <1>1, FS_Singleton, FilesAssumption DEF Undisturbed, NumFiles
<1>3. Names = {Base} /\ DistinctNames
  BY <1>2 DEF Names, Base, DistinctNames
<1>4. Tmp[Base] = disk[Fn]
  BY <1>1, <1>3, CopyFilesHereDistinct DEF Tmp, Base
<1>5. \A c : [Tmp EXCEPT ![Base] = c] = [n \in Names |-> c]
  BY <1>1, <1>3
<1> QED
  BY <1>1, <1>4, <1>5

\* The pass is on its way to what it makes of the content it began with.
OnTheWay ==
    Working => RunToEnd(pass)[<<before, New(pass)>>] = RunToEnd(pass)[<<disk[Fn], SeqState>>]

CacheRunInv == skip = FALSE /\ OnTheWay /\ CacheComplete

\* The sequential search tries variants exactly while delta_pass works on a file.
LEMMA TryIsWorking == ASSUME RefInv, SeqPhase = "try" PROVE Working
BY DEF RefInv, Types, SeqPhase, Working

\* The state of the sequential search is a state of the pass.
LEMMA SeqStateType == ASSUME RefInv, Working PROVE SeqState \in States
<1>1. CASE variants = <<>>
  BY <1>1 DEF SeqState, Frontier, RefInv, Types
<1>2. CASE variants # <<>>
  <2>1. Head(variants) \in VariantSet
    BY <1>2, TailFacts DEF RefInv, Types
  <2> QED
    BY <1>2, <2>1 DEF SeqState, VariantSet
<1> QED
  BY <1>1, <1>2

\* An attempt of the sequential search goes one step along the way.
LEMMA AttemptStep ==
    ASSUME Undisturbed, RefInv, OnTheWay, Sequential!Accept \/ Sequential!Reject, Working'
    PROVE  OnTheWay'
<1> DEFINE t == Transform(pass, disk[Fn], SeqState)
<1>1. Working
  BY TryIsWorking DEF Sequential!Accept, Sequential!Reject
<1>2. /\ Fn \in Files /\ Base \in Names /\ disk[Fn] \in Contents
      /\ Tmp[Base] = disk[Fn]
      /\ \A c : [Tmp EXCEPT ![Base] = c] = [n \in Names |-> c]
      /\ SeqState \in States /\ pass \in Passes
      /\ disk \in [Files -> Contents]
  BY <1>1, SingleDirectory, SeqStateType DEF RefInv, Types
<1>3. /\ Sequential!Try = t /\ Sequential!Candidate = [n \in Names |-> t.out]
      /\ Sequential!Over <=> PassIsOver(pass, disk[Fn], disk[Fn], SeqState)
  <2>1. Sequential!Try = t
    BY <1>2, SameFile DEF Sequential!Try, Base
  <2>2. Sequential!Candidate = [Tmp EXCEPT ![Base] = t.out]
    BY <2>1, SameFile DEF Sequential!Candidate, Base
  <2>3. Sequential!Over <=> PassIsOver(pass, disk[Fn], disk[Fn], SeqState)
    BY <1>2, SameTask, SameFile DEF Sequential!Over, Base
  <2> QED
    BY <1>2, <2>1, <2>2, <2>3
<1> HIDE DEF t
<1>4. RunToEnd(pass)[<<disk[Fn], SeqState>>] = RunToEnd(pass)[Attempt(pass, disk[Fn], SeqState)]
  BY <1>2, <1>3, RunToEndStep DEF Sequential!Accept, Sequential!Reject
<1>5. /\ UNCHANGED <<pass, before, toreduce, nth>> /\ Fn' = Fn
      /\ Attempt(pass, disk[Fn], SeqState) = <<disk'[Fn], SeqState'>>
  <2>1. CASE Sequential!Accept
    BY <1>2, <1>3, <2>1, SameFile, SameTask DEF Sequential!Accept, Attempt, t, Fn
  <2>2. CASE Sequential!Reject
    BY <1>2, <1>3, <2>2, SameFile, SameTask DEF Sequential!Reject, Attempt, t, Fn, Undisturbed
  <2> QED
    BY <2>1, <2>2
<1> QED
  BY <1>1, <1>4, <1>5 DEF OnTheWay

\* At the end of the pass there is no way left to go, and what is remembered is
\* where the way led.
LEMMA EndStep ==
    ASSUME Undisturbed, RefInv, CacheRunInv, Sequential!EndFile
    PROVE  CacheComplete'
<1>1. Working
  BY TryIsWorking DEF Sequential!EndFile
<1>2. /\ Fn \in Files /\ disk[Fn] \in Contents /\ Tmp[Base] = disk[Fn]
      /\ SeqState \in States /\ pass \in Passes /\ before \in Contents
      /\ cache \in [Passes -> [Contents -> Contents \cup {NoEntry}]]
  BY <1>1, SingleDirectory, SeqStateType DEF RefInv, Types
<1>3. PassIsOver(pass, disk[Fn], disk[Fn], SeqState)
  BY <1>2, SameTask, SameFile DEF Sequential!EndFile, Sequential!Over, Base, CacheRunInv
<1>4. RunToEnd(pass)[<<before, New(pass)>>] = disk[Fn]
  BY <1>1, <1>2, <1>3, RunToEndStep DEF CacheRunInv, OnTheWay
<1>5. cache' = cache \/ cache' = [cache EXCEPT ![pass][before] = disk[Fn]]
  BY SameFile DEF Sequential!EndFile
<1>6. ASSUME NEW p \in Passes, NEW c \in Contents, cache'[p][c] # NoEntry
      PROVE  cache'[p][c] = RunToEnd(p)[<<c, New(p)>>]
  <2>1. CASE cache'[p][c] = cache[p][c]
    BY <1>6, <2>1 DEF CacheRunInv, CacheComplete
  <2>2. CASE cache'[p][c] # cache[p][c]
    <3>1. p = pass /\ c = before /\ cache'[p][c] = disk[Fn]
      BY <1>2, <1>5, <2>2
    <3> QED
      BY <1>4, <3>1
  <2> QED
    BY <2>1, <2>2
<1> QED
  BY <1>6 DEF CacheComplete

\* Every step keeps what is remembered complete.
LEMMA CacheRunStep ==
    Undisturbed /\ RefInv /\ CacheRunInv /\ [Next]_vars => CacheRunInv'
<1> SUFFICES ASSUME Undisturbed, RefInv, CacheRunInv, [Next]_vars PROVE CacheRunInv'
  OBVIOUS
<1>1. skip' = FALSE
  BY DEF CacheRunInv, Undisturbed, Next, ParentStep, ChildStep, vars, task, search, children,
         CallPass, SkipEmptyFile, TakeCached, StartFile, ReturnFromPass, PollKey, TransformStops,
         TransformFails, ForkTest, WaitForChild, NothingToWaitFor, PeelAccept, PeelReject, PeelDone,
         GiveUp, EndFile, GotoAgain, TestEnds, TestTimesOut, StatusAfterTerm, ChildIsKilled
<1>2. Sequential!Next \/ UNCHANGED Sequential!vars
  BY StepRefines
<1>3. SeqPhase' # "try" => ~Working'
  BY DEF SeqPhase
<1>4. CASE Sequential!Accept \/ Sequential!Reject
  <2>1. OnTheWay'
    BY <1>4, AttemptStep DEF CacheRunInv, OnTheWay
  <2>2. CacheComplete'
    BY <1>4 DEF CacheRunInv, CacheComplete, Sequential!Accept, Sequential!Reject
  <2> QED
    BY <1>1, <2>1, <2>2 DEF CacheRunInv
<1>5. CASE Sequential!EndFile
  <2>1. ~Working'
    BY <1>3, <1>5 DEF Sequential!EndFile, Sequential!NextFile
  <2> QED
    BY <1>1, <1>5, <2>1, EndStep DEF CacheRunInv, OnTheWay
<1>6. CASE Sequential!StartFile
  <2>1. /\ before' = disk[Fn] /\ SeqState' = New(pass) /\ pass' = pass
        /\ UNCHANGED <<disk, cache>> /\ Fn' = Fn
    BY <1>6, SameFile DEF Sequential!StartFile, Fn
  <2> QED
    BY <1>1, <2>1 DEF CacheRunInv, OnTheWay, CacheComplete
<1>7. CASE \/ \E p \in Passes : Sequential!CallPass(p) \/ Sequential!NothingLeft(p)
           \/ Sequential!SkipEmptyFile \/ Sequential!TakeCached \/ Sequential!ReturnFromPass
           \/ Sequential!GiveUp \/ Sequential!Die
  <2>1. ~Working' /\ cache' = cache
    BY <1>3, <1>7
       DEF Sequential!CallPass, Sequential!NothingLeft, Sequential!SkipEmptyFile,
           Sequential!TakeCached, Sequential!ReturnFromPass, Sequential!GiveUp, Sequential!Die,
           Sequential!NextFile
  <2> QED
    BY <1>1, <2>1 DEF CacheRunInv, OnTheWay, CacheComplete
<1>8. CASE UNCHANGED Sequential!vars
  <2>1. UNCHANGED <<disk, cache, toreduce, nth, pass, before>> /\ SeqState' = SeqState
        /\ SeqPhase' = SeqPhase
    BY <1>8 DEF Sequential!vars
  <2>2. Working' => Working
    BY <1>3, <2>1, TryIsWorking
  <2> QED
    BY <1>1, <2>1, <2>2 DEF CacheRunInv, OnTheWay, CacheComplete, Fn
<1>9. ~Sequential!PressSkip
  BY <1>1 DEF Sequential!PressSkip
<1> QED
  BY <1>2, <1>4, <1>5, <1>6, <1>7, <1>8, <1>9 DEF Sequential!Next

\* What %cache remembers of a pass on a content is what the pass makes of that
\* content when it is run to its end, whatever the number of processes and the
\* order in which the tests end.
THEOREM CacheIsComplete == ASSUME Undisturbed PROVE Spec => []CacheComplete
<1>1. Init => RefInv /\ CacheRunInv
  <2>1. Init => CacheRunInv
    BY DEF Init, CacheRunInv, OnTheWay, CacheComplete, Working
  <2> QED
    BY <2>1, TypesInit, ChildrenInit, SpeculationInit, HonestInit, JudgedInit DEF RefInv
<1>2. RefInv /\ CacheRunInv /\ [Next]_vars => (RefInv /\ CacheRunInv)'
  BY TypesStep, ChildrenStep, SpeculationStep, HonestStep, JudgedStep, CacheRunStep
     DEF RefInv, Undisturbed
<1>3. CacheRunInv => CacheComplete
  BY DEF CacheRunInv
<1> QED
  BY <1>1, <1>2, <1>3, PTL DEF Spec
=============================================================================
