----------------------- MODULE IsolatedProcessProofs ------------------------
(***************************************************************************)
(* Proofs about IsolatedProcess: that a process has one child at a time,   *)
(* that what the record says of the child's end is true, and that the      *)
(* bridge keeps the messages of the child, for queues of any size, any     *)
(* breaking messages and any bounds.                                       *)
(***************************************************************************)
EXTENDS IsolatedProcess, SequenceTheorems, WellFoundedInduction, TLAPS

Setup == [size : Sizes, supervised : BOOLEAN, breaking : BreakingSets]
Reports == {"ready", "crashed", "exited"}
Kept == routed \o outbox
Lost == {m \in 1 .. sent : ~ \E i \in 1 .. Len(Kept) : Kept[i] = m}

Types ==
  /\ setup \in Setup
  /\ child \in [phase : {"loading", "running", "ended", "dead"}, code : {0, 1},
                raised : BOOLEAN]
  /\ status \in Seq(Reports)
  /\ inbox \in Seq(Nat) /\ Len(inbox) <= setup.size
  /\ outbox \in Seq(Nat) /\ Len(outbox) <= setup.size
  /\ mailbox \in Seq(Nat) /\ forwarded \in Seq(Nat) /\ routed \in Seq(Nat)
  /\ stop \in BOOLEAN /\ sent \in 0 .. MaxSent /\ arrived \in 0 .. MaxArrivals
  /\ start \in {"waits", "stops", "buries", "done", "cancelled"}
  /\ state \in {"none", "RUNNING", "STOPPING", "KILLED"} \cup Ended
  /\ monitor \in {"none", "polls", "bridges", "looks", "sleeps", "cleans",
                  "over", "broken"}
  /\ killer \in {"none", "joins", "cleans", "done"}
  /\ replaced \in Seq({"start", "monitor", "kill"})

\* Where _run_path_isolated, _monitor_child and kill are, given the state of the
\* record, and which of them may still ask for a replacement.
Stages ==
  /\ start # "done" => state = "none"
  /\ state = "none" => monitor = "none" /\ killer = "none" /\ replaced = <<>>
  /\ state = "RUNNING" =>
       /\ killer = "none" /\ replaced = <<>>
       /\ monitor \in {"polls", "bridges", "looks", "sleeps", "broken"}
  /\ state = "STOPPING" =>
       /\ killer \in {"joins", "cleans"} /\ replaced = <<>>
       /\ monitor \notin {"none", "cleans"}
  /\ state = "KILLED" => killer = "done" /\ monitor = "over"
  /\ state \in Ended => killer = "none" /\ monitor \in {"none", "cleans", "over"}
  /\ killer = "cleans" => monitor = "over"
  /\ monitor = "cleans" => replaced = <<>>
  /\ Len(replaced) <= 1

\* A child that was given up or killed is gone.
Owned ==
  (killer \in {"cleans", "done"} \/ (start = "done" /\ state = "none"))
    => child.phase = "dead"

\* Exceptions of the child and its reports of them.
Reporting ==
  /\ child.phase \in {"loading", "running"} => ~child.raised
  /\ (\E i \in 1 .. Len(status) : status[i] = "crashed") \/ start = "buries" => child.raised
  /\ child.raised /\ (start = "waits" \/ state \in {"RUNNING", "STOPPING", "EXITED"})
       => \E i \in 1 .. Len(status) : status[i] = "crashed"

\* What the child has sent is routed or in its outbox, in order, but for a
\* message that has broken the monitor.
Outgoing ==
  /\ \A i \in 1 .. Len(Kept) : Kept[i] \in 1 .. sent
  /\ \A i, j \in 1 .. Len(Kept) : i < j => Kept[i] < Kept[j]
  /\ monitor \notin {"broken", "over"} => Lost = {}
  /\ Lost \subseteq setup.breaking /\ \A m, n \in Lost : m = n

\* What was forwarded arrived before what is in the mailbox.
Incoming ==
  /\ \A i \in 1 .. Len(mailbox) : mailbox[i] <= arrived
  /\ \A i, j \in 1 .. Len(mailbox) : i < j => mailbox[i] < mailbox[j]
  /\ \A i \in 1 .. Len(forwarded) : forwarded[i] <= arrived
  /\ \A i \in 1 .. Len(forwarded), j \in 1 .. Len(mailbox) : forwarded[i] < mailbox[j]
  /\ \A i, j \in 1 .. Len(forwarded) : i < j => forwarded[i] < forwarded[j]

IInv == Types /\ Stages /\ Owned /\ CrashesAreTrue /\ Reporting /\ Outgoing /\ Incoming

-----------------------------------------------------------------------------
(* Lemmas about sequences *)

\* The head and the tail of a queue.
LEMMA HeadTail ==
  ASSUME NEW S, NEW s \in Seq(S), s # <<>>
  PROVE  /\ Head(s) \in S /\ Head(s) = s[1] /\ Tail(s) \in Seq(S)
         /\ Len(s) \in Nat /\ Len(s) > 0 /\ Len(Tail(s)) = Len(s) - 1
         /\ \A i \in 1 .. Len(s) - 1 : Tail(s)[i] = s[i + 1]
<1>1. Len(s) \in Nat /\ Len(s) > 0 /\ Tail(s) \in Seq(S) /\ Len(Tail(s)) = Len(s) - 1
  OBVIOUS
<1>2. Head(s) = s[1] /\ s[1] \in S
  BY <1>1
<1>3. \A i \in 1 .. Len(s) - 1 : Tail(s)[i] = s[i + 1]
  BY <1>1
<1> QED
  BY <1>1, <1>2, <1>3

\* A queue with one element more.
LEMMA Appended ==
  ASSUME NEW S, NEW s \in Seq(S), NEW e \in S
  PROVE  /\ Append(s, e) \in Seq(S) /\ Len(s) \in Nat /\ Len(Append(s, e)) = Len(s) + 1
         /\ \A i \in 1 .. Len(s) : Append(s, e)[i] = s[i]
         /\ Append(s, e)[Len(s) + 1] = e
BY AppendProperties, LenProperties

\* Two sequences in a row, element by element.
LEMMA Joining ==
  ASSUME NEW S, NEW s \in Seq(S), NEW t \in Seq(S)
  PROVE  /\ s \o t \in Seq(S) /\ Len(s) \in Nat /\ Len(t) \in Nat
         /\ Len(s \o t) = Len(s) + Len(t)
         /\ \A i \in 1 .. Len(s) : (s \o t)[i] = s[i]
         /\ \A i \in 1 .. Len(t) : (s \o t)[Len(s) + i] = t[i]
<1>1. /\ s \o t \in Seq(S) /\ Len(s \o t) = Len(s) + Len(t)
      /\ \A i \in 1 .. Len(s) + Len(t) :
           (s \o t)[i] = IF i <= Len(s) THEN s[i] ELSE t[i - Len(s)]
  BY ConcatProperties
<1>2. Len(s) \in Nat /\ Len(t) \in Nat
  BY LenProperties
<1>3. ASSUME NEW i \in 1 .. Len(s) PROVE (s \o t)[i] = s[i]
  BY <1>1, <1>2
<1>4. ASSUME NEW i \in 1 .. Len(t) PROVE (s \o t)[Len(s) + i] = t[i]
  <2>1. Len(s) + i \in 1 .. Len(s) + Len(t) /\ ~(Len(s) + i <= Len(s))
        /\ (Len(s) + i) - Len(s) = i
    BY <1>2
  <2> QED
    BY <1>1, <2>1
<1> QED
  BY <1>1, <1>2, <1>3, <1>4

\* A part of a sequence, element by element.
LEMMA Slice ==
  ASSUME NEW S, NEW s \in Seq(S), NEW m \in Nat \ {0}, NEW n \in Nat,
         m <= n + 1, n <= Len(s)
  PROVE  /\ SubSeq(s, m, n) \in Seq(S) /\ Len(SubSeq(s, m, n)) = n - m + 1
         /\ \A i \in 1 .. n - m + 1 : SubSeq(s, m, n)[i] = s[m + i - 1]
<1>1. Len(s) \in Nat /\ \A i \in m .. n : s[i] \in S
  BY ElementOfSeq, LenProperties
<1>2. /\ SubSeq(s, m, n) \in Seq(S)
      /\ Len(SubSeq(s, m, n)) = IF m <= n THEN n - m + 1 ELSE 0
      /\ \A i \in 1 .. n - m + 1 : SubSeq(s, m, n)[i] = s[m + i - 1]
  BY <1>1, SubSeqProperties
<1>3. m <= n \/ n - m + 1 = 0
  OBVIOUS
<1> QED
  BY <1>2, <1>3

\* A sequence whose k-th element is taken out.
LEMMA CutOut ==
  ASSUME NEW S, NEW t \in Seq(S), NEW k \in 1 .. Len(t)
  PROVE  /\ SubSeq(t, 1, k - 1) \in Seq(S) /\ Len(SubSeq(t, 1, k - 1)) = k - 1
         /\ \A i \in 1 .. k - 1 : SubSeq(t, 1, k - 1)[i] = t[i]
         /\ SubSeq(t, k + 1, Len(t)) \in Seq(S) /\ Len(SubSeq(t, k + 1, Len(t))) = Len(t) - k
         /\ \A i \in 1 .. Len(t) - k : SubSeq(t, k + 1, Len(t))[i] = t[k + i]
<1>1. Len(t) \in Nat
  BY LenProperties
<1> DEFINE j == k - 1
           q == k + 1
<1>2. /\ j \in Nat /\ j <= Len(t) /\ 1 <= j + 1 /\ 1 \in Nat \ {0} /\ (j - 1) + 1 = j
      /\ q \in Nat \ {0} /\ q <= Len(t) + 1 /\ (Len(t) - q) + 1 = Len(t) - k
  BY <1>1
<1>3. \A i \in 1 .. j : 1 + i - 1 = i
  BY <1>1
<1>4. \A i \in 1 .. Len(t) - k : q + i - 1 = k + i
  BY <1>1
<1> HIDE DEF j, q
<1>5. /\ SubSeq(t, 1, j) \in Seq(S) /\ Len(SubSeq(t, 1, j)) = j - 1 + 1
      /\ \A i \in 1 .. j - 1 + 1 : SubSeq(t, 1, j)[i] = t[1 + i - 1]
  BY <1>1, <1>2, Slice
<1>6. /\ SubSeq(t, q, Len(t)) \in Seq(S) /\ Len(SubSeq(t, q, Len(t))) = Len(t) - q + 1
      /\ \A i \in 1 .. Len(t) - q + 1 : SubSeq(t, q, Len(t))[i] = t[q + i - 1]
  BY <1>1, <1>2, Slice
<1>7. /\ SubSeq(t, 1, j) \in Seq(S) /\ Len(SubSeq(t, 1, j)) = j
      /\ \A i \in 1 .. j : SubSeq(t, 1, j)[i] = t[i]
  BY <1>2, <1>3, <1>5
<1>8. /\ SubSeq(t, q, Len(t)) \in Seq(S) /\ Len(SubSeq(t, q, Len(t))) = Len(t) - k
      /\ \A i \in 1 .. Len(t) - k : SubSeq(t, q, Len(t))[i] = t[k + i]
  BY <1>2, <1>4, <1>6
<1> QED
  BY <1>7, <1>8 DEF j, q

\* What is joined when one element of the second sequence is left out.
LEMMA JoinedWithoutOne ==
  ASSUME NEW s \in Seq(Nat), NEW t \in Seq(Nat), NEW k \in 1 .. Len(t)
  PROVE  LET b      == Len(s) + k
             before == s \o t
             after  == (s \o SubSeq(t, 1, k - 1)) \o SubSeq(t, k + 1, Len(t))
         IN  /\ b \in 1 .. Len(before) /\ before[b] = t[k]
             /\ Len(after) = Len(before) - 1
             /\ \A i \in 1 .. Len(after) :
                  /\ i < b => after[i] = before[i]
                  /\ ~(i < b) => after[i] = before[i + 1]
<1> DEFINE b      == Len(s) + k
           before == s \o t
           after  == (s \o SubSeq(t, 1, k - 1)) \o SubSeq(t, k + 1, Len(t))
<1> DEFINE u == SubSeq(t, 1, k - 1)
           v == SubSeq(t, k + 1, Len(t))
           w == s \o u
           n == Len(s)
           o == Len(t)
<1>1. /\ u \in Seq(Nat) /\ Len(u) = k - 1 /\ \A i \in 1 .. k - 1 : u[i] = t[i]
      /\ v \in Seq(Nat) /\ Len(v) = o - k /\ \A i \in 1 .. o - k : v[i] = t[k + i]
  BY SMTT(60), CutOut
<1>2. /\ n \in Nat /\ o \in Nat /\ Len(before) = n + o
      /\ \A i \in 1 .. n : before[i] = s[i]
      /\ \A i \in 1 .. o : before[n + i] = t[i]
  BY Joining
<1> HIDE DEF u, v, before
<1>3. /\ w \in Seq(Nat) /\ Len(w) = n + Len(u)
      /\ \A i \in 1 .. n : w[i] = s[i]
      /\ \A i \in 1 .. Len(u) : w[n + i] = u[i]
  <2>1. u \in Seq(Nat)
    BY <1>1
  <2> QED
    BY <2>1, Joining
<1>4. after = w \o v
  BY DEF u, v
<1> HIDE DEF w, after
<1>5. /\ Len(after) = Len(w) + Len(v)
      /\ \A i \in 1 .. Len(w) : after[i] = w[i]
      /\ \A i \in 1 .. Len(v) : after[Len(w) + i] = v[i]
  <2>1. w \in Seq(Nat) /\ v \in Seq(Nat)
    BY <1>1, <1>3
  <2> QED
    BY <1>4, <2>1, Joining
<1> DEFINE p == Len(w)
<1>6. p \in Nat /\ p = n + (k - 1) /\ b = n + k /\ p + 1 = b /\ k \in 1 .. o
  BY <1>1, <1>2, <1>3
<1> HIDE DEF b
<1>7. /\ Len(after) = p + (o - k)
      /\ \A i \in 1 .. p : after[i] = w[i]
      /\ \A i \in 1 .. o - k : after[p + i] = t[k + i]
      /\ \A i \in 1 .. n : w[i] = s[i]
      /\ \A i \in 1 .. k - 1 : w[n + i] = t[i]
  BY <1>1, <1>3, <1>5
<1> HIDE DEF n, o, p
<1>8. b \in 1 .. Len(before) /\ Len(after) = Len(before) - 1
  <2>1. /\ n \in Nat /\ o \in Nat /\ Len(before) = n + o
        /\ Len(after) = p + (o - k)
    BY <1>2, <1>7
  <2> QED
    BY <1>6, <2>1
<1>9. before[b] = t[k]
  BY <1>2, <1>6
<1>10. ASSUME NEW i \in 1 .. Len(after), i < b
       PROVE  after[i] = before[i]
  <2>1. i \in 1 .. p
    BY <1>2, <1>6, <1>7, <1>10
  <2>2. CASE i \in 1 .. n
    BY <1>2, <1>7, <2>1, <2>2
  <2>3. CASE i \notin 1 .. n
    <3>1. i - n \in 1 .. k - 1 /\ i - n \in 1 .. o /\ n + (i - n) = i
      BY <1>2, <1>6, <2>1, <2>3
    <3>2. w[n + (i - n)] = t[i - n] /\ before[n + (i - n)] = t[i - n]
      BY <1>2, <1>7, <3>1
    <3> QED
      BY <1>7, <2>1, <3>1, <3>2
  <2> QED
    BY <2>2, <2>3
<1>11. ASSUME NEW i \in 1 .. Len(after), ~(i < b)
       PROVE  after[i] = before[i + 1]
  <2>1. /\ i - p \in 1 .. o - k /\ p + (i - p) = i
        /\ k + (i - p) \in 1 .. o /\ n + (k + (i - p)) = i + 1
    <3>1. n \in Nat /\ o \in Nat /\ Len(after) = p + (o - k)
      BY <1>2, <1>7
    <3> QED
      BY <1>6, <1>11, <3>1
  <2>2. after[p + (i - p)] = t[k + (i - p)] /\ before[n + (k + (i - p))] = t[k + (i - p)]
    BY <1>2, <1>7, <2>1
  <2> QED
    BY <2>1, <2>2
<1> QED
  BY <1>8, <1>9, <1>10, <1>11 DEF b, before, after

\* A set of numbers that is not empty has a least one.
LEMMA LeastOf ==
  ASSUME NEW S, S # {}, S \subseteq Nat
  PROVE  \E k \in S : \A j \in S : k <= j
<1>1. PICK k \in S : \A j \in S : ~(<<j, k>> \in OpToRel(<, Nat))
  BY NatLessThanWellFounded, WFMin
<1>2. ASSUME NEW j \in S PROVE k <= j
  <2>1. j \in Nat /\ k \in Nat
    OBVIOUS
  <2>2. j < k => <<j, k>> \in OpToRel(<, Nat)
    BY <2>1 DEF OpToRel
  <2>3. ~(j < k)
    BY <1>1, <2>2
  <2> QED
    BY <2>1, <2>3
<1> QED
  BY <1>2

\* The size of the queues is a number.
LEMMA SizeType ==
  ASSUME Types
  PROVE  setup.size \in Nat \ {0} /\ setup \in Setup
BY SizeAssumption DEF Types, Setup

\* A queue from which a head may have been taken.
LEMMA MaybeTail ==
  ASSUME NEW S, NEW s \in Seq(S), NEW t, t = s \/ (s # <<>> /\ t = Tail(s))
  PROVE  t \in Seq(S)
BY HeadTail

\* A queue to which one element may have been added.
LEMMA MaybeAppended ==
  ASSUME NEW S, NEW s \in Seq(S), NEW t, t = s \/ \E e \in S : t = Append(s, e)
  PROVE  t \in Seq(S)
BY Appended

\* The messages up to the first that breaks the bridge, and this message.
LEMMA SoundPart ==
  ASSUME Types
  PROVE  \/ Sound = outbox
         \/ \E k \in 1 .. Len(outbox) : /\ outbox[k] \in setup.breaking
                                        /\ Sound = SubSeq(outbox, 1, k - 1)
<1> DEFINE bad == {i \in DOMAIN outbox : outbox[i] \in setup.breaking}
<1>1. outbox \in Seq(Nat) /\ Len(outbox) \in Nat /\ DOMAIN outbox = 1 .. Len(outbox)
  BY LenProperties DEF Types
<1>2. CASE bad = {}
  BY <1>2 DEF Sound
<1>3. CASE bad # {}
  <2>1. bad \subseteq Nat
    BY <1>1
  <2>2. PICK k \in bad : \A j \in bad : k <= j
    <3> HIDE DEF bad
    <3> QED
      BY <1>3, <2>1, LeastOf
  <2> DEFINE f == CHOOSE i \in bad : \A j \in bad : i <= j
  <2>3. f \in bad
    BY <2>2
  <2>4. Sound = SubSeq(outbox, 1, f - 1)
    BY <1>3 DEF Sound
  <2> HIDE DEF f
  <2> QED
    BY <1>1, <2>3, <2>4
<1> QED
  BY <1>2, <1>3

-----------------------------------------------------------------------------
(* Types *)

\* The values of a run's variables.
LEMMA InitTypes ==
  ASSUME Init
  PROVE  IInv
<1>1. /\ status = <<>> /\ inbox = <<>> /\ outbox = <<>> /\ mailbox = <<>>
      /\ forwarded = <<>> /\ routed = <<>> /\ replaced = <<>>
      /\ setup \in Setup /\ setup.size \in Nat /\ Len(<<>>) = 0
  BY SizeAssumption DEF Init, Setup
<1>2. Types
  <2>1. /\ child \in [phase : {"loading", "running", "ended", "dead"}, code : {0, 1},
                      raised : BOOLEAN]
        /\ sent \in 0 .. MaxSent /\ arrived \in 0 .. MaxArrivals
    BY BoundAssumption DEF Init
  <2>2. /\ Len(inbox) <= setup.size /\ Len(outbox) <= setup.size
        /\ replaced \in Seq({"start", "monitor", "kill"}) /\ status \in Seq(Reports)
    BY <1>1
  <2>3. inbox \in Seq(Nat) /\ outbox \in Seq(Nat) /\ mailbox \in Seq(Nat)
        /\ forwarded \in Seq(Nat) /\ routed \in Seq(Nat)
    BY <1>1
  <2> QED
    BY <1>1, <2>1, <2>2, <2>3 DEF Init, Types
<1>3. Kept = <<>>
  BY <1>1 DEF Kept
<1>4. Outgoing
  BY <1>1, <1>3 DEF Init, Outgoing, Lost
<1>5. Stages /\ Owned /\ CrashesAreTrue /\ Reporting /\ Incoming
  BY <1>1 DEF Init, Stages, Owned, CrashesAreTrue, Reporting, Incoming, Ended
<1> QED
  BY <1>2, <1>4, <1>5 DEF IInv

\* The steps of the child.
LEMMA ChildTypes ==
  ASSUME Types, Child
  PROVE  Types' /\ UNCHANGED host /\ UNCHANGED setup
<1> USE DEF Types, Setup, host
<1>1. ASSUME NEW type \in Reports, NEW phase \in {"running", "ended"}, NEW raised \in BOOLEAN,
             Tells(type, phase, raised)
      PROVE  Types' /\ UNCHANGED host /\ UNCHANGED setup
  <2>1. status' \in Seq(Reports)
    BY <1>1, Appended DEF Tells
  <2>2. child' \in [phase : {"loading", "running", "ended", "dead"}, code : {0, 1},
                    raised : BOOLEAN]
    BY <1>1 DEF Tells
  <2> QED
    BY <1>1, <2>1, <2>2 DEF Tells
<1>2. CASE ChildReady \/ ChildRaises \/ ChildReturns
  BY <1>1, <1>2 DEF ChildReady, ChildRaises, ChildReturns, Reports
<1>3. CASE ChildSends
  <2>1. sent + 1 \in 0 .. MaxSent /\ sent + 1 \in Nat
    BY <1>3, BoundAssumption DEF ChildSends
  <2>2. outbox' \in Seq(Nat) /\ Len(outbox') = Len(outbox) + 1 /\ Len(outbox) \in Nat
    BY <1>3, <2>1, Appended DEF ChildSends
  <2>3. Len(outbox') <= setup.size
    <3>1. setup.size \in Nat /\ Len(outbox) < setup.size
      BY <1>3, SizeType DEF ChildSends
    <3> QED
      BY <2>2, <3>1
  <2> QED
    BY <1>3, <2>1, <2>2, <2>3 DEF ChildSends
<1>4. CASE ChildReceives
  <2>1. inbox' \in Seq(Nat) /\ Len(inbox') = Len(inbox) - 1 /\ Len(inbox) \in Nat
    BY <1>4, HeadTail DEF ChildReceives
  <2>2. Len(inbox') <= setup.size
    <3>1. setup.size \in Nat /\ Len(inbox) <= setup.size
      BY SizeType
    <3> QED
      BY <2>1, <3>1
  <2> QED
    BY <1>4, <2>1, <2>2 DEF ChildReceives
<1>5. CASE ChildDies
  <2>1. PICK code \in {0, 1} : child' = [child EXCEPT !.phase = "dead", !.code = code]
    BY <1>5 DEF ChildDies
  <2>2. child' \in [phase : {"loading", "running", "ended", "dead"}, code : {0, 1},
                    raised : BOOLEAN]
    BY <2>1
  <2> QED
    BY <1>5, <2>2 DEF ChildDies
<1> QED
  BY <1>2, <1>3, <1>4, <1>5 DEF Child

\* The steps of _run_path_isolated.
LEMMA StartTypes ==
  ASSUME Types, Registers \/ StartFails \/ StartGivenUp \/ StartCancelled
  PROVE  Types'
<1> USE DEF Types, Setup
<1>1. CASE Registers
  <2>1. status' \in Seq(Reports)
    BY <1>1, HeadTail DEF Registers
  <2> QED
    BY <1>1, <2>1 DEF Registers
<1>2. CASE StartFails
  <2>1. status' \in Seq(Reports)
    <3>1. status' = status \/ (status # <<>> /\ status' = Tail(status))
      BY <1>2 DEF StartFails
    <3> QED
      BY <3>1, MaybeTail
  <2>2. start' \in {"stops", "buries"}
    BY <1>2 DEF StartFails
  <2> QED
    BY <1>2, <2>1, <2>2 DEF StartFails
<1>3. CASE StartGivenUp
  <2>1. replaced' \in Seq({"start", "monitor", "kill"})
    <3>1. replaced' = replaced
          \/ \E e \in {"start", "monitor", "kill"} : replaced' = Append(replaced, e)
      BY <1>3 DEF StartGivenUp
    <3> QED
      BY <3>1, MaybeAppended
  <2>2. child' \in [phase : {"loading", "running", "ended", "dead"}, code : {0, 1},
                    raised : BOOLEAN]
    BY <1>3 DEF StartGivenUp, Joined, Terminated
  <2>3. state' \in {"none", "CRASHED"}
    BY <1>3 DEF StartGivenUp
  <2> QED
    BY <1>3, <2>1, <2>2, <2>3 DEF StartGivenUp, Ended
<1>4. CASE StartCancelled
  BY <1>4 DEF StartCancelled
<1> QED
  BY <1>1, <1>2, <1>3, <1>4

\* What the bridge leaves in the outbox and what it routes.
LEMMA BridgeTypes ==
  ASSUME Types, MonitorBridges
  PROVE  Types'
<1> USE DEF Types, Setup
<1>1. Sound \in Seq(Nat) /\ routed' \in Seq(Nat)
  <2>1. Sound \in Seq(Nat)
    <3>1. CASE Sound = outbox
      BY <3>1
    <3>2. ASSUME NEW k \in 1 .. Len(outbox), Sound = SubSeq(outbox, 1, k - 1)
          PROVE  Sound \in Seq(Nat)
      <4>1. Len(outbox) \in Nat
        BY LenProperties
      <4>2. k - 1 \in Nat /\ k - 1 <= Len(outbox) /\ 1 <= (k - 1) + 1
        BY <4>1
      <4> QED
        BY SMTT(60), <3>2, <4>2, Slice
    <3> QED
      BY <3>1, <3>2, SoundPart
  <2> QED
    BY <2>1, Joining DEF MonitorBridges, Routable
<1>2. outbox' \in Seq(Nat) /\ Len(outbox') <= setup.size
  <2>1. setup.size \in Nat /\ Len(outbox) \in Nat
    BY SizeAssumption, LenProperties
  <2>2. CASE outbox' = <<>>
    BY <2>1, <2>2
  <2>3. CASE Sound # outbox
    <3>1. PICK k \in 1 .. Len(outbox) : Sound = SubSeq(outbox, 1, k - 1)
      BY <2>3, SoundPart
    <3>2. Len(Sound) = k - 1
      <4>1. k - 1 \in Nat /\ k - 1 <= Len(outbox) /\ 1 <= (k - 1) + 1
        BY <2>1
      <4>2. Len(Sound) = (k - 1) - 1 + 1
        BY <3>1, <4>1, Slice
      <4> QED
        BY <4>1, <4>2
    <3>3. outbox' = SubSeq(outbox, k + 1, Len(outbox))
      <4>1. Len(Sound) + 2 = k + 1
        BY <2>1, <3>2
      <4> QED
        BY <2>3, <4>1 DEF MonitorBridges
    <3>4. k + 1 \in Nat \ {0} /\ k + 1 <= Len(outbox) + 1
      BY <2>1
    <3>5. outbox' \in Seq(Nat) /\ Len(outbox') = Len(outbox) - (k + 1) + 1
      BY SMTT(60), <2>1, <3>3, <3>4, Slice
    <3>6. Len(outbox') <= setup.size
      BY <2>1, <3>4, <3>5
    <3> QED
      BY <3>5, <3>6
  <2> QED
    BY <2>2, <2>3 DEF MonitorBridges
<1>3. /\ mailbox' \in Seq(Nat) /\ inbox' \in Seq(Nat) /\ Len(inbox') <= setup.size
      /\ forwarded' \in Seq(Nat)
  <2>1. CASE mailbox = <<>> \/ ~Fits
    <3>1. /\ mailbox' = mailbox \/ (mailbox # <<>> /\ mailbox' = Tail(mailbox))
          /\ UNCHANGED <<inbox, forwarded>>
      BY <2>1 DEF MonitorBridges
    <3> QED
      BY <3>1, MaybeTail
  <2>2. CASE mailbox # <<>> /\ Fits
    <3>1. /\ mailbox' = Tail(mailbox) /\ inbox' = Append(inbox, Head(mailbox))
          /\ forwarded' = Append(forwarded, Head(mailbox))
      BY <2>2 DEF MonitorBridges
    <3>2. Head(mailbox) \in Nat /\ Tail(mailbox) \in Seq(Nat)
      BY <2>2, HeadTail
    <3>3. /\ inbox' \in Seq(Nat) /\ Len(inbox') = Len(inbox) + 1 /\ Len(inbox) \in Nat
          /\ forwarded' \in Seq(Nat)
      BY <3>1, <3>2, Appended
    <3>4. Len(inbox') <= setup.size
      <4>1. setup.size \in Nat /\ Len(inbox) < setup.size
        BY <2>2, SizeType DEF Fits
      <4> QED
        BY <3>3, <4>1
    <3> QED
      BY <3>1, <3>2, <3>3, <3>4
  <2> QED
    BY <2>1, <2>2
<1>4. monitor' \in {"looks", "broken"}
  BY DEF MonitorBridges
<1> QED
  BY <1>1, <1>2, <1>3, <1>4 DEF MonitorBridges

\* The other steps of the monitor.
LEMMA MonitorTypes ==
  ASSUME Types, MonitorPolls \/ MonitorLooks \/ MonitorWakes \/ MonitorCleans
  PROVE  Types'
<1> USE DEF Types, Setup
<1>1. CASE MonitorPolls
  <2>1. status' \in Seq(Reports)
    <3>1. status' = status \/ (status # <<>> /\ status' = Tail(status))
      BY <1>1 DEF MonitorPolls
    <3> QED
      BY <3>1, MaybeTail
  <2>2. state' \in {state} \cup Ended /\ monitor' \in {"over", "bridges", "cleans"}
    BY <1>1 DEF MonitorPolls, Reported, Ended
  <2> QED
    BY <1>1, <2>1, <2>2 DEF MonitorPolls
<1>2. CASE MonitorLooks
  BY <1>2 DEF MonitorLooks, Verdict, Ended
<1>3. CASE MonitorWakes
  BY <1>3 DEF MonitorWakes
<1>4. CASE MonitorCleans
  <2>1. replaced' \in Seq({"start", "monitor", "kill"})
    <3>1. replaced' = replaced
          \/ \E e \in {"start", "monitor", "kill"} : replaced' = Append(replaced, e)
      BY <1>4 DEF MonitorCleans
    <3> QED
      BY <3>1, MaybeAppended
  <2> QED
    BY <1>4, <2>1 DEF MonitorCleans
<1> QED
  BY <1>1, <1>2, <1>3, <1>4

\* The steps of kill, and a message that arrives.
LEMMA KillTypes ==
  ASSUME Types, KillAsks \/ KillJoins \/ KillCleans \/ Arrive
  PROVE  Types'
<1> USE DEF Types, Setup
<1>1. CASE KillAsks
  BY <1>1 DEF KillAsks
<1>2. CASE KillJoins
  BY <1>2 DEF KillJoins, Joined, Terminated
<1>3. CASE KillCleans
  <2>1. replaced' \in Seq({"start", "monitor", "kill"})
    <3>1. replaced' = replaced
          \/ \E e \in {"start", "monitor", "kill"} : replaced' = Append(replaced, e)
      BY <1>3 DEF KillCleans
    <3> QED
      BY <3>1, MaybeAppended
  <2> QED
    BY <1>3, <2>1 DEF KillCleans
<1>4. CASE Arrive
  <2>1. arrived + 1 \in 0 .. MaxArrivals /\ arrived + 1 \in Nat
    BY <1>4, BoundAssumption DEF Arrive
  <2>2. mailbox' \in Seq(Nat)
    BY <1>4, <2>1, Appended DEF Arrive
  <2> QED
    BY <1>4, <2>1, <2>2 DEF Arrive
<1> QED
  BY <1>1, <1>2, <1>3, <1>4

\* Every step keeps the types.
LEMMA NextTypes ==
  ASSUME Types, [Next]_vars
  PROVE  Types'
<1>1. CASE UNCHANGED vars
  BY <1>1 DEF Types, vars
<1> QED
  BY <1>1, ChildTypes, StartTypes, BridgeTypes, MonitorTypes, KillTypes DEF Next, Monitor

-----------------------------------------------------------------------------
(* The record, the monitor and kill *)

\* A request for a replacement is the only one when nobody has asked before.
LEMMA FirstReplacement ==
  ASSUME Types, replaced = <<>>, NEW e \in {"start", "monitor", "kill"},
         replaced' = Append(replaced, e)
  PROVE  Len(replaced') <= 1
<1>1. Len(replaced) = 0
  OBVIOUS
<1>2. Len(replaced') = Len(replaced) + 1
  BY Appended DEF Types
<1> QED
  BY <1>1, <1>2

\* Each of the three asks for a replacement only where the others no longer can.
LEMMA StagesKept ==
  ASSUME Types, Stages, [Next]_vars
  PROVE  Stages'
<1> USE DEF Stages
<1>1. CASE Child
  <2>1. UNCHANGED host
    BY <1>1, ChildTypes
  <2> QED
    BY <2>1 DEF host
<1>2. CASE Registers
  BY <1>2 DEF Registers, Ended
<1>3. CASE StartFails
  <2>1. /\ start = "waits" /\ start' # "done"
        /\ UNCHANGED <<state, monitor, killer, replaced>>
    BY <1>3 DEF StartFails
  <2> QED
    BY <2>1
<1>4. CASE StartGivenUp
  <2>1. /\ state = "none" /\ start' = "done" /\ UNCHANGED <<monitor, killer>>
        /\ monitor = "none" /\ killer = "none" /\ replaced = <<>>
    BY <1>4 DEF StartGivenUp
  <2>2. CASE state' = "CRASHED" /\ replaced' = Append(replaced, "start")
    <3>1. Len(replaced') <= 1
      BY <2>1, <2>2, FirstReplacement
    <3> QED
      BY <2>1, <2>2, <3>1 DEF Ended
  <2>3. CASE state' = "none" /\ UNCHANGED replaced
    BY <2>1, <2>3
  <2> QED
    BY <1>4, <2>2, <2>3 DEF StartGivenUp
<1>5. CASE StartCancelled
  BY <1>5 DEF StartCancelled
<1>6. CASE MonitorPolls
  <2>1. monitor = "polls" /\ UNCHANGED <<start, killer, replaced>>
    BY <1>6 DEF MonitorPolls
  <2>2. CASE ~Watches
    <3>1. monitor' = "over" /\ state' = state /\ state # "RUNNING"
      BY <1>6, <2>2 DEF MonitorPolls, Watches
    <3> QED
      BY <2>1, <3>1 DEF Ended
  <2>3. CASE Watches /\ status = <<>>
    BY <1>6, <2>1, <2>3 DEF MonitorPolls, Watches
  <2>4. CASE Watches /\ status # <<>>
    BY <1>6, <2>1, <2>4 DEF MonitorPolls, Watches, Reported, Ended
  <2> QED
    BY <2>2, <2>3, <2>4
<1>7. CASE MonitorBridges
  <2>1. /\ monitor = "bridges" /\ monitor' \in {"looks", "broken"}
        /\ UNCHANGED <<start, state, killer, replaced>>
    BY <1>7 DEF MonitorBridges
  <2> QED
    BY <2>1 DEF Types, Ended
<1>8. CASE MonitorLooks
  BY <1>8 DEF MonitorLooks, Watches, Verdict, Types, Ended
<1>9. CASE MonitorWakes
  BY <1>9 DEF MonitorWakes, Types, Ended
<1>10. CASE MonitorCleans
  <2>1. /\ monitor = "cleans" /\ monitor' = "over" /\ UNCHANGED <<start, state, killer>>
        /\ replaced = <<>>
    BY <1>10 DEF MonitorCleans
  <2>2. Len(replaced') <= 1
    <3>1. replaced' = replaced \/ replaced' = Append(replaced, "monitor")
      BY <1>10 DEF MonitorCleans
    <3> QED
      BY <2>1, <3>1, FirstReplacement
  <2> QED
    BY <2>1, <2>2 DEF Types, Ended
<1>11. CASE KillAsks
  BY <1>11 DEF KillAsks, Ended
<1>12. CASE KillJoins
  <2>1. /\ killer = "joins" /\ killer' = "cleans" /\ monitor' = "over"
        /\ UNCHANGED <<start, state, replaced>>
    BY <1>12 DEF KillJoins
  <2> QED
    BY <2>1 DEF Types, Ended
<1>13. CASE KillCleans
  <2>1. /\ killer = "cleans" /\ killer' = "done" /\ state' = "KILLED"
        /\ UNCHANGED <<start, monitor>> /\ replaced = <<>> /\ monitor = "over"
        /\ start = "done"
    BY <1>13 DEF KillCleans, Types, Ended
  <2>2. Len(replaced') <= 1
    <3>1. replaced' = replaced \/ replaced' = Append(replaced, "kill")
      BY <1>13 DEF KillCleans
    <3> QED
      BY <2>1, <3>1, FirstReplacement
  <2> QED
    BY <2>1, <2>2 DEF Ended
<1>14. CASE Arrive
  BY <1>14 DEF Arrive
<1>15. CASE UNCHANGED vars
  BY <1>15 DEF vars
<1> QED
  BY <1>1, <1>2, <1>3, <1>4, <1>5, <1>6, <1>7, <1>8, <1>9, <1>10, <1>11, <1>12, <1>13, <1>14,
     <1>15 DEF Next, Monitor

\* A child that is dead stays so, with its exit code; none raises twice.
LEMMA ChildSteps ==
  ASSUME Types, Child
  PROVE  /\ child.phase = "dead" => child'.phase = "dead" /\ child'.code = child.code
         /\ child.raised /\ child.phase \notin {"loading", "running"} => child'.raised
         /\ child'.phase \in {"loading", "running"} =>
              child'.raised = FALSE \/ child' = child
<1>1. child \in [phase : {"loading", "running", "ended", "dead"}, code : {0, 1},
                 raised : BOOLEAN]
  BY DEF Types
<1>2. CASE ChildReady \/ ChildRaises \/ ChildReturns
  BY <1>1, <1>2 DEF ChildReady, ChildRaises, ChildReturns, Tells
<1>3. CASE ChildSends \/ ChildReceives
  BY <1>1, <1>3 DEF ChildSends, ChildReceives
<1>4. CASE ChildDies
  BY <1>1, <1>4 DEF ChildDies
<1> QED
  BY <1>2, <1>3, <1>4 DEF Child

\* The host leaves a child alone or ends it.
LEMMA JoinedEnds ==
  ASSUME Types, Joined
  PROVE  /\ child'.phase = "dead" /\ child'.raised = child.raised
         /\ child.phase = "dead" => child' = child
<1>1. child \in [phase : {"loading", "running", "ended", "dead"}, code : {0, 1},
                 raised : BOOLEAN]
  BY DEF Types
<1> QED
  BY <1>1 DEF Joined, Terminated

\* kill and a failed start are over only when they have joined the child.
LEMMA OwnedKept ==
  ASSUME Types, Stages, Owned, [Next]_vars
  PROVE  Owned'
<1>1. CASE Child
  <2>1. UNCHANGED host
    BY <1>1, ChildTypes
  <2> QED
    BY <1>1, <2>1, ChildSteps DEF host, Owned
<1>2. CASE StartGivenUp \/ KillJoins
  BY <1>2, JoinedEnds DEF StartGivenUp, KillJoins, Owned
<1>3. CASE Registers
  BY <1>3 DEF Registers, Owned
<1>4. CASE StartFails
  <2>1. UNCHANGED <<child, state, killer>> /\ start' # "done"
    BY <1>4 DEF StartFails
  <2> QED
    BY <2>1 DEF Owned
<1>5. CASE StartCancelled
  BY <1>5 DEF StartCancelled, Owned
<1>6. CASE Monitor
  <2>1. UNCHANGED <<child, start, killer>> /\ (state' = "none" => state = "none")
    BY <1>6 DEF Monitor, MonitorPolls, MonitorBridges, MonitorLooks, MonitorWakes,
                MonitorCleans, Reported, Verdict
  <2> QED
    BY <2>1 DEF Owned
<1>7. CASE KillAsks \/ Arrive
  BY <1>7 DEF KillAsks, Arrive, Owned
<1>8. CASE KillCleans
  BY <1>8 DEF KillCleans, Owned
<1>9. CASE UNCHANGED vars
  BY <1>9 DEF vars, Owned
<1> QED
  BY <1>1, <1>2, <1>3, <1>4, <1>5, <1>6, <1>7, <1>8, <1>9 DEF Next

-----------------------------------------------------------------------------
(* What the record says of the end *)

Crashed(s) == \E i \in 1 .. Len(s) : s[i] = "crashed"

\* A report of a crash that is not the head of the queue stays in it.
LEMMA CrashedTail ==
  ASSUME NEW s \in Seq(Reports), s # <<>>
  PROVE  Crashed(s) <=> Head(s) = "crashed" \/ Crashed(Tail(s))
<1>1. /\ Head(s) = s[1] /\ Len(s) \in Nat /\ Len(s) > 0 /\ Len(Tail(s)) = Len(s) - 1
      /\ \A i \in 1 .. Len(s) - 1 : Tail(s)[i] = s[i + 1]
  BY HeadTail
<1>2. ASSUME Crashed(s), Head(s) # "crashed" PROVE Crashed(Tail(s))
  <2>1. PICK i \in 1 .. Len(s) : s[i] = "crashed"
    BY <1>2 DEF Crashed
  <2>2. i # 1
    BY <1>1, <1>2, <2>1
  <2>3. i - 1 \in 1 .. Len(Tail(s)) /\ i - 1 \in 1 .. Len(s) - 1 /\ (i - 1) + 1 = i
    BY <1>1, <2>2
  <2> QED
    BY <1>1, <2>1, <2>3 DEF Crashed
<1>3. ASSUME Crashed(Tail(s)) PROVE Crashed(s)
  <2>1. PICK i \in 1 .. Len(Tail(s)) : Tail(s)[i] = "crashed"
    BY <1>3 DEF Crashed
  <2>2. i + 1 \in 1 .. Len(s) /\ i \in 1 .. Len(s) - 1
    BY <1>1, <2>1
  <2> QED
    BY <1>1, <2>1, <2>2 DEF Crashed
<1>4. Head(s) = "crashed" => Crashed(s)
  BY <1>1 DEF Crashed
<1> QED
  BY <1>2, <1>3, <1>4

\* A report that is put into the queue joins the others.
LEMMA CrashedAppend ==
  ASSUME NEW s \in Seq(Reports), NEW e \in Reports
  PROVE  Crashed(Append(s, e)) <=> e = "crashed" \/ Crashed(s)
<1>1. /\ Len(s) \in Nat /\ Len(Append(s, e)) = Len(s) + 1
      /\ \A i \in 1 .. Len(s) : Append(s, e)[i] = s[i]
      /\ Append(s, e)[Len(s) + 1] = e
  BY Appended
<1>2. Crashed(s) => Crashed(Append(s, e))
  BY <1>1 DEF Crashed
<1>3. e = "crashed" => Crashed(Append(s, e))
  <2>1. Len(s) + 1 \in 1 .. Len(Append(s, e))
    BY <1>1
  <2> QED
    BY <1>1, <2>1 DEF Crashed
<1>4. ASSUME Crashed(Append(s, e)), e # "crashed" PROVE Crashed(s)
  <2>1. PICK i \in 1 .. Len(s) + 1 : Append(s, e)[i] = "crashed"
    BY <1>1, <1>4 DEF Crashed
  <2>2. i \in 1 .. Len(s)
    BY <1>1, <1>4, <2>1
  <2> QED
    BY <1>1, <2>1, <2>2 DEF Crashed
<1> QED
  BY <1>2, <1>3, <1>4

\* The three parts of Reporting, and CrashesAreTrue, are about the queue, the
\* child, and where the record and the start of the process are.
LEMMA ReportingParts ==
  /\ Reporting <=>
       /\ child.phase \in {"loading", "running"} => ~child.raised
       /\ Crashed(status) \/ start = "buries" => child.raised
       /\ child.raised /\ (start = "waits" \/ state \in {"RUNNING", "STOPPING", "EXITED"})
            => Crashed(status)
  /\ Reporting' <=>
       /\ child'.phase \in {"loading", "running"} => ~child'.raised
       /\ Crashed(status') \/ start' = "buries" => child'.raised
       /\ child'.raised /\ (start' = "waits" \/ state' \in {"RUNNING", "STOPPING", "EXITED"})
            => Crashed(status')
BY DEF Reporting, Crashed

\* A crash is recorded where the child has said so, or has an exit code of its
\* own; an exit, where no report of a crash has been read.
LEMMA ReportingKept ==
  ASSUME Types, Stages, CrashesAreTrue, Reporting, [Next]_vars
  PROVE  CrashesAreTrue' /\ Reporting'
<1> DEFINE C == [phase : {"loading", "running", "ended", "dead"}, code : {0, 1},
                 raised : BOOLEAN]
<1>1. child \in C /\ status \in Seq(Reports)
  BY DEF Types
<1>2. /\ child.phase \in {"loading", "running"} => ~child.raised
      /\ Crashed(status) \/ start = "buries" => child.raised
      /\ child.raised /\ (start = "waits" \/ state \in {"RUNNING", "STOPPING", "EXITED"})
           => Crashed(status)
  BY ReportingParts
<1>3. SUFFICES /\ CrashesAreTrue'
               /\ child'.phase \in {"loading", "running"} => ~child'.raised
               /\ Crashed(status') \/ start' = "buries" => child'.raised
               /\ child'.raised
                    /\ (start' = "waits" \/ state' \in {"RUNNING", "STOPPING", "EXITED"})
                    => Crashed(status')
  BY ReportingParts
<1>4. CASE Child
  <2>1. UNCHANGED <<start, state>>
    BY <1>4, ChildTypes DEF host
  <2>2. CASE ChildReady
    <3>1. /\ child.phase = "loading" /\ child' = [child EXCEPT !.phase = "running", !.raised = FALSE]
          /\ status' = Append(status, "ready")
      BY <2>2 DEF ChildReady, Tells
    <3>2. ~child'.raised /\ ~child.raised /\ child.phase # "dead" /\ child'.phase # "dead"
      BY <1>1, <1>2, <3>1
    <3>3. ~Crashed(status') /\ start # "buries"
      BY <1>1, <1>2, <3>1, <3>2, CrashedAppend DEF Reports
    <3> QED
      BY <2>1, <3>2, <3>3 DEF CrashesAreTrue
  <2>3. CASE ChildRaises
    <3>1. /\ child' = [child EXCEPT !.phase = "ended", !.raised = TRUE]
          /\ status' = Append(status, "crashed")
      BY <2>3 DEF ChildRaises, Tells
    <3>2. child'.raised /\ child'.phase = "ended"
      BY <1>1, <3>1
    <3>3. Crashed(status')
      BY <1>1, <3>1, CrashedAppend DEF Reports
    <3> QED
      BY <3>2, <3>3 DEF CrashesAreTrue
  <2>4. CASE ChildReturns
    <3>1. /\ child.phase = "running" /\ child' = [child EXCEPT !.phase = "ended", !.raised = FALSE]
          /\ status' = Append(status, "exited")
      BY <2>4 DEF ChildReturns, Tells
    <3>2. ~child'.raised /\ ~child.raised /\ child.phase # "dead" /\ child'.phase = "ended"
      BY <1>1, <1>2, <3>1
    <3>3. ~Crashed(status') /\ start # "buries"
      BY <1>1, <1>2, <3>1, <3>2, CrashedAppend DEF Reports
    <3> QED
      BY <2>1, <3>2, <3>3 DEF CrashesAreTrue
  <2>5. CASE ChildSends \/ ChildReceives
    BY <1>2, <2>1, <2>5 DEF ChildSends, ChildReceives, CrashesAreTrue
  <2>6. CASE ChildDies
    <3>1. PICK code \in {0, 1} : child' = [child EXCEPT !.phase = "dead", !.code = code]
      BY <2>6 DEF ChildDies
    <3>2. child'.raised = child.raised /\ child'.phase = "dead" /\ child.phase # "dead"
          /\ status' = status
      BY <1>1, <2>6, <3>1 DEF ChildDies
    <3> QED
      BY <1>2, <2>1, <3>2 DEF CrashesAreTrue
  <2> QED
    BY <1>4, <2>2, <2>3, <2>4, <2>5, <2>6 DEF Child
<1>5. CASE Registers
  <2>1. /\ start = "waits" /\ start' = "done" /\ state' = "RUNNING" /\ child' = child
        /\ status # <<>> /\ Head(status) = "ready" /\ status' = Tail(status)
    BY <1>5 DEF Registers
  <2>2. Crashed(status') <=> Crashed(status)
    BY <1>1, <2>1, CrashedTail
  <2> QED
    BY <1>2, <2>1, <2>2 DEF CrashesAreTrue
<1>6. CASE StartFails
  <2>1. /\ start = "waits" /\ start' \in {"stops", "buries"} /\ child' = child /\ state' = state
        /\ state = "none"
        /\ \/ status = <<>> /\ status' = status /\ start' = "stops"
           \/ /\ status # <<>> /\ status' = Tail(status)
              /\ start' = "buries" => Head(status) = "crashed"
    BY <1>6 DEF StartFails, Stages
  <2>2. (Crashed(status') => Crashed(status)) /\ (start' = "buries" => Crashed(status))
    BY <1>1, <2>1, CrashedTail
  <2> QED
    BY <1>2, <2>1, <2>2 DEF CrashesAreTrue
<1>7. CASE StartGivenUp
  <2>1. /\ start' = "done" /\ status' = status
        /\ state' = "none" \/ (state' = "CRASHED" /\ start = "buries")
    BY <1>7 DEF StartGivenUp
  <2>2. child'.phase = "dead" /\ child'.raised = child.raised
    BY <1>7, JoinedEnds DEF StartGivenUp
  <2> QED
    BY <1>2, <2>1, <2>2 DEF CrashesAreTrue
<1>8. CASE StartCancelled
  <2>1. start' = "cancelled" /\ UNCHANGED <<child, status, state>>
    BY <1>8 DEF StartCancelled
  <2> QED
    BY <1>2, <2>1 DEF CrashesAreTrue
<1>9. CASE MonitorPolls
  <2>1. start' = start /\ child' = child
    BY <1>9 DEF MonitorPolls
  <2>2. CASE ~Watches \/ status = <<>>
    <3>1. UNCHANGED <<state, status>>
      BY <1>9, <2>2 DEF MonitorPolls
    <3> QED
      BY <1>2, <2>1, <3>1 DEF CrashesAreTrue
  <2>3. CASE Watches /\ status # <<>>
    <3>1. /\ state = "RUNNING" /\ status' = Tail(status) /\ start # "waits"
          /\ state' = IF Head(status) = "crashed" THEN "CRASHED" ELSE "EXITED"
      BY <1>9, <2>3 DEF MonitorPolls, Watches, Reported, Stages
    <3>2. Crashed(status) <=> Head(status) = "crashed" \/ Crashed(status')
      BY <1>1, <2>3, <3>1, CrashedTail
    <3> QED
      BY <1>2, <2>1, <3>1, <3>2 DEF CrashesAreTrue
  <2> QED
    BY <2>2, <2>3
<1>10. CASE MonitorBridges \/ MonitorWakes \/ MonitorCleans
  <2>1. UNCHANGED <<child, status, start, state>>
    BY <1>10 DEF MonitorBridges, MonitorWakes, MonitorCleans
  <2> QED
    BY <1>2, <2>1 DEF CrashesAreTrue
<1>11. CASE MonitorLooks
  <2>1. /\ UNCHANGED <<child, status, start>>
        /\ \/ state' = state
           \/ state = "RUNNING" /\ child.phase = "dead" /\ state' = "EXITED"
           \/ /\ state = "RUNNING" /\ child.phase = "dead" /\ child.code # 0
              /\ state' = "CRASHED"
    BY <1>11 DEF MonitorLooks, Gone, Watches, Verdict
  <2> QED
    BY <1>2, <2>1 DEF CrashesAreTrue
<1>12. CASE KillJoins
  <2>1. UNCHANGED <<status, start, state>> /\ state # "CRASHED"
    BY <1>12 DEF KillJoins, Stages, Ended
  <2>2. child'.phase = "dead" /\ child'.raised = child.raised
    BY <1>12, JoinedEnds DEF KillJoins
  <2> QED
    BY <1>2, <2>1, <2>2 DEF CrashesAreTrue
<1>13. CASE KillAsks \/ KillCleans \/ Arrive
  <2>1. /\ UNCHANGED <<child, status, start>>
        /\ state' = state \/ state' = "KILLED" \/ (state = "RUNNING" /\ state' = "STOPPING")
    BY <1>13 DEF KillAsks, KillCleans, Arrive
  <2> QED
    BY <1>2, <2>1 DEF CrashesAreTrue
<1>14. CASE UNCHANGED vars
  <2>1. UNCHANGED <<child, status, start, state>>
    BY <1>14 DEF vars
  <2> QED
    BY <1>2, <2>1 DEF CrashesAreTrue
<1> QED
  BY <1>4, <1>5, <1>6, <1>7, <1>8, <1>9, <1>10, <1>11, <1>12, <1>13, <1>14 DEF Next, Monitor

-----------------------------------------------------------------------------
(* The messages of the child *)

\* Where the steps that do not send or bridge leave the messages.
LEMMA OutgoingStays ==
  ASSUME Outgoing, UNCHANGED <<routed, outbox, sent, setup>>,
         monitor' \in {"broken", "over"} \/ monitor \notin {"broken", "over"}
  PROVE  Outgoing'
BY DEF Outgoing, Kept, Lost

\* The child sends the next message.
LEMMA SendsKeepsOrder ==
  ASSUME Types, Outgoing, ChildSends
  PROVE  Outgoing'
<1>1. /\ sent' = sent + 1 /\ outbox' = Append(outbox, sent + 1) /\ UNCHANGED <<routed, setup, monitor>>
      /\ sent \in Nat /\ sent + 1 \in Nat
  BY BoundAssumption DEF ChildSends, host, Types
<1>2. routed \in Seq(Nat) /\ outbox \in Seq(Nat) /\ Kept \in Seq(Nat) /\ Len(Kept) \in Nat
  BY Joining, LenProperties DEF Types, Kept
<1>3. Kept' = Append(Kept, sent + 1)
  <2>1. routed \o Append(outbox, sent + 1) = Append(routed \o outbox, sent + 1)
    BY <1>1, <1>2, AppendIsConcat, ConcatAssociative
  <2> QED
    BY <1>1, <2>1 DEF Kept
<1>4. /\ Len(Kept') = Len(Kept) + 1
      /\ \A i \in 1 .. Len(Kept) : Kept'[i] = Kept[i]
      /\ Kept'[Len(Kept) + 1] = sent + 1
  BY <1>1, <1>2, <1>3, Appended
<1> DEFINE n == Len(Kept)
<1>5. /\ \A i \in 1 .. n : Kept[i] \in 1 .. sent
      /\ \A i, j \in 1 .. n : i < j => Kept[i] < Kept[j]
      /\ monitor \notin {"broken", "over"} => Lost = {}
      /\ Lost \subseteq setup.breaking /\ \A m, k \in Lost : m = k
  BY DEF Outgoing
<1>6. Lost' \subseteq Lost
  <2> SUFFICES ASSUME NEW m \in 1 .. sent + 1, \A i \in 1 .. Len(Kept') : Kept'[i] # m
               PROVE  m \in Lost
    BY <1>1 DEF Lost
  <2>1. n + 1 \in 1 .. Len(Kept') /\ \A i \in 1 .. n : i \in 1 .. Len(Kept')
    BY <1>2, <1>4
  <2>2. m # sent + 1 /\ \A i \in 1 .. n : Kept[i] # m
    BY <1>4, <2>1
  <2>3. m \in 1 .. sent
    BY <1>1, <2>2
  <2> QED
    BY <2>2, <2>3 DEF Lost
<1>7. \A i \in 1 .. Len(Kept') : Kept'[i] \in 1 .. sent'
  <2> SUFFICES ASSUME NEW i \in 1 .. n + 1 PROVE Kept'[i] \in 1 .. sent + 1
    BY <1>1, <1>4
  <2>1. CASE i \in 1 .. n
    BY <1>1, <1>4, <1>5, <2>1
  <2>2. CASE i = n + 1
    BY <1>1, <1>4, <2>2
  <2> QED
    BY <1>2, <2>1, <2>2
<1>8. ASSUME NEW i \in 1 .. Len(Kept'), NEW j \in 1 .. Len(Kept'), i < j
      PROVE  Kept'[i] < Kept'[j]
  <2>1. i \in 1 .. n
    BY <1>2, <1>4, <1>8
  <2>2. CASE j \in 1 .. n
    BY <1>4, <1>5, <1>8, <2>1, <2>2
  <2>3. CASE j = n + 1
    <3>1. Kept'[i] \in 1 .. sent /\ Kept'[j] = sent + 1
      BY <1>4, <1>5, <2>1, <2>3
    <3> QED
      BY <1>1, <3>1
  <2> QED
    BY <1>2, <1>4, <2>2, <2>3
<1> QED
  BY <1>1, <1>5, <1>6, <1>7, <1>8 DEF Outgoing

\* The bridge routes what is in the outbox, but for a message that breaks it.
LEMMA BridgesKeepsOrder ==
  ASSUME Types, Outgoing, MonitorBridges
  PROVE  Outgoing'
<1> DEFINE r == Len(routed)
<1>1. /\ routed \in Seq(Nat) /\ outbox \in Seq(Nat) /\ r \in Nat /\ Len(outbox) \in Nat
      /\ Kept \in Seq(Nat) /\ Len(Kept) = r + Len(outbox)
      /\ \A i \in 1 .. r : Kept[i] = routed[i]
      /\ \A i \in 1 .. Len(outbox) : Kept[r + i] = outbox[i]
  BY Joining DEF Types, Kept
<1>2. /\ monitor = "bridges" /\ routed' = routed \o Sound /\ UNCHANGED <<sent, setup>>
  BY DEF MonitorBridges, Routable
<1>3. /\ \A i \in 1 .. Len(Kept) : Kept[i] \in 1 .. sent
      /\ \A i, j \in 1 .. Len(Kept) : i < j => Kept[i] < Kept[j]
      /\ Lost = {}
  BY <1>2 DEF Outgoing
<1>4. CASE Sound = outbox
  <2>1. outbox' = <<>> /\ monitor' = "looks"
    BY <1>4 DEF MonitorBridges
  <2>2. Kept' = Kept
    <3>1. Kept \o <<>> = Kept
      BY <1>1, ConcatEmptySeq
    <3> QED
      BY <1>2, <1>4, <2>1, <3>1 DEF Kept
  <2> QED
    BY <1>2, <1>3, <2>2 DEF Outgoing, Lost
<1>5. CASE Sound # outbox
  <2>1. PICK k \in 1 .. Len(outbox) : /\ outbox[k] \in setup.breaking
                                      /\ Sound = SubSeq(outbox, 1, k - 1)
    BY <1>5, SoundPart
  <2> DEFINE b == r + k
  <2>2. /\ routed' = routed \o SubSeq(outbox, 1, k - 1)
        /\ outbox' = SubSeq(outbox, k + 1, Len(outbox))
    <3>1. Len(Sound) = k - 1
      BY SMTT(60), <1>1, <2>1, CutOut
    <3>2. Len(Sound) + 2 = k + 1
      BY <3>1
    <3> QED
      BY <1>2, <1>5, <2>1, <3>2 DEF MonitorBridges
  <2>3. Kept' = (routed \o SubSeq(outbox, 1, k - 1)) \o SubSeq(outbox, k + 1, Len(outbox))
    BY <2>2 DEF Kept
  <2>4. /\ b \in 1 .. Len(Kept) /\ Kept[b] = outbox[k]
        /\ Len(Kept') = Len(Kept) - 1
        /\ \A i \in 1 .. Len(Kept') :
             /\ i < b => Kept'[i] = Kept[i]
             /\ ~(i < b) => Kept'[i] = Kept[i + 1]
    <3>1. Kept = routed \o outbox
      BY DEF Kept
    <3>2. routed \in Seq(Nat) /\ outbox \in Seq(Nat) /\ k \in 1 .. Len(outbox)
      BY <1>1
    <3> DEFINE whole == routed \o outbox
               cut   == (routed \o SubSeq(outbox, 1, k - 1)) \o SubSeq(outbox, k + 1, Len(outbox))
    <3>3. /\ b \in 1 .. Len(whole) /\ whole[b] = outbox[k] /\ Len(cut) = Len(whole) - 1
          /\ \A i \in 1 .. Len(cut) :
               /\ i < b => cut[i] = whole[i]
               /\ ~(i < b) => cut[i] = whole[i + 1]
      BY <3>2, JoinedWithoutOne, ZenonT(60)
    <3>4. Kept = whole /\ Kept' = cut
      BY <2>3, <3>1
    <3> HIDE DEF whole, cut, b
    <3> QED
      BY <3>3, <3>4
  <2> HIDE DEF b, r
  <2>5. Len(Kept) \in Nat /\ b \in Nat
    BY <1>1, <2>4, LenProperties
  <2>6. \A i \in 1 .. Len(Kept') : Kept'[i] \in 1 .. sent
    <3> SUFFICES ASSUME NEW i \in 1 .. Len(Kept') PROVE Kept'[i] \in 1 .. sent
      OBVIOUS
    <3>1. i \in 1 .. Len(Kept) /\ i + 1 \in 1 .. Len(Kept)
      BY <2>4, <2>5
    <3> QED
      BY <1>3, <2>4, <3>1
  <2>7. ASSUME NEW i \in 1 .. Len(Kept'), NEW j \in 1 .. Len(Kept'), i < j
        PROVE  Kept'[i] < Kept'[j]
    <3>1. /\ i \in 1 .. Len(Kept) /\ i + 1 \in 1 .. Len(Kept)
          /\ j \in 1 .. Len(Kept) /\ j + 1 \in 1 .. Len(Kept)
          /\ i + 1 < j + 1 /\ i < j + 1 /\ (j < b => i < b)
      BY <2>4, <2>5, <2>7
    <3> QED
      BY <1>3, <2>4, <2>7, <3>1
  <2>8. Lost' \subseteq {Kept[b]}
    <3> SUFFICES ASSUME NEW m \in 1 .. sent, \A i \in 1 .. Len(Kept') : Kept'[i] # m
                 PROVE  m = Kept[b]
      BY <1>2 DEF Lost
    <3>1. PICK i \in 1 .. Len(Kept) : Kept[i] = m
      BY <1>3 DEF Lost
    <3>2. CASE i < b
      <4>1. i \in 1 .. Len(Kept')
        BY <2>4, <2>5, <3>2
      <4> QED
        BY <2>4, <3>1, <3>2, <4>1
    <3>3. CASE b < i
      <4>1. i - 1 \in 1 .. Len(Kept') /\ ~(i - 1 < b) /\ (i - 1) + 1 = i
        BY <2>4, <2>5, <3>3
      <4>2. Kept'[i - 1] = Kept[i]
        BY <2>4, <4>1
      <4> QED
        BY <3>1, <4>1, <4>2
    <3> QED
      BY <2>5, <3>1, <3>2, <3>3
  <2>9. monitor' = "broken"
    BY <1>5 DEF MonitorBridges
  <2> QED
    BY <1>2, <2>1, <2>4, <2>6, <2>7, <2>8, <2>9 DEF Outgoing
<1> QED
  BY <1>4, <1>5

\* Every step.
LEMMA OutgoingKept ==
  ASSUME Types, Stages, Outgoing, [Next]_vars
  PROVE  Outgoing'
<1>1. CASE ChildSends
  BY <1>1, SendsKeepsOrder
<1>2. CASE MonitorBridges
  BY <1>2, BridgesKeepsOrder
<1>3. CASE Child /\ ~ChildSends
  <2>1. UNCHANGED <<routed, outbox, sent, setup, monitor>>
    BY <1>3 DEF Child, ChildReady, ChildRaises, ChildReturns, Tells, ChildReceives, ChildDies,
                host
  <2> QED
    BY <2>1, OutgoingStays
<1>4. CASE Registers
  <2>1. UNCHANGED <<routed, outbox, sent, setup>> /\ monitor = "none"
    BY <1>4 DEF Registers, Stages
  <2> QED
    BY <2>1, OutgoingStays
<1>5. CASE StartFails \/ StartGivenUp \/ StartCancelled
  <2>1. UNCHANGED <<routed, outbox, sent, setup, monitor>>
    BY <1>5 DEF StartFails, StartGivenUp, StartCancelled
  <2> QED
    BY <2>1, OutgoingStays
<1>6. CASE MonitorPolls \/ MonitorLooks \/ MonitorWakes \/ MonitorCleans
  <2>1. UNCHANGED <<routed, outbox, sent, setup>> /\ monitor \notin {"broken", "over"}
    BY <1>6 DEF MonitorPolls, MonitorLooks, MonitorWakes, MonitorCleans
  <2> QED
    BY <2>1, OutgoingStays
<1>7. CASE KillAsks \/ KillCleans \/ Arrive
  <2>1. UNCHANGED <<routed, outbox, sent, setup, monitor>>
    BY <1>7 DEF KillAsks, KillCleans, Arrive
  <2> QED
    BY <2>1, OutgoingStays
<1>8. CASE KillJoins
  <2>1. UNCHANGED <<routed, outbox, sent, setup>> /\ monitor' = "over"
    BY <1>8 DEF KillJoins
  <2> QED
    BY <2>1, OutgoingStays
<1>9. CASE UNCHANGED vars
  <2>1. UNCHANGED <<routed, outbox, sent, setup, monitor>>
    BY <1>9 DEF vars
  <2> QED
    BY <2>1, OutgoingStays
<1> QED
  BY <1>1, <1>2, <1>3, <1>4, <1>5, <1>6, <1>7, <1>8, <1>9 DEF Next, Monitor

-----------------------------------------------------------------------------
(* The messages for the child *)

\* Messages are forwarded from the head of the mailbox and arrive at its end.
LEMMA IncomingKept ==
  ASSUME Types, Incoming, [Next]_vars
  PROVE  Incoming'
<1>1. /\ mailbox \in Seq(Nat) /\ forwarded \in Seq(Nat) /\ Len(mailbox) \in Nat
      /\ Len(forwarded) \in Nat /\ arrived \in Nat
      /\ \A i \in 1 .. Len(mailbox) : mailbox[i] \in Nat
      /\ \A i \in 1 .. Len(forwarded) : forwarded[i] \in Nat
  BY BoundAssumption, LenProperties, ElementOfSeq DEF Types
<1>2. CASE UNCHANGED <<mailbox, forwarded, arrived>>
  BY <1>2 DEF Incoming
<1>3. CASE mailbox' = <<>> /\ UNCHANGED <<forwarded, arrived>>
  <2>1. Len(mailbox') = 0
    BY <1>3
  <2> QED
    BY <1>3, <2>1 DEF Incoming
<1>4. CASE /\ mailbox # <<>> /\ mailbox' = Tail(mailbox) /\ arrived' = arrived
           /\ forwarded' = forwarded \/ forwarded' = Append(forwarded, Head(mailbox))
  <2>1. /\ Len(mailbox) > 0 /\ Len(mailbox') = Len(mailbox) - 1
        /\ \A i \in 1 .. Len(mailbox) - 1 : mailbox'[i] = mailbox[i + 1]
        /\ Head(mailbox) = mailbox[1] /\ Head(mailbox) \in Nat
    BY <1>1, <1>4, HeadTail
  <2>2. ASSUME NEW i \in 1 .. Len(mailbox')
        PROVE  i + 1 \in 1 .. Len(mailbox) /\ mailbox'[i] = mailbox[i + 1] /\ 1 < i + 1
               /\ 1 \in 1 .. Len(mailbox)
    BY <1>1, <2>1
  <2>3. ASSUME NEW i \in 1 .. Len(forwarded')
        PROVE  \/ i \in 1 .. Len(forwarded) /\ forwarded'[i] = forwarded[i]
               \/ i = Len(forwarded) + 1 /\ forwarded'[i] = mailbox[1]
    <3>1. CASE forwarded' = forwarded
      BY <3>1
    <3>2. CASE forwarded' = Append(forwarded, Head(mailbox))
      <4>1. /\ Len(forwarded') = Len(forwarded) + 1
            /\ \A j \in 1 .. Len(forwarded) : forwarded'[j] = forwarded[j]
            /\ forwarded'[Len(forwarded) + 1] = mailbox[1]
        BY <1>1, <2>1, <3>2, Appended
      <4> QED
        BY <1>1, <4>1
    <3> QED
      BY <1>4, <3>1, <3>2
  <2>4. 1 \in 1 .. Len(mailbox)
    BY <1>1, <2>1
  <2>5. /\ \A i \in 1 .. Len(mailbox') : mailbox'[i] <= arrived
        /\ \A i, j \in 1 .. Len(mailbox') : i < j => mailbox'[i] < mailbox'[j]
    <3>1. \A i, j \in 1 .. Len(mailbox') : i < j => i + 1 < j + 1
      BY <1>1, <2>1
    <3> QED
      BY <2>2, <3>1 DEF Incoming
  <2>6. \A i \in 1 .. Len(forwarded') : forwarded'[i] <= arrived
    BY <2>3, <2>4 DEF Incoming
  <2>7. \A i \in 1 .. Len(forwarded'), j \in 1 .. Len(mailbox') : forwarded'[i] < mailbox'[j]
    BY <2>2, <2>3 DEF Incoming
  <2>8. ASSUME NEW i \in 1 .. Len(forwarded'), NEW j \in 1 .. Len(forwarded'), i < j
        PROVE  forwarded'[i] < forwarded'[j]
    <3>1. i \in 1 .. Len(forwarded) /\ forwarded'[i] = forwarded[i]
      <4>1. ~(i = Len(forwarded) + 1)
        BY <1>1, <2>3, <2>8
      <4> QED
        BY <2>3, <4>1
    <3> QED
      BY <2>3, <2>4, <2>8, <3>1 DEF Incoming
  <2> QED
    BY <1>4, <2>5, <2>6, <2>7, <2>8 DEF Incoming
<1>5. CASE Arrive
  <2>1. /\ arrived' = arrived + 1 /\ mailbox' = Append(mailbox, arrived + 1)
        /\ forwarded' = forwarded /\ arrived + 1 \in Nat
    BY <1>1, <1>5 DEF Arrive
  <2>2. /\ Len(mailbox') = Len(mailbox) + 1
        /\ \A i \in 1 .. Len(mailbox) : mailbox'[i] = mailbox[i]
        /\ mailbox'[Len(mailbox) + 1] = arrived + 1
    BY <1>1, <2>1, Appended
  <2>3. ASSUME NEW i \in 1 .. Len(mailbox')
        PROVE  \/ i \in 1 .. Len(mailbox) /\ mailbox'[i] = mailbox[i]
               \/ i = Len(mailbox) + 1 /\ mailbox'[i] = arrived + 1
    BY <1>1, <2>2
  <2>4. \A i \in 1 .. Len(mailbox') : mailbox'[i] <= arrived + 1
    <3> SUFFICES ASSUME NEW i \in 1 .. Len(mailbox') PROVE mailbox'[i] <= arrived + 1
      OBVIOUS
    <3>1. i \in 1 .. Len(mailbox) => mailbox[i] <= arrived /\ mailbox[i] \in Nat
      BY <1>1 DEF Incoming
    <3> QED
      BY <1>1, <2>3, <3>1
  <2>5. ASSUME NEW i \in 1 .. Len(mailbox'), NEW j \in 1 .. Len(mailbox'), i < j
        PROVE  mailbox'[i] < mailbox'[j]
    <3>1. i \in 1 .. Len(mailbox) /\ mailbox'[i] = mailbox[i]
      BY <1>1, <2>2, <2>3, <2>5
    <3>2. mailbox[i] <= arrived /\ mailbox[i] \in Nat
      BY <1>1, <3>1 DEF Incoming
    <3>3. CASE j \in 1 .. Len(mailbox) /\ mailbox'[j] = mailbox[j]
      BY <2>5, <3>1, <3>3 DEF Incoming
    <3>4. CASE mailbox'[j] = arrived + 1
      BY <1>1, <3>1, <3>2, <3>4
    <3> QED
      BY <2>3, <3>3, <3>4
  <2>6. ASSUME NEW i \in 1 .. Len(forwarded)
        PROVE  /\ forwarded[i] <= arrived + 1
               /\ \A j \in 1 .. Len(mailbox') : forwarded[i] < mailbox'[j]
    <3>1. forwarded[i] \in Nat /\ forwarded[i] <= arrived
      BY <1>1 DEF Incoming
    <3>2. forwarded[i] < arrived + 1 /\ forwarded[i] <= arrived + 1
      BY <1>1, <3>1
    <3> QED
      BY <2>3, <3>2 DEF Incoming
  <2> QED
    BY <2>1, <2>4, <2>5, <2>6 DEF Incoming
<1>6. CASE MonitorBridges
  <2>1. CASE mailbox = <<>>
    BY <1>2, <1>6, <2>1 DEF MonitorBridges
  <2>2. CASE mailbox # <<>>
    BY <1>4, <1>6, <2>2 DEF MonitorBridges
  <2> QED
    BY <2>1, <2>2
<1>7. CASE MonitorCleans \/ KillCleans
  BY <1>3, <1>7 DEF MonitorCleans, KillCleans
<1>8. CASE Child
  BY <1>2, <1>8, ChildTypes DEF host
<1>9. CASE Registers \/ StartFails \/ StartGivenUp \/ StartCancelled
  BY <1>2, <1>9 DEF Registers, StartFails, StartGivenUp, StartCancelled
<1>10. CASE MonitorPolls \/ MonitorLooks \/ MonitorWakes \/ KillAsks \/ KillJoins
  BY <1>2, <1>10 DEF MonitorPolls, MonitorLooks, MonitorWakes, KillAsks, KillJoins
<1>11. CASE UNCHANGED vars
  BY <1>2, <1>11 DEF vars
<1> QED
  BY <1>5, <1>6, <1>7, <1>8, <1>9, <1>10, <1>11 DEF Next, Monitor

-----------------------------------------------------------------------------
(* The theorems *)

\* The invariant holds in every reachable state.
LEMMA Inductive == Spec => []IInv
<1>1. Init => IInv
  BY InitTypes
<1>2. IInv /\ [Next]_vars => IInv'
  BY NextTypes, StagesKept, OwnedKept, ReportingKept, OutgoingKept, IncomingKept DEF IInv
<1> QED
  BY <1>1, <1>2, PTL DEF Spec

\* Of a supervised child there is one process: the monitor, kill and a failed
\* start together replace it once, and a child that was given up is gone.
THEOREM OneChildTheorem == Spec => []NoChildTooMany
<1>1. IInv => NoChildTooMany
  <2> SUFFICES ASSUME IInv PROVE NoChildTooMany
    OBVIOUS
  <2> USE DEF IInv
  <2>1. TypeOK
    <3>1. \A i \in DOMAIN status : status[i] \in {"ready", "crashed", "exited"}
      BY DEF Types, Reports
    <3> QED
      BY <3>1 DEF Types, Setup, TypeOK
  <2>2. OneReplacement
    BY DEF OneReplacement, Stages
  <2>3. ChildrenAreOwned
    BY DEF ChildrenAreOwned, Stages, Owned
  <2> QED
    BY <2>1, <2>2, <2>3 DEF NoChildTooMany
<1> QED
  BY <1>1, Inductive, PTL

\* The state a process ends in tells how its child has ended: no crash is
\* recorded of a child that ended well, and an exception is recorded as an exit
\* only while the report of it lies unread in the queue.
THEOREM EndsTheorem == Spec => []EndsAreTrue
<1>1. IInv => EndsAreTrue
  BY DEF IInv, EndsAreTrue, ExitsAreTrue, Reporting, Contains
<1> QED
  BY <1>1, Inductive, PTL

\* The bridge loses at most the one message that breaks it, and repeats and
\* reorders nothing in either direction.
THEOREM BridgeTheorem == Spec => []MessagesAreKept
<1>1. IInv => MessagesAreKept
  <2> SUFFICES ASSUME IInv PROVE MessagesAreKept
    OBVIOUS
  <2> USE DEF IInv
  <2>1. /\ DOMAIN Kept = 1 .. Len(Kept) /\ DOMAIN forwarded = 1 .. Len(forwarded)
    <3>1. Kept \in Seq(Nat) /\ forwarded \in Seq(Nat)
      BY Joining DEF Types, Kept
    <3> QED
      BY <3>1, LenProperties
  <2>2. Lost = {m \in 1 .. sent : ~Contains(Kept, m)}
    BY DEF Lost, Contains
  <2>3. /\ Lost \subseteq setup.breaking /\ \A m, n \in Lost : m = n
        /\ \A i, j \in DOMAIN Kept : i < j => Kept[i] < Kept[j]
        /\ \A i, j \in DOMAIN forwarded : i < j => forwarded[i] < forwarded[j]
    BY <2>1 DEF Outgoing, Incoming
  <2> QED
    BY <2>2, <2>3 DEF MessagesAreKept, Kept
<1> QED
  BY <1>1, Inductive, PTL
=============================================================================
