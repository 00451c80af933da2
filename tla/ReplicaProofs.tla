--------------------------- MODULE ReplicaProofs ----------------------------
(***************************************************************************)
(* Proofs about a replica: what was committed before a round of shard-sync *)
(* that has ended can be read (CoveredReadable), and no read misses a       *)
(* record through an old handle (NoStaleHandle), for every number of        *)
(* readers, segments, records and faults.                                  *)
(***************************************************************************)
EXTENDS Replica, WellFoundedInduction, TLAPS

\* A leaf that names no prover is left to Zenon; the others, most of them about
\* numbers, sequences or EXCEPT, name the SMT solver.
USE ZenonT(30)

-----------------------------------------------------------------------------
(* The inductive invariant.                                                *)

\* A file of the records 1 .. w and of footers, or none.
File(w) == Seq(0 .. w) \cup {Absent}

\* Record n is at offset p of the file.
Has(file, p, n) == file # Absent /\ p \in DOMAIN file /\ file[p] = n

\* ... at its location,
In(file, n) == Has(file, loc[n][2], n)

\* ... and in the file of its segment.
Seg(n) == loc[n][1]

Live == (1 .. written) \ lost

-----------------------------------------------------------------------------
(* The inductive invariant.                                                *)

PrimaryTypes ==
    /\ written \in 0 .. MaxRecords
    /\ loc \in [Records -> Segs \X Nat]
    /\ dat \in [Segs -> File(written)]
    /\ committed \subseteq 1 .. written /\ lost \subseteq 1 .. written

ReplicaTypes ==
    /\ copy \in [Segs -> File(written)] /\ cached \in [Segs -> File(written)]
    /\ own \in Segs \cup {Absent} /\ same \subseteq Segs
    /\ own # Absent => copy[own] # Absent

SyncTypes ==
    /\ step \in {"idle", "compare", "rename"} /\ at \in Segs
    /\ listed \in [Segs -> File(written) \cup {Changed}]
    /\ tmp \in File(written)
    /\ begun \subseteq 1 .. written /\ covered \subseteq 1 .. written

ReadTypes ==
    /\ read \in [Readers -> [pc : {"idle", "open", "read", "bad", "over"},
                             rec : 0 .. MaxRecords, held : File(written),
                             closed : BOOLEAN, right : BOOLEAN, sure : BOOLEAN]]
    /\ \A r \in Readers : read[r].pc \in {"open", "read", "bad"} => read[r].rec \in 1 .. written

Types ==
    PrimaryTypes /\ ReplicaTypes /\ SyncTypes /\ ReadTypes /\ faults \in 0 .. MaxFaults

\* The primary has a newest segment, and just the records that are not lost.
Newer(s) == dat[s] # Absent /\ \A t \in Segs : dat[t] # Absent => t <= s

Primary ==
    /\ \E s \in Segs : Newer(s)
    /\ \A n \in 1 .. written : In(dat[Seg(n)], n) <=> n \notin lost

\* What is about to be renamed has all that the copy has and all that the round
\* is about.
Coming ==
    step = "rename" => \A n \in Live :
        Seg(n) = at /\ (In(copy[at], n) \/ n \in begun) => In(tmp, n)

\* What was committed when the round began was listed, and is in the copies
\* that the round has passed.
Round ==
    step # "idle" => \A n \in begun \cap Live :
        /\ listed[Seg(n)] = Changed \/ In(listed[Seg(n)], n)
        /\ Seg(n) < at => In(copy[Seg(n)], n)

Covers == \A n \in covered \cap Live : In(copy[Seg(n)], n)

\* One reader at a time opens a file; a handle that looks like its file is one
\* of that file.
Opening(r) == read[r].pc = "open"

Handles ==
    /\ \A r, o \in Readers : Opening(r) /\ Opening(o) => r = o
    /\ \A s \in same : cached[s] = copy[s] \/ \E r \in Readers : Opening(r) /\ Segment(r) = s

\* A reader that was right finds its record, unless that has been lost.
Reading(r) ==
    LET q == read[r] IN
    /\ q.pc = "open" /\ q.right /\ q.rec \in Live => In(copy[Segment(r)], q.rec)
    /\ q.pc = "read" /\ q.right /\ q.rec \in Live => In(q.held, q.rec)
    /\ q.pc = "bad" /\ q.right => q.rec \in lost
    /\ q.pc \in {"open", "read", "bad"} /\ q.sure => q.right \/ q.rec \in lost

IInv ==
    /\ Types /\ Primary /\ Coming /\ Round /\ Covers /\ Handles
    /\ \A r \in Readers : Reading(r)

-----------------------------------------------------------------------------
(* Files.                                                                  *)

\* What the assumption says of the constants.
LEMMA Constants ==
    /\ MaxSegment \in Nat /\ MaxRecords \in Nat /\ MaxFaults \in Nat
    /\ Segs \subseteq Nat /\ 0 \in Segs /\ MaxSegment \in Segs
    /\ \A s \in Segs : s <= MaxSegment /\ (s # MaxSegment => s + 1 \in Segs)
    /\ Absent \notin Segs /\ Absent # Changed
  BY ReplicaAssumption, SMTT(30) DEF Segs

\* A file is one still when more records have been written.
LEMMA Wider ==
    ASSUME NEW w \in Nat, NEW v \in Nat, w <= v
    PROVE  File(w) \subseteq File(v) /\ Seq(0 .. w) \subseteq Seq(0 .. v)
  BY SMTT(30) DEF File

\* More records, more files.
LEMMA SeqWider ==
    ASSUME NEW S, NEW T, S \subseteq T
    PROVE  Seq(S) \subseteq Seq(T)
  BY SMTT(30)

\* Neither Absent nor Changed is the contents of a file.
LEMMA NotAFile ==
    ASSUME NEW w \in Nat
    PROVE  Absent \notin Seq(0 .. w) /\ Changed \notin File(w)
  <1>1. Seq(0 .. w) \subseteq Seq(Nat)
    BY SMTT(30)
  <1> QED BY <1>1, ReplicaAssumption DEF File

\* A nonempty set of numbers has a least element.
LEMMA LeastNat ==
    ASSUME NEW S \in SUBSET Nat, S # {}
    PROVE  \E n \in S : \A m \in S : n <= m
  <1> DEFINE R == {p \in Nat \X Nat : p[1] < p[2]}
  <1>1. IsWellFoundedOn(R, Nat)
    BY NatLessThanWellFounded DEF OpToRel
  <1>2. PICK x \in S : \A y \in S : <<y, x>> \notin R
    <2> HIDE DEF R
    <2> QED BY <1>1, WFMin
  <1>3. \A y \in S : ~(y < x)
    BY <1>2
  <1> QED BY <1>3, SMTT(30)

\* scanValidTail keeps a beginning of the file.
LEMMA ValidPrefix ==
    ASSUME NEW w \in Nat, NEW file \in Seq(0 .. w)
    PROVE  /\ Valid(file) \in Seq(0 .. w)
           /\ \A p, n : Has(Valid(file), p, n) => Has(file, p, n)
  <1> DEFINE I == {i \in DOMAIN file : file[i] = Footer}
             first == CHOOSE i \in I : \A j \in I : i <= j
  <1>1. file # Absent
    BY NotAFile
  <1>2. Valid(file) = IF I = {} THEN file ELSE SubSeq(file, 1, first)
    BY DEF Valid
  <1>3. CASE I = {}
    <2>1. Valid(file) = file
      BY <1>2, <1>3
    <2> QED BY <2>1
  <1>4. CASE I # {}
    <2>1. PICK m \in I : \A k \in I : m <= k
      <3>1. I \in SUBSET Nat
        BY SMTT(30)
      <3> HIDE DEF I
      <3> QED BY <1>4, <3>1, LeastNat
    <2>2. first \in I
      <3> HIDE DEF I
      <3> QED BY <2>1
    <2>3. first \in 1 .. Len(file)
      <3> HIDE DEF first
      <3> QED BY <2>2, SMTT(30)
    <2>4. Valid(file) = SubSeq(file, 1, first)
      BY <1>2, <1>4
    <2> HIDE DEF first
    <2>5. /\ SubSeq(file, 1, first) \in Seq(0 .. w)
          /\ DOMAIN SubSeq(file, 1, first) = 1 .. first
          /\ \A i \in 1 .. first : SubSeq(file, 1, first)[i] = file[i]
      BY <2>3, SMTT(30)
    <2>6. DOMAIN file = 1 .. Len(file)
      BY SMTT(30)
    <2> QED BY <1>1, <2>3, <2>4, <2>5, <2>6, SMTT(30) DEF Has
  <1> QED BY <1>3, <1>4

\* A file that grows by something else than n.
LEMMA AppendHas ==
    ASSUME NEW w \in Nat, NEW file \in Seq(0 .. w), NEW x \in Nat
    PROVE  /\ Append(file, x) \in Seq(Nat)
           /\ x <= w => Append(file, x) \in Seq(0 .. w)
           /\ \A p : \A n \in Nat : n # x => (Has(Append(file, x), p, n) <=> Has(file, p, n))
           /\ Has(Append(file, x), Len(file) + 1, x)
  <1>1. file \in Seq(Nat) /\ file # Absent /\ Append(file, x) \in Seq(Nat) /\ Append(file, x) # Absent
    <2>1. Seq(0 .. w) \subseteq Seq(Nat)
      BY SMTT(30)
    <2>2. file \in Seq(Nat)
      BY <2>1
    <2>3. Append(file, x) \in Seq(Nat)
      BY <2>2, SMTT(30)
    <2>4. Absent \notin Seq(Nat)
      BY ReplicaAssumption
    <2> QED BY <2>2, <2>3, <2>4
  <1>2. /\ DOMAIN file = 1 .. Len(file) /\ Len(file) \in Nat
        /\ DOMAIN Append(file, x) = 1 .. (Len(file) + 1)
        /\ \A i \in 1 .. Len(file) : Append(file, x)[i] = file[i]
        /\ Append(file, x)[Len(file) + 1] = x
    BY <1>1, SMTT(30)
  <1>3. \A p : p \in 1 .. (Len(file) + 1) <=> p \in 1 .. Len(file) \/ p = Len(file) + 1
    BY <1>2, SMTT(30)
  <1>4. x <= w => Append(file, x) \in Seq(0 .. w)
    BY SMTT(30)
  <1> QED BY <1>1, <1>2, <1>3, <1>4 DEF Has

\* A record that has been written has a segment.
LEMMA SegOf ==
    ASSUME PrimaryTypes, NEW n \in 1 .. written
    PROVE  Seg(n) \in Segs /\ n \in Records /\ n \in Nat /\ n # 0
  <1>1. n \in Records /\ n \in Nat /\ n # 0
    BY Constants, SMTT(30) DEF PrimaryTypes, Records
  <1> QED BY <1>1 DEF PrimaryTypes, Seg

\* The order of segments.
LEMMA SegOrder ==
    ASSUME NEW a \in Segs, NEW b \in Segs
    PROVE  ~(a < 0) /\ (a < b + 1 => a <= b) /\ (a <= b => a < b \/ a = b)
  BY Constants, SMTT(30)

\* At finds a record where In says that it is.
LEMMA AtIn ==
    ASSUME NEW file, NEW n \in Nat, n # 0
    PROVE  At(file, n) = n <=> In(file, n)
  BY DEF At, In, Has, Footer

\* A file that has record n has it within its range.
LEMMA HasRange ==
    ASSUME NEW w \in Nat, NEW file \in File(w), NEW p, NEW n, Has(file, p, n)
    PROVE  n \in 0 .. w
  BY SMTT(30) DEF File, Has

-----------------------------------------------------------------------------
(* The primary.                                                            *)

\* What every step leaves of the past: locations stay, lost records stay lost,
\* and one record is written at most.
Evolves ==
    /\ written' \in {written, written + 1}
    /\ \A n \in 1 .. written : loc'[n] = loc[n]
    /\ lost \subseteq lost'

\* The newest segment.
LEMMA TopFacts ==
    ASSUME PrimaryTypes, Primary
    PROVE  Top \in Segs /\ Newer(Top) /\ dat[Top] \in Seq(0 .. written)
  <1>1. Top \in Segs /\ Newer(Top)
    BY DEF Primary, Newer, Top
  <1> QED BY <1>1 DEF PrimaryTypes, File, Newer

\* A record is written behind the files as they are then.
LEMMA WriteToStep ==
    ASSUME PrimaryTypes, NEW s \in Segs, NEW file \in [Segs -> File(written)],
           file[s] \in Seq(0 .. written),
           \A t \in Segs : file[t] # Absent => t <= s,
           \A n \in 1 .. written : In(file[Seg(n)], n) <=> n \notin lost,
           WriteTo(s, file)
    PROVE  PrimaryTypes' /\ Primary' /\ Evolves /\ written' = written + 1
  <1>1. /\ written \in Nat /\ written < MaxRecords /\ MaxRecords \in Nat
        /\ loc \in [Records -> Segs \X Nat]
    BY Constants, SMTT(30) DEF PrimaryTypes, WriteTo
  <1>2. PICK w \in Nat : w = written + 1
    BY <1>1, SMTT(30)
  <1>3. /\ written' = w /\ w \in Records /\ w \in 0 .. MaxRecords
        /\ dat' = [file EXCEPT ![s] = Append(@, w)]
        /\ loc' = [loc EXCEPT ![w] = <<s, Len(file[s]) + 1>>]
        /\ UNCHANGED <<committed, lost>>
    BY <1>1, <1>2, SMTT(30) DEF WriteTo, Records
  <1>4. \A n \in 1 .. written : n # w /\ n \in Records /\ loc'[n] = loc[n]
    BY <1>1, <1>2, <1>3, SMTT(30) DEF Records
  <1>5. loc' \in [Records -> Segs \X Nat] /\ loc'[w] = <<s, Len(file[s]) + 1>>
    BY <1>1, <1>3, SMTT(30)
  <1>6. file[s] \in Seq(0 .. w) /\ file \in [Segs -> File(w)]
    BY <1>1, <1>2, Wider, SMTT(30)
  <1>7. Append(file[s], w) \in Seq(0 .. w) /\ Append(file[s], w) # Absent
    <2>1. PICK f \in Seq(0 .. w) : f = file[s]
      BY <1>6
    <2>2. w <= w
      BY SMTT(30)
    <2>3. Append(f, w) \in Seq(0 .. w)
      BY <2>2, AppendHas
    <2> QED BY <2>1, <2>3, NotAFile
  <1>8. dat' \in [Segs -> File(w)] /\ dat'[s] = Append(file[s], w)
        /\ \A t \in Segs \ {s} : dat'[t] = file[t]
    BY <1>3, <1>6, <1>7 DEF File
  <1>9. PrimaryTypes'
    <2>1. committed \subseteq 1 .. w /\ lost \subseteq 1 .. w
      BY <1>1, <1>2, SMTT(30) DEF PrimaryTypes
    <2> QED BY <1>3, <1>5, <1>8, <2>1 DEF PrimaryTypes
  <1>10. Newer(s)'
    <2>1. \A t \in Segs : dat'[t] # Absent => t <= s
      BY <1>8, Constants, SMTT(30)
    <2> QED BY <1>7, <1>8, <2>1 DEF Newer
  <1>11. ASSUME NEW n \in 1 .. written'
         PROVE  (In(dat[Seg(n)], n))' <=> n \notin lost'
    <2>1. CASE n = w
      <3>1. Seg(n)' = s /\ loc'[n][2] = Len(file[s]) + 1
        BY <1>5, <2>1, SMTT(30) DEF Seg
      <3>2. Has(dat'[s], Len(file[s]) + 1, w)
        BY <1>6, <1>8, AppendHas, SMTT(30)
      <3>3. n \notin lost
        BY <1>1, <1>2, <2>1, SMTT(30) DEF PrimaryTypes
      <3> QED BY <1>3, <2>1, <3>1, <3>2, <3>3 DEF In
    <2>2. CASE n # w
      <3>1. n \in 1 .. written /\ n \in Nat
        BY <1>1, <1>2, <1>3, <2>2, SMTT(30)
      <3>2. Seg(n)' = Seg(n) /\ loc'[n][2] = loc[n][2] /\ Seg(n) \in Segs
        BY <1>1, <1>4, <3>1 DEF Seg
      <3>3. Has(dat'[Seg(n)], loc[n][2], n) <=> Has(file[Seg(n)], loc[n][2], n)
        <4>1. CASE Seg(n) = s
          <5>1. PICK f \in Seq(0 .. w) : f = file[s]
            BY <1>6
          <5>2. Has(Append(f, w), loc[n][2], n) <=> Has(f, loc[n][2], n)
            BY <2>2, <3>1, AppendHas
          <5> QED BY <1>8, <4>1, <5>1, <5>2
        <4>2. CASE Seg(n) # s
          BY <1>8, <3>2, <4>2
        <4> QED BY <4>1, <4>2
      <3>4. In(file[Seg(n)], n) <=> n \notin lost
        BY <3>1
      <3> QED BY <1>3, <3>2, <3>3, <3>4 DEF In
    <2> QED BY <2>1, <2>2
  <1>12. Evolves /\ written' = written + 1
    BY <1>2, <1>3, <1>4 DEF Evolves
  <1> QED BY <1>9, <1>10, <1>11, <1>12 DEF Primary

\* Write and Rotate.
LEMMA WriteStep ==
    ASSUME PrimaryTypes, Primary, Write \/ Rotate
    PROVE  PrimaryTypes' /\ Primary' /\ Evolves /\ written' = written + 1
  <1>1. Top \in Segs /\ Newer(Top) /\ dat[Top] \in Seq(0 .. written)
    BY TopFacts
  <1>2. dat \in [Segs -> File(written)] /\ written \in Nat
    BY Constants, SMTT(30) DEF PrimaryTypes
  <1>3. \A n \in 1 .. written : In(dat[Seg(n)], n) <=> n \notin lost
    BY DEF Primary
  <1>4. CASE Write
    <2>1. \A t \in Segs : dat[t] # Absent => t <= Top
      BY <1>1 DEF Newer
    <2>2. WriteTo(Top, dat)
      BY <1>4 DEF Write
    <2> QED BY <1>1, <1>2, <1>3, <2>1, <2>2, WriteToStep
  <1>5. CASE Rotate
    <2>1. PICK s \in Segs : s = Top + 1
      BY <1>5 DEF Rotate
    <2>2. PICK file : file = [dat EXCEPT ![Top] = Append(@, Footer), ![Top + 1] = << >>]
      OBVIOUS
    <2>3. WriteTo(s, file)
      BY <1>5, <2>1, <2>2 DEF Rotate
    <2>4. s # Top /\ dat[s] = Absent
      BY <1>1, <2>1, Constants, SMTT(30) DEF Newer
    <2>5. Append(dat[Top], Footer) \in Seq(0 .. written)
      BY <1>1, <1>2, AppendHas, SMTT(30) DEF Footer
    <2>6. /\ file \in [Segs -> File(written)] /\ file[s] = << >>
          /\ file[Top] = Append(dat[Top], Footer)
          /\ \A t \in Segs \ {s, Top} : file[t] = dat[t]
      <3>1. PICK t \in Segs, foot \in Seq(0 .. written) : t = Top /\ foot = Append(dat[Top], Footer)
        BY <1>1, <2>5
      <3>2. file = [dat EXCEPT ![t] = foot, ![s] = << >>] /\ t # s
        BY <1>2, <2>1, <2>2, <2>4, <3>1
      <3>3. foot \in File(written) /\ << >> \in File(written)
        BY SMTT(30) DEF File
      <3>4. /\ file \in [Segs -> File(written)] /\ file[s] = << >> /\ file[t] = foot
            /\ \A u \in Segs \ {s, t} : file[u] = dat[u]
        BY <1>2, <3>2, <3>3
      <3> QED BY <3>1, <3>4
    <2>7. << >> \in Seq(0 .. written) /\ \A p, n : ~Has(<< >>, p, n)
      BY SMTT(30) DEF Has
    <2>8. \A t \in Segs : file[t] # Absent => t <= s
      <3>1. \A t \in Segs : dat[t] # Absent => t <= Top
        BY <1>1 DEF Newer
      <3>2. Top <= s /\ s <= s /\ \A t \in Segs : t <= Top => t <= s
        BY <1>1, <2>1, Constants, SMTT(30)
      <3> QED BY <1>1, <2>6, <3>1, <3>2
    <2>9. ASSUME NEW n \in 1 .. written PROVE In(file[Seg(n)], n) <=> n \notin lost
      <3>1. Seg(n) \in Segs /\ n \in Nat /\ n # Footer
        BY Constants, SMTT(30) DEF PrimaryTypes, Seg, Records, Footer
      <3>2. Has(file[Seg(n)], loc[n][2], n) <=> Has(dat[Seg(n)], loc[n][2], n)
        <4>1. CASE Seg(n) = s
          BY <2>4, <2>6, <2>7, <4>1 DEF Has
        <4>2. CASE Seg(n) = Top
          <5>1. PICK f \in Seq(0 .. written) : f = dat[Top]
            BY <1>1
          <5>2. Has(Append(f, 0), loc[n][2], n) <=> Has(f, loc[n][2], n)
            BY <1>2, <3>1, AppendHas DEF Footer
          <5> QED BY <2>6, <4>2, <5>1, <5>2 DEF Footer
        <4>3. CASE Seg(n) \notin {s, Top}
          BY <2>6, <3>1, <4>3
        <4> QED BY <4>1, <4>2, <4>3
      <3> QED BY <1>3, <3>2 DEF In
    <2> QED BY <2>3, <2>6, <2>7, <2>8, <2>9, WriteToStep
  <1> QED BY <1>4, <1>5

\* The primary starts again with a part of its newest file.
LEMMA RestartStep ==
    ASSUME PrimaryTypes, Primary, NEW file \in Seq(0 .. written),
           \A p : \A n \in 1 .. written : Has(file, p, n) => Has(dat[Top], p, n),
           RestartWith(file)
    PROVE  PrimaryTypes' /\ Primary' /\ Evolves /\ written' = written
  <1>1. Top \in Segs /\ Newer(Top) /\ dat[Top] \in Seq(0 .. written)
    BY TopFacts
  <1>2. /\ dat \in [Segs -> File(written)] /\ written \in Nat
        /\ loc \in [Records -> Segs \X Nat] /\ written \in 0 .. MaxRecords
        /\ committed \subseteq 1 .. written /\ lost \subseteq 1 .. written
    BY Constants, SMTT(30) DEF PrimaryTypes
  <1>3. /\ dat' = [dat EXCEPT ![Top] = Valid(file)]
        /\ lost' = {n \in 1 .. written : At(dat'[loc[n][1]], n) # n}
        /\ committed' = committed \ lost' /\ UNCHANGED <<written, loc>>
    BY DEF RestartWith
  <1>4. Valid(file) \in Seq(0 .. written) /\ \A p, n : Has(Valid(file), p, n) => Has(file, p, n)
    BY <1>2, ValidPrefix
  <1>5. /\ dat' \in [Segs -> File(written)] /\ dat'[Top] = Valid(file)
        /\ \A t \in Segs \ {Top} : dat'[t] = dat[t]
    BY <1>1, <1>2, <1>3, <1>4 DEF File
  <1>6. PrimaryTypes'
    BY <1>2, <1>3, <1>5 DEF PrimaryTypes
  <1>7. \E t \in Segs : Newer(t)'
    <2>1. Valid(file) # Absent
      BY <1>2, <1>4, NotAFile
    <2>2. PICK t \in Segs : t = Top
      BY <1>1
    <2>3. dat'[t] # Absent /\ \A u \in Segs : dat'[u] # Absent => u <= t
      BY <1>1, <1>5, <2>1, <2>2 DEF Newer
    <2> QED BY <2>3 DEF Newer
  <1>8. ASSUME NEW n \in 1 .. written
        PROVE  /\ In(dat'[Seg(n)], n) <=> n \notin lost'
               /\ In(dat'[Seg(n)], n) => In(dat[Seg(n)], n)
    <2>1. n \in Nat /\ n # 0 /\ Seg(n) \in Segs
      BY <1>2, Constants, SMTT(30) DEF Seg, Records
    <2>2. At(dat'[Seg(n)], n) = n <=> In(dat'[Seg(n)], n)
      BY <2>1, AtIn
    <2>3. In(dat'[Seg(n)], n) => In(dat[Seg(n)], n)
      <3>1. CASE Seg(n) = Top
        BY <1>4, <1>5, <3>1 DEF In
      <3>2. CASE Seg(n) # Top
        BY <1>5, <2>1, <3>2
      <3> QED BY <3>1, <3>2
    <2> QED BY <1>3, <2>2, <2>3 DEF Seg
  <1>9. lost \subseteq lost'
    BY <1>2, <1>8 DEF Primary
  <1>10. \A n \in 1 .. written' : (In(dat[Seg(n)], n))' <=> n \notin lost'
    <2>1. \A n : (In(dat[Seg(n)], n))' <=> In(dat'[Seg(n)], n)
      BY <1>3 DEF In, Seg
    <2> QED BY <1>3, <1>8, <2>1
  <1>11. Primary'
    BY <1>7, <1>10 DEF Primary
  <1> QED BY <1>3, <1>6, <1>9, <1>11 DEF Evolves

\* The rows of a batch are written.
LEMMA CommitStep ==
    ASSUME PrimaryTypes, Primary, Commit
    PROVE  PrimaryTypes' /\ Primary' /\ Evolves
  <1>1. UNCHANGED <<dat, written, loc, lost>> /\ committed' = (1 .. written) \ lost
    BY DEF Commit
  <1>2. PrimaryTypes'
    BY <1>1 DEF PrimaryTypes
  <1>3. \A s : Newer(s)' <=> Newer(s)
    BY <1>1 DEF Newer
  <1>4. \A n : (In(dat[Seg(n)], n))' <=> In(dat[Seg(n)], n)
    BY <1>1 DEF In, Seg
  <1>5. Primary'
    BY <1>1, <1>3, <1>4 DEF Primary
  <1> QED BY <1>1, <1>2, <1>5 DEF Evolves

\* The two ways in which the primary starts again.
LEMMA PrimaryRestartsStep ==
    ASSUME PrimaryTypes, Primary, PrimaryRestarts
    PROVE  PrimaryTypes' /\ Primary' /\ Evolves /\ Fault
           /\ UNCHANGED <<replicaVars, syncVars, covered, read>>
  <1>1. Top \in Segs /\ dat[Top] \in Seq(0 .. written) /\ written \in Nat
    BY TopFacts, Constants, SMTT(30) DEF PrimaryTypes
  <1>2. PICK file : RestartWith(file) /\
          (\/ file = IF dat[Top] = << >> THEN << >> ELSE Append(dat[Top], Footer)
           \/ \E k \in 0 .. Len(dat[Top]) : file = SubSeq(dat[Top], 1, k))
    BY DEF PrimaryRestarts
  <1>3. /\ file \in Seq(0 .. written)
        /\ \A p : \A n \in 1 .. written : Has(file, p, n) => Has(dat[Top], p, n)
    <2>1. CASE file = << >>
      BY <2>1, SMTT(30) DEF Has
    <2>2. CASE file = Append(dat[Top], Footer)
      <3>1. file \in Seq(0 .. written)
        BY <1>1, <2>2, AppendHas, SMTT(30) DEF Footer
      <3>2. \A n \in 1 .. written : n \in Nat /\ n # 0
        BY <1>1, SMTT(30)
      <3> QED BY <1>1, <2>2, <3>1, <3>2, AppendHas DEF Footer
    <2>3. CASE \E k \in 0 .. Len(dat[Top]) : file = SubSeq(dat[Top], 1, k)
      <3>1. PICK k \in 0 .. Len(dat[Top]) : file = SubSeq(dat[Top], 1, k)
        BY <2>3
      <3>2. /\ file \in Seq(0 .. written) /\ DOMAIN file = 1 .. k
            /\ \A i \in 1 .. k : file[i] = dat[Top][i]
        BY <1>1, <3>1, SMTT(30)
      <3>3. \A i \in 1 .. k : i \in DOMAIN dat[Top]
        BY <1>1, SMTT(30)
      <3>4. dat[Top] # Absent
        BY <1>1, NotAFile
      <3> QED BY <3>2, <3>3, <3>4 DEF Has
    <2> QED BY <1>2, <2>1, <2>2, <2>3
  <1>4. PrimaryTypes' /\ Primary' /\ Evolves
    BY <1>2, <1>3, RestartStep
  <1> QED BY <1>2, <1>4 DEF RestartWith

\* The records of the past are where they were.
LEMMA Past ==
    ASSUME PrimaryTypes, Evolves, NEW n \in 1 .. written
    PROVE  Seg(n)' = Seg(n) /\ loc'[n][2] = loc[n][2] /\ Seg(n) \in Segs
           /\ n \in Nat /\ n # 0 /\ (n \in Live' => n \in Live)
  BY Constants, SMTT(30) DEF PrimaryTypes, Evolves, Seg, Live, Records

\* What the primary does leaves the replica right: a new record is in no copy,
\* and of the old ones some are lost.
LEMMA PrimaryFrame ==
    ASSUME IInv, PrimaryTypes', Evolves, UNCHANGED <<replicaVars, syncVars, covered, read>>
    PROVE  /\ ReplicaTypes' /\ SyncTypes' /\ ReadTypes'
           /\ Coming' /\ Round' /\ Covers' /\ Handles'
           /\ \A r \in Readers : Reading(r)'
  <1>1. /\ written \in Nat /\ written' \in Nat /\ written <= written'
        /\ \A n \in 1 .. written : n \in 1 .. written'
        /\ \A n \in 1 .. written' : n \in 1 .. written \/ (n = written + 1 /\ n \in Nat)
    BY Constants, SMTT(30) DEF IInv, Types, PrimaryTypes, Evolves
  <1>2. File(written) \subseteq File(written')
    BY <1>1, Wider
  <1>3. /\ UNCHANGED <<copy, own, cached, same, step, at, listed, tmp, begun, covered, read>>
    BY DEF replicaVars, syncVars
  <1>4. ReplicaTypes'
    BY <1>2, <1>3 DEF IInv, Types, ReplicaTypes
  <1>5. SyncTypes'
    BY <1>1, <1>2, <1>3 DEF IInv, Types, SyncTypes
  <1>6. ReadTypes'
    <2>1. \A r \in Readers : read[r].pc \in {"open", "read", "bad"} => read[r].rec \in 1 .. written
      BY DEF IInv, Types, ReadTypes
    <2>2. read \in [Readers -> [pc : {"idle", "open", "read", "bad", "over"},
                               rec : 0 .. MaxRecords, held : File(written'),
                               closed : BOOLEAN, right : BOOLEAN, sure : BOOLEAN]]
      BY <1>2 DEF IInv, Types, ReadTypes
    <2> QED BY <1>1, <1>3, <2>1, <2>2 DEF ReadTypes
  <1>7. \A n \in 1 .. written : /\ Seg(n)' = Seg(n) /\ loc'[n][2] = loc[n][2] /\ Seg(n) \in Segs
                               /\ (n \in Live' => n \in Live)
    BY Past DEF IInv, Types
  <1>8. Coming'
    <2> SUFFICES ASSUME step' = "rename", NEW n \in Live', Seg(n)' = at',
                        (In(copy[at], n))' \/ n \in begun'
                 PROVE  (In(tmp, n))'
      BY DEF Coming
    <2>1. n \in 1 .. written
      <3>1. CASE n \in begun'
        BY <1>3, <3>1 DEF IInv, Types, SyncTypes
      <3>2. CASE (In(copy[at], n))'
        <4>1. Has(copy[at], loc'[n][2], n)
          BY <1>3, <3>2 DEF In
        <4>2. copy[at] \in File(written)
          BY DEF IInv, Types, ReplicaTypes, SyncTypes
        <4>3. n \in 0 .. written
          BY <1>1, <4>1, <4>2, HasRange
        <4>4. n \in 1 .. written'
          BY DEF Live
        <4> QED BY <1>1, <4>3, <4>4, SMTT(30)
      <3> QED BY <3>1, <3>2
    <2>2. n \in Live /\ Seg(n) = at /\ (In(copy[at], n) \/ n \in begun) /\ step = "rename"
      BY <1>3, <1>7, <2>1 DEF In
    <2>3. In(tmp, n)
      BY <2>2 DEF IInv, Coming
    <2> QED BY <1>3, <1>7, <2>1, <2>3 DEF In
  <1>9. Round'
    <2> SUFFICES ASSUME step' # "idle", NEW n \in begun' \cap Live'
                 PROVE  (/\ listed[Seg(n)] = Changed \/ In(listed[Seg(n)], n)
                         /\ Seg(n) < at => In(copy[Seg(n)], n))'
      BY DEF Round
    <2>1. n \in 1 .. written
      BY <1>3 DEF IInv, Types, SyncTypes
    <2>2. /\ listed[Seg(n)] = Changed \/ In(listed[Seg(n)], n)
          /\ Seg(n) < at => In(copy[Seg(n)], n)
      BY <1>3, <1>7, <2>1 DEF IInv, Round
    <2> QED BY <1>3, <1>7, <2>1, <2>2 DEF In
  <1>10. Covers'
    <2> SUFFICES ASSUME NEW n \in covered' \cap Live'
                 PROVE  (In(copy[Seg(n)], n))'
      BY DEF Covers
    <2>1. n \in 1 .. written
      BY <1>3 DEF IInv, Types, SyncTypes
    <2>2. In(copy[Seg(n)], n)
      BY <1>3, <1>7, <2>1 DEF IInv, Covers
    <2> QED BY <1>3, <1>7, <2>1, <2>2 DEF In
  <1>11. \A r \in Readers : read[r].pc \in {"open", "read", "bad"} =>
             /\ Segment(r)' = Segment(r) /\ read[r].rec \in 1 .. written
             /\ loc'[read[r].rec][2] = loc[read[r].rec][2]
             /\ (read[r].rec \in Live' => read[r].rec \in Live)
    BY <1>3, <1>7, SMTT(30) DEF IInv, Types, ReadTypes, Segment, Seg
  <1>12. Handles'
    BY <1>3, <1>11 DEF IInv, Handles, Opening
  <1>13. ASSUME NEW r \in Readers PROVE Reading(r)'
    <2>1. Reading(r) /\ lost \subseteq lost'
      BY DEF IInv, Evolves
    <2>2. PICK q : q = read[r] /\ q = read'[r]
      BY <1>3
    <2>3. q.pc = "open" /\ q.right /\ q.rec \in Live' => (In(copy[Segment(r)], read[r].rec))'
      BY <1>3, <1>11, <2>1, <2>2, SMTT(30) DEF Reading, In
    <2>4. q.pc = "read" /\ q.right /\ q.rec \in Live' => (In(read[r].held, read[r].rec))'
      BY <1>3, <1>11, <2>1, <2>2, SMTT(30) DEF Reading, In
    <2>5. /\ q.pc = "bad" /\ q.right => q.rec \in lost'
          /\ q.pc \in {"open", "read", "bad"} /\ q.sure => q.right \/ q.rec \in lost'
      BY <2>1, <2>2 DEF Reading
    <2> QED BY <2>2, <2>3, <2>4, <2>5 DEF Reading
  <1> QED BY <1>4, <1>5, <1>6, <1>8, <1>9, <1>10, <1>12, <1>13

\* Every step of the primary keeps the invariant.
LEMMA PrimaryStep ==
    ASSUME IInv, Write \/ Rotate \/ Commit \/ PrimaryRestarts
    PROVE  IInv'
  <1>1. PrimaryTypes /\ Primary /\ faults \in 0 .. MaxFaults
    BY DEF IInv, Types
  <1>2. PrimaryTypes' /\ Primary' /\ Evolves
    BY <1>1, WriteStep, CommitStep, PrimaryRestartsStep
  <1>3. UNCHANGED <<replicaVars, syncVars, covered, read>> /\ faults' \in {faults, faults + 1}
        /\ (faults' # faults => faults < MaxFaults)
    <2>1. CASE Write \/ Rotate
      BY <2>1 DEF Write, Rotate, WriteTo
    <2>2. CASE Commit
      BY <2>2 DEF Commit
    <2>3. CASE PrimaryRestarts
      BY <1>1, <2>3, PrimaryRestartsStep DEF Fault
    <2> QED BY <2>1, <2>2, <2>3
  <1>4. faults' \in 0 .. MaxFaults
    BY <1>1, <1>3, Constants, SMTT(30)
  <1> QED BY <1>2, <1>3, <1>4, PrimaryFrame DEF IInv, Types

-----------------------------------------------------------------------------
(* shard-sync.                                                             *)

\* The primary is not touched.
LEMMA PrimaryStays ==
    ASSUME PrimaryTypes, Primary, UNCHANGED primaryVars
    PROVE  /\ PrimaryTypes' /\ Primary' /\ Live' = Live
           /\ \A n : Seg(n)' = Seg(n)
           /\ UNCHANGED <<dat, written, loc, committed, lost>>
  <1>1. UNCHANGED <<dat, written, loc, committed, lost>>
    BY DEF primaryVars
  <1>2. \A s : Newer(s)' <=> Newer(s)
    BY <1>1 DEF Newer
  <1>3. \A n : (In(dat[Seg(n)], n))' <=> In(dat[Seg(n)], n)
    BY <1>1 DEF In, Seg
  <1>4. Primary'
    BY <1>1, <1>2, <1>3 DEF Primary
  <1> QED BY <1>1, <1>4 DEF PrimaryTypes, Live, Seg

\* The readers are not, and what they hold is as good as it was.
LEMMA ReadersStay ==
    ASSUME IInv, UNCHANGED <<primaryVars, cached, read>>,
           same' \subseteq same, \A s \in same' : copy'[s] = copy[s],
           \A n \in Live : In(copy[Seg(n)], n) => Has(copy'[Seg(n)], loc[n][2], n)
    PROVE  ReadTypes' /\ Handles' /\ \A r \in Readers : Reading(r)'
  <1>1. UNCHANGED <<written, loc, lost, cached, read>> /\ Live' = Live
    BY DEF primaryVars, Live
  <1>2. ReadTypes'
    BY <1>1 DEF IInv, Types, ReadTypes
  <1>3. \A r \in Readers : (Opening(r)' <=> Opening(r)) /\ Segment(r)' = Segment(r)
    BY <1>1 DEF Opening, Segment
  <1>4. Handles'
    BY <1>1, <1>3 DEF IInv, Handles
  <1>5. ASSUME NEW r \in Readers PROVE Reading(r)'
    <2>1. Reading(r) /\ Segment(r) = Seg(read[r].rec)
      BY DEF IInv, Segment, Seg
    <2> QED BY <1>1, <1>3, <2>1 DEF Reading, In
  <1> QED BY <1>2, <1>4, <1>5

\* A round goes on behind a file whose copy has what the round is about.
LEMMA OnwardStep ==
    ASSUME PrimaryTypes, Primary, SyncTypes, UNCHANGED primaryVars,
           step # "idle", Onward, tmp' \in File(written),
           \A n \in begun \cap Live :
               /\ listed[Seg(n)] = Changed \/ In(listed[Seg(n)], n)
               /\ Seg(n) <= at => Has(copy'[Seg(n)], loc[n][2], n),
           \A n \in covered \cap Live : Has(copy'[Seg(n)], loc[n][2], n)
    PROVE  SyncTypes' /\ Coming' /\ Round' /\ Covers'
  <1>1. UNCHANGED <<written, loc, lost>> /\ Live' = Live /\ \A n : Seg(n)' = Seg(n)
    BY PrimaryStays
  <1>2. \A n \in begun \cup covered : Seg(n) \in Segs
    BY Constants, SMTT(30) DEF PrimaryTypes, SyncTypes, Seg, Records
  <1>3. CASE at = MaxSegment
    <2>1. /\ step' = "idle" /\ at' = 0 /\ listed' = [s \in Segs |-> Absent]
          /\ covered' = covered \cup (begun \ lost) /\ begun' = {}
      BY <1>3 DEF Onward
    <2>2. SyncTypes'
      BY <1>1, <2>1, Constants DEF SyncTypes, File
    <2>3. ASSUME NEW n \in covered' \cap Live' PROVE (In(copy[Seg(n)], n))'
      <3>1. n \in Live /\ (n \in covered \/ n \in begun)
        BY <1>1, <2>1
      <3>2. Seg(n) <= at
        BY <1>2, <1>3, <3>1, Constants
      <3>3. Has(copy'[Seg(n)], loc[n][2], n)
        BY <3>1, <3>2
      <3> QED BY <1>1, <3>3 DEF In
    <2> QED BY <2>1, <2>2, <2>3 DEF Coming, Round, Covers
  <1>4. CASE at # MaxSegment
    <2>1. /\ step' = "compare" /\ at' = at + 1 /\ UNCHANGED <<listed, begun, covered>>
      BY <1>4 DEF Onward
    <2>2. SyncTypes'
      BY <1>1, <1>4, <2>1, Constants DEF SyncTypes
    <2>3. ASSUME NEW n \in covered' \cap Live' PROVE (In(copy[Seg(n)], n))'
      BY <1>1, <2>1 DEF In
    <2>4. ASSUME NEW n \in begun' \cap Live'
          PROVE  (/\ listed[Seg(n)] = Changed \/ In(listed[Seg(n)], n)
                  /\ Seg(n) < at => In(copy[Seg(n)], n))'
      <3>1. n \in begun \cap Live
        BY <1>1, <2>1
      <3>2. listed[Seg(n)] = Changed \/ In(listed[Seg(n)], n)
        BY <3>1
      <3>3. Seg(n) <= at => Has(copy'[Seg(n)], loc[n][2], n)
        BY <3>1
      <3>4. Seg(n) < at + 1 => Seg(n) <= at
        BY <1>2, <3>1, SegOrder DEF SyncTypes
      <3> QED BY <1>1, <2>1, <3>2, <3>3, <3>4 DEF In
    <2> QED BY <2>1, <2>2, <2>3, <2>4 DEF Coming, Round, Covers
  <1> QED BY <1>3, <1>4

\* The primary lists its files.
LEMMA ListStep ==
    ASSUME IInv, List
    PROVE  IInv'
  <1>1. PrimaryTypes /\ Primary /\ SyncTypes /\ ReplicaTypes /\ faults \in 0 .. MaxFaults
    BY DEF IInv, Types
  <1>2. /\ UNCHANGED primaryVars /\ UNCHANGED <<copy, own, cached, same, tmp, covered, read, faults>>
        /\ step' = "compare" /\ at' = 0 /\ begun' = committed
        /\ listed' \in {dat, [dat EXCEPT ![Top] = Changed]}
    BY DEF List, replicaVars
  <1>3. /\ PrimaryTypes' /\ Primary' /\ Live' = Live /\ \A n : Seg(n)' = Seg(n)
        /\ UNCHANGED <<dat, written, loc, committed, lost>>
    BY <1>1, <1>2, PrimaryStays
  <1>4. ReplicaTypes'
    BY <1>1, <1>2, <1>3 DEF ReplicaTypes
  <1>5. Top \in Segs /\ dat \in [Segs -> File(written)]
    BY <1>1, TopFacts DEF PrimaryTypes
  <1>6. /\ listed' \in [Segs -> File(written) \cup {Changed}]
        /\ \A s \in Segs : listed'[s] \in {Changed, dat[s]}
    BY <1>2, <1>5
  <1>7. SyncTypes'
    BY <1>1, <1>2, <1>3, <1>6, Constants DEF SyncTypes, PrimaryTypes
  <1>8. ASSUME NEW n \in begun' \cap Live'
        PROVE  (/\ listed[Seg(n)] = Changed \/ In(listed[Seg(n)], n)
                /\ Seg(n) < at => In(copy[Seg(n)], n))'
    <2>1. n \in Live /\ n \in 1 .. written /\ n \notin lost
      BY <1>3 DEF Live
    <2>2. Seg(n) \in Segs /\ ~(Seg(n) < 0)
      BY <1>1, <2>1, SegOf, SegOrder, Constants
    <2>3. In(dat[Seg(n)], n)
      BY <1>1, <2>1 DEF Primary
    <2> QED BY <1>2, <1>3, <1>6, <2>2, <2>3 DEF In
  <1>9. Round' /\ Coming'
    BY <1>2, <1>8 DEF Round, Coming
  <1>10. Covers'
    BY <1>2, <1>3 DEF IInv, Covers, In
  <1>11. ReadTypes' /\ Handles' /\ \A r \in Readers : Reading(r)'
    BY <1>2, ReadersStay DEF In
  <1> QED BY <1>1, <1>2, <1>3, <1>4, <1>7, <1>9, <1>10, <1>11 DEF IInv, Types

\* A file that is there already, or is not listed, is passed over.
LEMMA SkipStep ==
    ASSUME IInv, Skip
    PROVE  IInv'
  <1>1. PrimaryTypes /\ Primary /\ SyncTypes /\ ReplicaTypes /\ faults \in 0 .. MaxFaults
    BY DEF IInv, Types
  <1>2. /\ UNCHANGED primaryVars /\ UNCHANGED <<copy, own, cached, same, tmp, read, faults>>
        /\ step = "compare" /\ Onward /\ (listed[at] = Absent \/ copy[at] = listed[at])
    BY DEF Skip, replicaVars, IsFileInSync
  <1>3. /\ PrimaryTypes' /\ Primary' /\ Live' = Live /\ written' = written
    BY <1>1, <1>2, PrimaryStays
  <1>4. ReplicaTypes'
    BY <1>1, <1>2, <1>3 DEF ReplicaTypes
  <1>5. copy[at] # Changed
    <2>1. copy[at] \in File(written) /\ written \in Nat
      BY <1>1, Constants, SMTT(30) DEF ReplicaTypes, SyncTypes, PrimaryTypes
    <2> QED BY <2>1, NotAFile
  <1>6. ASSUME NEW n \in begun \cap Live
        PROVE  /\ listed[Seg(n)] = Changed \/ In(listed[Seg(n)], n)
               /\ Seg(n) <= at => Has(copy'[Seg(n)], loc[n][2], n)
    <2>1. /\ listed[Seg(n)] = Changed \/ In(listed[Seg(n)], n)
          /\ Seg(n) < at => In(copy[Seg(n)], n)
      BY <1>2 DEF IInv, Round
    <2>2. Seg(n) = at => In(copy[at], n)
      BY <1>2, <1>5, <2>1, Constants DEF In, Has
    <2>3. Seg(n) <= at => Seg(n) < at \/ Seg(n) = at
      <3>1. n \in 1 .. written /\ at \in Segs
        BY <1>1 DEF Live, SyncTypes
      <3>2. Seg(n) \in Segs
        BY <1>1, <3>1, SegOf
      <3> QED BY <3>1, <3>2, SegOrder
    <2> QED BY <1>2, <2>1, <2>2, <2>3 DEF In
  <1>7. \A n \in covered \cap Live : Has(copy'[Seg(n)], loc[n][2], n)
    BY <1>2 DEF IInv, Covers, In
  <1>8. tmp' \in File(written) /\ step # "idle"
    BY <1>1, <1>2 DEF SyncTypes
  <1>9. SyncTypes' /\ Coming' /\ Round' /\ Covers'
    BY <1>1, <1>2, <1>6, <1>7, <1>8, OnwardStep
  <1>10. ReadTypes' /\ Handles' /\ \A r \in Readers : Reading(r)'
    BY <1>2, ReadersStay DEF In
  <1> QED BY <1>1, <1>2, <1>3, <1>4, <1>9, <1>10 DEF IInv, Types

\* A file is downloaded: it has every record of the segment that is not lost.
LEMMA DownloadStep ==
    ASSUME IInv, Download
    PROVE  IInv'
  <1>1. PrimaryTypes /\ Primary /\ SyncTypes /\ ReplicaTypes /\ faults \in 0 .. MaxFaults
    BY DEF IInv, Types
  <1>2. /\ UNCHANGED primaryVars
        /\ UNCHANGED <<copy, own, cached, same, at, listed, begun, covered, read, faults>>
        /\ step = "compare" /\ step' = "rename" /\ tmp' = dat[at]
    BY DEF Download, replicaVars
  <1>3. /\ PrimaryTypes' /\ Primary' /\ Live' = Live /\ \A n : Seg(n)' = Seg(n)
        /\ UNCHANGED <<dat, written, loc, committed, lost>>
    BY <1>1, <1>2, PrimaryStays
  <1>4. ReplicaTypes'
    BY <1>1, <1>2, <1>3 DEF ReplicaTypes
  <1>5. SyncTypes'
    BY <1>1, <1>2, <1>3 DEF SyncTypes, PrimaryTypes
  <1>6. \A n \in Live : In(dat[Seg(n)], n)
    BY <1>1 DEF Primary, Live
  <1>7. Coming'
    BY <1>2, <1>3, <1>6 DEF Coming, In
  <1>8. Round'
    BY <1>2, <1>3 DEF IInv, Round, In
  <1>9. Covers'
    BY <1>2, <1>3 DEF IInv, Covers, In
  <1>10. ReadTypes' /\ Handles' /\ \A r \in Readers : Reading(r)'
    BY <1>2, ReadersStay DEF In
  <1> QED BY <1>1, <1>2, <1>3, <1>4, <1>5, <1>7, <1>8, <1>9, <1>10 DEF IInv, Types

\* The download takes the place of the copy.
LEMMA RenameStep ==
    ASSUME IInv, Rename
    PROVE  IInv'
  <1>1. PrimaryTypes /\ Primary /\ SyncTypes /\ ReplicaTypes /\ faults \in 0 .. MaxFaults
    BY DEF IInv, Types
  <1>2. /\ UNCHANGED primaryVars /\ UNCHANGED <<cached, read, faults>>
        /\ step = "rename" /\ Onward /\ tmp' = Absent
        /\ copy' = [copy EXCEPT ![at] = tmp] /\ same' = same \ {at}
        /\ own' = IF own = at THEN Absent ELSE own
    BY DEF Rename
  <1>3. /\ PrimaryTypes' /\ Primary' /\ Live' = Live /\ written' = written
    BY <1>1, <1>2, PrimaryStays
  <1>4. /\ copy' \in [Segs -> File(written)] /\ copy'[at] = tmp
        /\ \A s \in Segs \ {at} : copy'[s] = copy[s]
    BY <1>1, <1>2 DEF ReplicaTypes, SyncTypes
  <1>5. ReplicaTypes'
    BY <1>1, <1>2, <1>3, <1>4 DEF ReplicaTypes
  <1>6. \A n \in Live : Seg(n) = at /\ (In(copy[at], n) \/ n \in begun) => In(tmp, n)
    BY <1>2 DEF IInv, Coming
  <1>7. \A n \in Live : Seg(n) \in Segs
    BY <1>1, SegOf DEF Live
  <1>8. \A n \in Live : In(copy[Seg(n)], n) => Has(copy'[Seg(n)], loc[n][2], n)
    BY <1>4, <1>6, <1>7 DEF In
  <1>9. ASSUME NEW n \in begun \cap Live
        PROVE  /\ listed[Seg(n)] = Changed \/ In(listed[Seg(n)], n)
               /\ Seg(n) <= at => Has(copy'[Seg(n)], loc[n][2], n)
    <2>1. /\ listed[Seg(n)] = Changed \/ In(listed[Seg(n)], n)
          /\ Seg(n) < at => In(copy[Seg(n)], n)
      BY <1>2 DEF IInv, Round
    <2>2. Seg(n) = at => Has(copy'[Seg(n)], loc[n][2], n)
      BY <1>4, <1>6 DEF In
    <2>3. Seg(n) <= at => Seg(n) < at \/ Seg(n) = at
      BY <1>1, <1>7, SegOrder DEF SyncTypes
    <2> QED BY <1>8, <2>1, <2>2, <2>3
  <1>10. \A n \in covered \cap Live : Has(copy'[Seg(n)], loc[n][2], n)
    BY <1>8 DEF IInv, Covers
  <1>11. tmp' \in File(written) /\ step # "idle"
    BY <1>2 DEF File
  <1>12. SyncTypes' /\ Coming' /\ Round' /\ Covers'
    BY <1>1, <1>2, <1>9, <1>10, <1>11, OnwardStep
  <1>13. same' \subseteq same /\ \A s \in same' : copy'[s] = copy[s]
    BY <1>1, <1>2, <1>4 DEF ReplicaTypes
  <1>14. ReadTypes' /\ Handles' /\ \A r \in Readers : Reading(r)'
    BY <1>2, <1>8, <1>13, ReadersStay
  <1> QED BY <1>1, <1>2, <1>3, <1>5, <1>12, <1>14 DEF IInv, Types

\* A round is given up.
LEMMA SyncFailsStep ==
    ASSUME IInv, SyncFails
    PROVE  IInv'
  <1>1. PrimaryTypes /\ Primary /\ SyncTypes /\ ReplicaTypes /\ faults \in 0 .. MaxFaults
    BY DEF IInv, Types
  <1>2. /\ UNCHANGED primaryVars /\ UNCHANGED <<copy, own, cached, same, covered, read>>
        /\ step' = "idle" /\ at' = 0 /\ tmp' = Absent /\ begun' = {}
        /\ listed' = [s \in Segs |-> Absent]
        /\ faults < MaxFaults /\ faults' = faults + 1
    BY DEF SyncFails, Fault, replicaVars
  <1>3. /\ PrimaryTypes' /\ Primary' /\ Live' = Live /\ \A n : Seg(n)' = Seg(n)
        /\ UNCHANGED <<dat, written, loc, committed, lost>>
    BY <1>1, <1>2, PrimaryStays
  <1>4. ReplicaTypes' /\ faults' \in 0 .. MaxFaults
    BY <1>1, <1>2, <1>3, Constants, SMTT(30) DEF ReplicaTypes
  <1>5. SyncTypes'
    BY <1>1, <1>2, <1>3, Constants DEF SyncTypes, File
  <1>6. Coming' /\ Round'
    BY <1>2 DEF Coming, Round
  <1>7. Covers'
    BY <1>2, <1>3 DEF IInv, Covers, In
  <1>8. ReadTypes' /\ Handles' /\ \A r \in Readers : Reading(r)'
    BY <1>2, ReadersStay DEF In
  <1> QED BY <1>3, <1>4, <1>5, <1>6, <1>7, <1>8 DEF IInv, Types

-----------------------------------------------------------------------------
(* The replica's server.                                                   *)

\* What a reader may hold.
Held(w) ==
    [pc : {"idle", "open", "read", "bad", "over"}, rec : 0 .. MaxRecords,
     held : File(w), closed : BOOLEAN, right : BOOLEAN, sure : BOOLEAN]

\* A reader that has opened nothing.
LEMMA NoHandle ==
    ASSUME NEW w \in Nat
    PROVE  /\ Idle \in Held(w) /\ Idle.pc = "idle"
           /\ Over \in Held(w) /\ Over.pc = "over"
  <1>1. Absent \in File(w) /\ 0 \in 0 .. MaxRecords
    BY Constants, SMTT(30) DEF File
  <1>2. Idle \in Held(w) /\ Idle.pc = "idle"
    BY <1>1 DEF Idle, Held
  <1>3. PICK q \in Held(w) : q = Idle
    BY <1>2
  <1>4. [q EXCEPT !.pc = "over"] \in Held(w) /\ [q EXCEPT !.pc = "over"].pc = "over"
    BY DEF Held
  <1> QED BY <1>2, <1>3, <1>4 DEF Over

\* A restart takes records out of the copies, and puts none in.
LEMMA RestartCopies ==
    ASSUME IInv, NEW s \in Segs, NEW left,
           left = copy \/ (own # Absent /\ left = [copy EXCEPT ![own] = Append(@, Footer)]),
           copy' = [left EXCEPT ![s] = IF @ = Absent THEN << >> ELSE Valid(@)]
    PROVE  /\ copy' \in [Segs -> File(written)] /\ copy'[s] # Absent
           /\ \A t \in Segs : \A p : \A n \in 1 .. written :
                  Has(copy'[t], p, n) => Has(copy[t], p, n)
  <1>1. /\ written \in Nat /\ copy \in [Segs -> File(written)] /\ own \in Segs \cup {Absent}
        /\ own # Absent => copy[own] # Absent
        /\ \A n \in 1 .. written : n \in Nat /\ n # Footer
    BY Constants, SMTT(30) DEF IInv, Types, PrimaryTypes, ReplicaTypes, Footer
  <1>2. /\ left \in [Segs -> File(written)]
        /\ \A t \in Segs : \A p : \A n \in 1 .. written :
               Has(left[t], p, n) => Has(copy[t], p, n)
    <2>1. CASE left = copy
      BY <1>1, <2>1
    <2>2. CASE own # Absent /\ left = [copy EXCEPT ![own] = Append(@, Footer)]
      <3>1. PICK o \in Segs : o = own
        BY <1>1, <2>2
      <3>2. copy[o] \in Seq(0 .. written)
        BY <1>1, <2>2, <3>1 DEF File
      <3>3. /\ Append(copy[o], Footer) \in Seq(0 .. written)
            /\ \A p : \A n \in 1 .. written : Has(Append(copy[o], Footer), p, n) => Has(copy[o], p, n)
        BY <1>1, <3>2, AppendHas, SMTT(30) DEF Footer
      <3>4. left \in [Segs -> File(written)] /\ left[o] = Append(copy[o], Footer)
            /\ \A t \in Segs \ {o} : left[t] = copy[t]
        BY <1>1, <2>2, <3>1, <3>3 DEF File
      <3> QED BY <3>3, <3>4
    <2> QED BY <2>1, <2>2
  <1>3. PICK new : new = IF left[s] = Absent THEN << >> ELSE Valid(left[s])
    OBVIOUS
  <1>4. new \in Seq(0 .. written) /\ \A p, n : Has(new, p, n) => Has(left[s], p, n)
    <2>1. CASE left[s] = Absent
      <3>1. new = << >> /\ \A p, n : ~Has(<< >>, p, n)
        BY <1>3, <2>1, SMTT(30) DEF Has
      <3> QED BY <3>1, SMTT(30)
    <2>2. CASE left[s] # Absent
      <3>1. left[s] \in Seq(0 .. written) /\ new = Valid(left[s])
        BY <1>2, <1>3, <2>2 DEF File
      <3> QED BY <1>1, <3>1, ValidPrefix
    <2> QED BY <2>1, <2>2
  <1>5. new # Absent /\ new \in File(written)
    BY <1>1, <1>4, NotAFile DEF File
  <1>6. copy' = [left EXCEPT ![s] = new]
    BY <1>3, <1>2
  <1>7. copy' \in [Segs -> File(written)] /\ copy'[s] = new
        /\ \A t \in Segs \ {s} : copy'[t] = left[t]
    <2>1. left \in [Segs -> File(written)]
      BY <1>2
    <2> QED BY <1>5, <1>6, <2>1
  <1> QED BY <1>2, <1>4, <1>5, <1>7

\* The server starts again: what it has cut off is covered no longer.
LEMMA ReplicaRestartsStep ==
    ASSUME IInv, ReplicaRestarts
    PROVE  IInv'
  <1>1. PrimaryTypes /\ Primary /\ SyncTypes /\ ReplicaTypes /\ faults \in 0 .. MaxFaults
    BY DEF IInv, Types
  <1>2. /\ UNCHANGED primaryVars /\ UNCHANGED <<step, at, listed, tmp>>
        /\ faults < MaxFaults /\ faults' = faults + 1
        /\ covered' = covered \ Cut /\ begun' = begun \ Cut
        /\ cached' = [s \in Segs |-> Absent] /\ same' = {}
        /\ read' = [r \in Readers |-> IF read[r].pc = "idle" THEN Idle ELSE Over]
    BY DEF ReplicaRestarts, Fault
  <1>3. /\ PrimaryTypes' /\ Primary' /\ Live' = Live /\ \A n : Seg(n)' = Seg(n)
        /\ UNCHANGED <<dat, written, loc, committed, lost>>
    BY <1>1, <1>2, PrimaryStays
  <1>4. PICK s \in Segs : /\ own' = s /\ copy'[s] # Absent
                          /\ copy' \in [Segs -> File(written)]
                          /\ \A t \in Segs : \A p : \A n \in 1 .. written :
                                 Has(copy'[t], p, n) => Has(copy[t], p, n)
    <2>1. PICK clean \in BOOLEAN, s \in Segs :
              LET left == IF clean /\ own # Absent /\ copy[own] # << >>
                          THEN [copy EXCEPT ![own] = Append(@, Footer)] ELSE copy
              IN /\ copy' = [left EXCEPT ![s] = IF @ = Absent THEN << >> ELSE Valid(@)]
                 /\ own' = s
      BY DEF ReplicaRestarts
    <2>2. PICK left : left = IF clean /\ own # Absent /\ copy[own] # << >>
                             THEN [copy EXCEPT ![own] = Append(@, Footer)] ELSE copy
      OBVIOUS
    <2>3. copy' = [left EXCEPT ![s] = IF @ = Absent THEN << >> ELSE Valid(@)] /\ own' = s
      BY <2>1, <2>2
    <2>4. left = copy \/ (own # Absent /\ left = [copy EXCEPT ![own] = Append(@, Footer)])
      BY <2>2
    <2>5. /\ copy' \in [Segs -> File(written)] /\ copy'[s] # Absent
          /\ \A t \in Segs : \A p : \A n \in 1 .. written :
                 Has(copy'[t], p, n) => Has(copy[t], p, n)
      BY <2>3, <2>4, RestartCopies
    <2> QED BY <2>3, <2>5
  <1>5. ReplicaTypes' /\ faults' \in 0 .. MaxFaults
    BY <1>1, <1>2, <1>3, <1>4, Constants, SMTT(30) DEF ReplicaTypes, File
  <1>6. SyncTypes'
    BY <1>1, <1>2, <1>3 DEF SyncTypes
  <1>7. ASSUME NEW n \in Live, n \notin Cut, In(copy[Seg(n)], n)
        PROVE  Has(copy'[Seg(n)], loc[n][2], n)
    <2>1. n \in 1 .. written /\ n \in Nat /\ n # 0
      BY <1>1, Constants, SMTT(30) DEF Live, PrimaryTypes
    <2>2. At(copy[Seg(n)], n) = n
      BY <1>7, <2>1, AtIn
    <2>3. At(copy'[Seg(n)], n) = n
      BY <1>7, <2>1, <2>2 DEF Cut, Seg
    <2> QED BY <2>1, <2>3, AtIn DEF In
  <1>8. Coming'
    <2> SUFFICES ASSUME step' = "rename", NEW n \in Live', Seg(n)' = at',
                        (In(copy[at], n))' \/ n \in begun'
                 PROVE  (In(tmp, n))'
      BY DEF Coming
    <2>1. n \in Live /\ n \in 1 .. written /\ Seg(n) = at /\ at \in Segs /\ step = "rename"
      BY <1>1, <1>2, <1>3 DEF Live, SyncTypes
    <2>2. In(copy[at], n) \/ n \in begun
      BY <1>2, <1>3, <1>4, <2>1 DEF In
    <2> QED BY <1>2, <1>3, <2>1, <2>2 DEF IInv, Coming, In
  <1>9. Round'
    <2> SUFFICES ASSUME step' # "idle", NEW n \in begun' \cap Live'
                 PROVE  (/\ listed[Seg(n)] = Changed \/ In(listed[Seg(n)], n)
                         /\ Seg(n) < at => In(copy[Seg(n)], n))'
      BY DEF Round
    <2>1. n \in begun \cap Live /\ n \notin Cut /\ step # "idle"
      BY <1>2, <1>3
    <2>2. /\ listed[Seg(n)] = Changed \/ In(listed[Seg(n)], n)
          /\ Seg(n) < at => In(copy[Seg(n)], n)
      BY <2>1 DEF IInv, Round
    <2> QED BY <1>2, <1>3, <1>7, <2>1, <2>2 DEF In
  <1>10. Covers'
    <2> SUFFICES ASSUME NEW n \in covered' \cap Live'
                 PROVE  (In(copy[Seg(n)], n))'
      BY DEF Covers
    <2>1. n \in covered \cap Live /\ n \notin Cut
      BY <1>2, <1>3
    <2> QED BY <1>3, <1>7, <2>1 DEF IInv, Covers, In
  <1>11. \A r \in Readers : read'[r] \in {Idle, Over}
    BY <1>2
  <1>12. ReadTypes'
    <2>1. written' \in Nat
      BY <1>3, Constants, SMTT(30) DEF PrimaryTypes
    <2>2. \A q \in {Idle, Over} : q \in Held(written') /\ q.pc \notin {"open", "read", "bad"}
      BY <2>1, NoHandle
    <2>3. read' \in [Readers -> Held(written')]
      BY <1>2, <2>2
    <2> QED BY <1>11, <2>2, <2>3 DEF ReadTypes, Held
  <1>13. \A r \in Readers : read'[r].pc \notin {"open", "read", "bad"}
    <2>1. Idle.pc = "idle" /\ Over.pc = "over"
      BY NoHandle
    <2> QED BY <1>11, <2>1
  <1>14. Handles' /\ \A r \in Readers : Reading(r)'
    BY <1>2, <1>13 DEF Handles, Opening, Reading
  <1> QED BY <1>3, <1>5, <1>6, <1>8, <1>9, <1>10, <1>12, <1>14 DEF IInv, Types

\* What a reader leaves alone.
LEMMA ReaderFrame ==
    ASSUME IInv, UNCHANGED <<primaryVars, copy, own, syncVars, covered, faults>>,
           cached' \in [Segs -> File(written)], same' \subseteq Segs,
           ReadTypes', Handles', \A r \in Readers : Reading(r)'
    PROVE  IInv'
  <1>1. PrimaryTypes /\ Primary /\ SyncTypes /\ ReplicaTypes /\ faults \in 0 .. MaxFaults
    BY DEF IInv, Types
  <1>2. UNCHANGED primaryVars /\ UNCHANGED <<copy, own, step, at, listed, tmp, begun, covered, faults>>
    BY DEF syncVars
  <1>3. /\ PrimaryTypes' /\ Primary' /\ Live' = Live /\ \A n : Seg(n)' = Seg(n)
        /\ UNCHANGED <<dat, written, loc, committed, lost>>
    BY <1>1, <1>2, PrimaryStays
  <1>4. ReplicaTypes'
    BY <1>1, <1>2, <1>3 DEF ReplicaTypes
  <1>5. SyncTypes'
    BY <1>1, <1>2, <1>3 DEF SyncTypes
  <1>6. Coming'
    BY <1>2, <1>3 DEF IInv, Coming, In
  <1>7. Round'
    BY <1>2, <1>3 DEF IInv, Round, In
  <1>8. Covers'
    BY <1>2, <1>3 DEF IInv, Covers, In
  <1> QED BY <1>1, <1>2, <1>3, <1>4, <1>5, <1>6, <1>7, <1>8 DEF IInv, Types

\* A reader that has not moved, or has had its handle closed.
LEMMA ReadingSame ==
    ASSUME UNCHANGED <<written, loc, lost, copy>>, NEW o \in Readers, Reading(o),
           read'[o].pc = read[o].pc, read'[o].rec = read[o].rec,
           read'[o].held = read[o].held, read'[o].right = read[o].right,
           read'[o].sure = read[o].sure
    PROVE  Reading(o)' /\ Segment(o)' = Segment(o) /\ (Opening(o)' <=> Opening(o))
  <1>1. Segment(o)' = Segment(o) /\ (Opening(o)' <=> Opening(o)) /\ Live' = Live
    BY DEF Segment, Opening, Live
  <1> QED BY <1>1 DEF Reading, In

\* A request starts: it knows whether the copy has its record, and what a round
\* has covered the copy has.
LEMMA BeginFacts ==
    ASSUME IInv, NEW r \in Readers, NEW n \in Records, Begin(r, n)
    PROVE  /\ n \in 1 .. written /\ n \in 0 .. MaxRecords /\ Seg(n) \in Segs
           /\ copy[Seg(n)] \in File(written)
           /\ \A o \in Readers : ~Opening(o)
           /\ \A s \in same : cached[s] = copy[s]
           /\ At(copy[Seg(n)], n) = n <=> In(copy[Seg(n)], n)
           /\ n \in covered => In(copy[Seg(n)], n) \/ n \in lost
           /\ UNCHANGED <<written, loc, lost, copy>>
  <1>1. PrimaryTypes /\ ReplicaTypes
    BY DEF IInv, Types
  <1>2. n \in committed /\ UNCHANGED <<written, loc, lost, copy>>
        /\ \A o \in Readers : ~Opening(o)
    BY DEF Begin, Opening, primaryVars
  <1>3. n \in 1 .. written /\ n \in Nat /\ n # 0 /\ n \in 0 .. MaxRecords /\ Seg(n) \in Segs
    BY <1>1, <1>2, Constants, SMTT(30) DEF PrimaryTypes, Records, Seg
  <1>4. At(copy[Seg(n)], n) = n <=> In(copy[Seg(n)], n)
    BY <1>3, AtIn
  <1>5. n \in covered => In(copy[Seg(n)], n) \/ n \in lost
    BY <1>3 DEF IInv, Covers, Live
  <1>6. \A s \in same : cached[s] = copy[s]
    BY <1>2 DEF IInv, Handles
  <1> QED BY <1>1, <1>2, <1>3, <1>4, <1>5, <1>6 DEF ReplicaTypes

\* The request itself.
LEMMA RequestFacts ==
    ASSUME NEW n \in 0 .. MaxRecords, NEW w \in Nat
    PROVE  /\ Request(n) \in Held(w) /\ Request(n).pc = "open" /\ Request(n).rec = n
           /\ Request(n).right <=> At(copy[Seg(n)], n) = n
           /\ Request(n).sure <=> n \in covered
  <1>1. Absent \in File(w)
    BY DEF File
  <1>2. Request(n) \in Held(w) /\ Request(n).pc = "open" /\ Request(n).rec = n
    BY <1>1, SMTT(30) DEF Request, Held
  <1>3. Request(n).right <=> At(copy[Seg(n)], n) = n
    BY DEF Request, Seg
  <1>4. Request(n).sure <=> n \in covered
    BY DEF Request
  <1> QED BY <1>2, <1>3, <1>4

\* The file cannot be found.
LEMMA StatFailsStep ==
    ASSUME IInv, NEW r \in Readers, NEW n \in Records, StatFails(r, n)
    PROVE  IInv'
  <1>1. /\ Begin(r, n) /\ UNCHANGED <<cached, same>> /\ read' = [read EXCEPT ![r] = Over]
        /\ UNCHANGED <<primaryVars, copy, own, syncVars, covered, faults>>
    BY DEF StatFails, Begin
  <1>2. /\ \A o \in Readers : ~Opening(o)
        /\ \A s \in same : cached[s] = copy[s]
        /\ UNCHANGED <<written, loc, lost, copy>>
    BY <1>1, BeginFacts
  <1>3. ReadTypes /\ ReplicaTypes
    BY DEF IInv, Types
  <1>4. read \in [Readers -> Held(written)]
    BY <1>3 DEF ReadTypes, Held
  <1>5. Over \in Held(written) /\ Over.pc = "over"
    BY NoHandle, Constants, SMTT(30) DEF IInv, Types, PrimaryTypes
  <1>6. read' \in [Readers -> Held(written)] /\ read'[r] = Over
        /\ \A o \in Readers \ {r} : read'[o] = read[o]
    BY <1>1, <1>4, <1>5
  <1>7. \A o \in Readers : read'[o].pc \in {"open", "read", "bad"} => read'[o].rec \in 1 .. written
    BY <1>3, <1>5, <1>6 DEF ReadTypes
  <1>8. ReadTypes'
    BY <1>2, <1>6, <1>7 DEF ReadTypes, Held
  <1>9. ASSUME NEW o \in Readers PROVE Reading(o)' /\ ~Opening(o)'
    <2>1. CASE o = r
      BY <1>5, <1>6, <2>1 DEF Reading, Opening
    <2>2. CASE o # r
      <3>1. read'[o] = read[o] /\ Reading(o) /\ ~Opening(o)
        BY <1>2, <1>6, <2>2 DEF IInv
      <3> QED BY <1>2, <3>1, ReadingSame
    <2> QED BY <2>1, <2>2
  <1>10. Handles'
    BY <1>1, <1>2, <1>9 DEF Handles
  <1>11. cached' \in [Segs -> File(written)] /\ same' \subseteq Segs
    BY <1>1, <1>3 DEF ReplicaTypes
  <1> QED BY <1>1, <1>8, <1>9, <1>10, <1>11, ReaderFrame

\* The cached handle is one of the file.
LEMMA UseCachedStep ==
    ASSUME IInv, NEW r \in Readers, NEW n \in Records, UseCached(r, n)
    PROVE  IInv'
  <1>1. /\ Begin(r, n) /\ UNCHANGED <<cached, same>> /\ Seg(n) \in same
        /\ read' = [read EXCEPT ![r] = [Request(n) EXCEPT !.pc = "read", !.held = cached[Seg(n)]]]
        /\ UNCHANGED <<primaryVars, copy, own, syncVars, covered, faults>>
    BY DEF UseCached, Begin, Seg
  <1>2. /\ \A o \in Readers : ~Opening(o)
        /\ \A s \in same : cached[s] = copy[s]
        /\ n \in 1 .. written /\ n \in 0 .. MaxRecords /\ copy[Seg(n)] \in File(written)
        /\ At(copy[Seg(n)], n) = n <=> In(copy[Seg(n)], n)
        /\ n \in covered => In(copy[Seg(n)], n) \/ n \in lost
        /\ UNCHANGED <<written, loc, lost, copy>>
    BY <1>1, BeginFacts
  <1>3. ReadTypes /\ ReplicaTypes /\ written \in Nat
    BY Constants, SMTT(30) DEF IInv, Types, PrimaryTypes
  <1>4. read \in [Readers -> Held(written)]
    BY <1>3 DEF ReadTypes, Held
  <1>5. PICK u : u = [Request(n) EXCEPT !.pc = "read", !.held = copy[Seg(n)]]
    OBVIOUS
  <1>6. /\ u \in Held(written) /\ u.pc = "read" /\ u.rec = n /\ u.held = copy[Seg(n)]
        /\ u.right <=> In(copy[Seg(n)], n)
        /\ u.sure <=> n \in covered
    <2>1. /\ Request(n) \in Held(written) /\ Request(n).rec = n
          /\ Request(n).right <=> In(copy[Seg(n)], n)
          /\ Request(n).sure <=> n \in covered
      BY <1>2, <1>3, RequestFacts
    <2>2. PICK q \in Held(written) : q = Request(n)
      BY <2>1
    <2>3. /\ u \in Held(written) /\ u.pc = "read" /\ u.rec = q.rec /\ u.held = copy[Seg(n)]
          /\ u.right = q.right /\ u.sure = q.sure
      BY <1>2, <1>5, <2>2 DEF Held
    <2> QED BY <2>1, <2>2, <2>3
  <1>7. read' = [read EXCEPT ![r] = u]
    BY <1>1, <1>2, <1>5
  <1>8. read' \in [Readers -> Held(written)] /\ read'[r] = u
        /\ \A o \in Readers \ {r} : read'[o] = read[o]
    BY <1>4, <1>6, <1>7
  <1>9. \A o \in Readers : read'[o].pc \in {"open", "read", "bad"} => read'[o].rec \in 1 .. written
    BY <1>2, <1>3, <1>6, <1>8 DEF ReadTypes
  <1>10. ReadTypes'
    BY <1>2, <1>8, <1>9 DEF ReadTypes, Held
  <1>11. ASSUME NEW o \in Readers PROVE Reading(o)' /\ ~Opening(o)'
    <2>1. CASE o = r
      <3>1. ~Opening(o)'
        BY <1>6, <1>8, <2>1 DEF Opening
      <3>2. u.right => Has(u.held, loc'[n][2], n)
        BY <1>2, <1>6 DEF In
      <3>3. u.sure => u.right \/ n \in lost'
        BY <1>2, <1>6
      <3>4. read'[o] = u /\ u.pc = "read" /\ u.rec = n
        BY <1>6, <1>8, <2>1
      <3> QED BY <3>1, <3>2, <3>3, <3>4 DEF Reading, In
    <2>2. CASE o # r
      <3>1. read'[o] = read[o] /\ Reading(o) /\ ~Opening(o)
        BY <1>2, <1>8, <2>2 DEF IInv
      <3> QED BY <1>2, <3>1, ReadingSame
    <2> QED BY <2>1, <2>2
  <1>12. Handles'
    BY <1>1, <1>2, <1>11 DEF Handles
  <1>13. cached' \in [Segs -> File(written)] /\ same' \subseteq Segs
    BY <1>1, <1>3 DEF ReplicaTypes
  <1> QED BY <1>1, <1>10, <1>11, <1>12, <1>13, ReaderFrame

\* The cached handle is closed; the file will be opened.
LEMMA RefreshStep ==
    ASSUME IInv, NEW r \in Readers, NEW n \in Records, Refresh(r, n)
    PROVE  IInv'
  <1>1. /\ Begin(r, n)
        /\ cached' = [cached EXCEPT ![Seg(n)] = Absent] /\ same' = same \cup {Seg(n)}
        /\ read' = [o \in Readers |->
                      IF o = r THEN Request(n)
                      ELSE IF read[o].pc = "read" /\ Segment(o) = Seg(n)
                      THEN [read[o] EXCEPT !.closed = TRUE] ELSE read[o]]
        /\ UNCHANGED <<primaryVars, copy, own, syncVars, covered, faults>>
    BY DEF Refresh, Begin, Seg
  <1>2. /\ \A o \in Readers : ~Opening(o)
        /\ \A s \in same : cached[s] = copy[s]
        /\ n \in 1 .. written /\ n \in 0 .. MaxRecords /\ Seg(n) \in Segs
        /\ At(copy[Seg(n)], n) = n <=> In(copy[Seg(n)], n)
        /\ n \in covered => In(copy[Seg(n)], n) \/ n \in lost
        /\ UNCHANGED <<written, loc, lost, copy>>
    BY <1>1, BeginFacts
  <1>3. ReadTypes /\ ReplicaTypes /\ written \in Nat
    BY Constants, SMTT(30) DEF IInv, Types, PrimaryTypes
  <1>4. read \in [Readers -> Held(written)]
    BY <1>3 DEF ReadTypes, Held
  <1>5. PICK q : q = Request(n)
    OBVIOUS
  <1>6. /\ q \in Held(written) /\ q.pc = "open" /\ q.rec = n
        /\ q.right <=> In(copy[Seg(n)], n)
        /\ q.sure <=> n \in covered
    BY <1>2, <1>3, <1>5, RequestFacts
  <1>7. read'[r] = q
    BY <1>1, <1>5
  <1>8. ASSUME NEW o \in Readers \ {r}
        PROVE  /\ read'[o] \in Held(written)
               /\ read'[o].pc = read[o].pc /\ read'[o].rec = read[o].rec
               /\ read'[o].held = read[o].held /\ read'[o].right = read[o].right
               /\ read'[o].sure = read[o].sure
    <2>1. read[o] \in Held(written) /\ read'[o] \in {read[o], [read[o] EXCEPT !.closed = TRUE]}
      BY <1>1, <1>4
    <2> QED BY <2>1 DEF Held
  <1>9. read' \in [Readers -> Held(written)]
    BY <1>1, <1>6, <1>7, <1>8
  <1>10. \A o \in Readers : read'[o].pc \in {"open", "read", "bad"} => read'[o].rec \in 1 .. written
    BY <1>2, <1>3, <1>6, <1>7, <1>8 DEF ReadTypes
  <1>11. ReadTypes'
    BY <1>2, <1>9, <1>10 DEF ReadTypes, Held
  <1>12. ASSUME NEW o \in Readers \ {r} PROVE Reading(o)' /\ ~Opening(o)'
    <2>1. Reading(o) /\ ~Opening(o)
      BY <1>2 DEF IInv
    <2> QED BY <1>2, <1>8, <2>1, ReadingSame
  <1>13. Reading(r)' /\ Opening(r)' /\ Segment(r)' = Seg(n)
    <2>1. Opening(r)' /\ Segment(r)' = Seg(n)
      BY <1>2, <1>6, <1>7 DEF Opening, Segment, Seg
    <2>2. q.right => Has(copy'[Seg(n)], loc'[n][2], n)
      BY <1>2, <1>6 DEF In
    <2>3. q.sure => q.right \/ n \in lost'
      BY <1>2, <1>6
    <2> QED BY <1>6, <1>7, <2>1, <2>2, <2>3 DEF Reading, In
  <1>14. cached' \in [Segs -> File(written)] /\ same' \subseteq Segs
         /\ \A s \in Segs \ {Seg(n)} : cached'[s] = cached[s]
    BY <1>1, <1>2, <1>3 DEF ReplicaTypes, File
  <1>15. Handles'
    <2>1. \A a, b \in Readers : Opening(a)' /\ Opening(b)' => a = b
      BY <1>12
    <2>2. ASSUME NEW s \in same'
          PROVE  cached'[s] = copy'[s] \/ \E a \in Readers : Opening(a)' /\ Segment(a)' = s
      BY <1>1, <1>2, <1>3, <1>13, <1>14 DEF ReplicaTypes
    <2> QED BY <2>1, <2>2 DEF Handles
  <1> QED BY <1>1, <1>11, <1>12, <1>13, <1>14, <1>15, ReaderFrame

\* The file is opened: the handle is one of the copy that is there.
LEMMA OpenHandleStep ==
    ASSUME IInv, NEW r \in Readers, OpenHandle(r)
    PROVE  IInv'
  <1>1. /\ Opening(r) /\ UNCHANGED <<same, written, loc, lost, copy>>
        /\ cached' = [cached EXCEPT ![Segment(r)] = copy[Segment(r)]]
        /\ read' = [read EXCEPT ![r].pc = "read", ![r].held = copy[Segment(r)]]
        /\ UNCHANGED <<primaryVars, copy, own, syncVars, covered, faults>>
    BY DEF OpenHandle, Opening, primaryVars
  <1>2. ReadTypes /\ ReplicaTypes /\ Handles /\ Reading(r)
    BY DEF IInv, Types
  <1>3. read \in [Readers -> Held(written)] /\ read[r].rec \in 1 .. written
    BY <1>1, <1>2 DEF ReadTypes, Held, Opening
  <1>4. PICK s \in Segs : s = Segment(r)
    BY <1>3, SegOf DEF IInv, Types, Segment, Seg
  <1>5. copy[s] \in File(written)
    BY <1>2 DEF ReplicaTypes
  <1>6. /\ read' \in [Readers -> Held(written)]
        /\ read'[r].pc = "read" /\ read'[r].held = copy[s] /\ read'[r].rec = read[r].rec
        /\ read'[r].right = read[r].right /\ read'[r].sure = read[r].sure
        /\ \A o \in Readers \ {r} : read'[o] = read[o]
    BY <1>1, <1>3, <1>4, <1>5 DEF Held
  <1>7. \A o \in Readers : read'[o].pc \in {"open", "read", "bad"} => read'[o].rec \in 1 .. written
    BY <1>2, <1>3, <1>6 DEF ReadTypes
  <1>8. ReadTypes'
    BY <1>1, <1>6, <1>7 DEF ReadTypes, Held
  <1>9. \A o \in Readers \ {r} : ~Opening(o)
    BY <1>1, <1>2 DEF Handles
  <1>10. ASSUME NEW o \in Readers PROVE Reading(o)' /\ ~Opening(o)'
    <2>1. CASE o = r
      <3>1. ~Opening(o)' /\ Live' = Live
        BY <1>1, <1>6, <2>1 DEF Opening, Live
      <3>2. /\ read[r].right /\ read[r].rec \in Live => In(copy[s], read[r].rec)
            /\ read[r].sure => read[r].right \/ read[r].rec \in lost
        BY <1>1, <1>2, <1>4 DEF Reading, Opening
      <3> QED BY <1>1, <1>6, <2>1, <3>1, <3>2, SMTT(30) DEF Reading, In
    <2>2. CASE o # r
      <3>1. read'[o] = read[o] /\ Reading(o) /\ ~Opening(o)
        BY <1>6, <1>9, <2>2 DEF IInv
      <3> QED BY <1>1, <3>1, ReadingSame
    <2> QED BY <2>1, <2>2
  <1>11. /\ cached' \in [Segs -> File(written)] /\ same' \subseteq Segs
         /\ cached'[s] = copy[s] /\ \A t \in Segs \ {s} : cached'[t] = cached[t]
    BY <1>1, <1>2, <1>4, <1>5 DEF ReplicaTypes
  <1>12. Handles'
    <2>1. ASSUME NEW t \in same' PROVE cached'[t] = copy'[t]
      <3>1. t \in same /\ t \in Segs
        BY <1>1, <1>2 DEF ReplicaTypes
      <3>2. CASE t = s
        BY <1>1, <1>11, <3>2
      <3>3. CASE t # s
        <4>1. cached[t] = copy[t]
          BY <1>2, <1>4, <1>9, <3>1, <3>3 DEF Handles
        <4> QED BY <1>1, <1>11, <3>1, <3>3, <4>1
      <3> QED BY <3>2, <3>3
    <2> QED BY <1>10, <2>1 DEF Handles
  <1> QED BY <1>1, <1>8, <1>10, <1>11, <1>12, ReaderFrame

\* A reader that finds something else than its record was not right, or the
\* record is lost, or the handle was closed.
LEMMA ReadAtStep ==
    ASSUME IInv, NEW r \in Readers, ReadAt(r)
    PROVE  IInv'
  <1>1. /\ read[r].pc = "read" /\ UNCHANGED <<cached, same, written, loc, lost, copy>>
        /\ read' = [read EXCEPT ![r] =
                      IF read[r].closed \/ At(read[r].held, read[r].rec) = read[r].rec THEN Over
                      ELSE [@ EXCEPT !.pc = "bad", !.held = Absent]]
        /\ UNCHANGED <<primaryVars, copy, own, syncVars, covered, faults>>
    BY DEF ReadAt, primaryVars, replicaVars
  <1>2. ReadTypes /\ ReplicaTypes /\ Handles /\ Reading(r) /\ written \in Nat
    BY Constants, SMTT(30) DEF IInv, Types, PrimaryTypes
  <1>3. read \in [Readers -> Held(written)] /\ read[r].rec \in 1 .. written
    BY <1>1, <1>2 DEF ReadTypes, Held
  <1>4. PICK bad : bad = [read[r] EXCEPT !.pc = "bad", !.held = Absent]
    OBVIOUS
  <1>5. /\ bad \in Held(written) /\ bad.pc = "bad" /\ bad.rec = read[r].rec
        /\ bad.right = read[r].right /\ bad.sure = read[r].sure
    BY <1>3, <1>4 DEF Held, File
  <1>6. Over \in Held(written) /\ Over.pc = "over"
    BY <1>2, NoHandle
  <1>7. /\ read'[r] \in {Over, bad}
        /\ read'[r] # Over => At(read[r].held, read[r].rec) # read[r].rec
        /\ \A o \in Readers \ {r} : read'[o] = read[o]
        /\ read' \in [Readers -> Held(written)]
    BY <1>1, <1>3, <1>4, <1>5, <1>6
  <1>8. \A o \in Readers : read'[o].pc \in {"open", "read", "bad"} => read'[o].rec \in 1 .. written
    BY <1>2, <1>3, <1>5, <1>6, <1>7 DEF ReadTypes
  <1>9. ReadTypes'
    BY <1>1, <1>7, <1>8 DEF ReadTypes, Held
  <1>10. Reading(r)' /\ ~Opening(r)'
    <2>1. CASE read'[r] = Over
      BY <1>6, <2>1 DEF Reading, Opening
    <2>2. CASE read'[r] # Over
      <3>1. read'[r] = bad /\ ~In(read[r].held, read[r].rec)
        BY <1>2, <1>3, <1>7, <2>2, AtIn, SMTT(30)
      <3>2. read[r].right => read[r].rec \in lost
        BY <1>1, <1>2, <1>3, <3>1 DEF Reading, Live
      <3>3. read[r].sure => read[r].right \/ read[r].rec \in lost
        BY <1>1, <1>2 DEF Reading
      <3> QED BY <1>1, <1>5, <3>1, <3>2, <3>3, SMTT(30) DEF Reading, Opening
    <2> QED BY <2>1, <2>2
  <1>11. ASSUME NEW o \in Readers \ {r}
         PROVE  Reading(o)' /\ Segment(o)' = Segment(o) /\ (Opening(o)' <=> Opening(o))
    <2>1. read'[o] = read[o] /\ Reading(o)
      BY <1>7 DEF IInv
    <2> QED BY <1>1, <2>1, ReadingSame
  <1>12. ~Opening(r)
    BY <1>1 DEF Opening
  <1>13. Handles'
    BY <1>1, <1>2, <1>10, <1>11, <1>12 DEF Handles
  <1>14. cached' \in [Segs -> File(written)] /\ same' \subseteq Segs
    BY <1>1, <1>2 DEF ReplicaTypes
  <1> QED BY <1>1, <1>9, <1>10, <1>11, <1>13, <1>14, ReaderFrame

-----------------------------------------------------------------------------
(* The theorems.                                                           *)

\* The invariant holds at the start,
LEMMA InitIInv ==
    ASSUME Init
    PROVE  IInv
  <1>1. written = 0 /\ lost = {} /\ committed = {} /\ 1 .. written = {} /\ Live = {}
    BY SMTT(30) DEF Init, Live
  <1>2. << >> \in Seq(0 .. written) /\ << >> # Absent
    <2>1. << >> \in Seq(0 .. 0)
      BY SMTT(30)
    <2> QED BY <1>1, <2>1, NotAFile
  <1>3. PrimaryTypes
    BY <1>1, <1>2, Constants, SMTT(30) DEF Init, PrimaryTypes, File, Records
  <1>4. ReplicaTypes
    BY <1>1, <1>2, Constants DEF Init, ReplicaTypes, File
  <1>5. SyncTypes
    BY <1>1, Constants DEF Init, SyncTypes, File
  <1>6. Idle \in Held(written) /\ Idle.pc = "idle"
    BY <1>1, NoHandle
  <1>7. read \in [Readers -> Held(written)] /\ \A r \in Readers : read[r] = Idle
    BY <1>6 DEF Init
  <1>8. ReadTypes
    BY <1>6, <1>7 DEF ReadTypes, Held
  <1>9. Primary
    <2>1. Newer(0)
      BY <1>2, Constants, SMTT(30) DEF Init, Newer
    <2> QED BY <1>1, <2>1, Constants DEF Primary
  <1>10. Coming /\ Round /\ Covers
    BY <1>1 DEF Init, Coming, Round, Covers
  <1>11. Handles /\ \A r \in Readers : Reading(r)
    BY <1>6, <1>7 DEF Init, Handles, Opening, Reading
  <1>12. faults \in 0 .. MaxFaults
    BY Constants, SMTT(30) DEF Init
  <1> QED BY <1>3, <1>4, <1>5, <1>8, <1>9, <1>10, <1>11, <1>12 DEF IInv, Types

\* ... while nothing happens,
LEMMA StutterStep ==
    ASSUME IInv, UNCHANGED vars
    PROVE  IInv'
  <1>1. /\ UNCHANGED <<primaryVars, copy, own, syncVars, covered, faults>>
        /\ UNCHANGED <<cached, same, read>>
    BY DEF vars, replicaVars
  <1>2. ReadTypes' /\ Handles' /\ \A r \in Readers : Reading(r)'
    BY <1>1, ReadersStay DEF In
  <1>3. cached' \in [Segs -> File(written)] /\ same' \subseteq Segs
    BY <1>1 DEF IInv, Types, ReplicaTypes
  <1> QED BY <1>1, <1>2, <1>3, ReaderFrame

\* ... and after every step.
LEMMA NextIInv ==
    ASSUME IInv, [Next]_vars
    PROVE  IInv'
  <1>1. CASE Write \/ Rotate \/ Commit \/ PrimaryRestarts
    BY <1>1, PrimaryStep
  <1>2. CASE Sync
    BY <1>2, ListStep, SkipStep, DownloadStep, RenameStep DEF Sync
  <1>3. CASE SyncFails
    BY <1>3, SyncFailsStep
  <1>4. CASE ReplicaRestarts
    BY <1>4, ReplicaRestartsStep
  <1>5. ASSUME NEW r \in Readers, OpenHandle(r) \/ ReadAt(r)
        PROVE  IInv'
    BY <1>5, OpenHandleStep, ReadAtStep
  <1>6. ASSUME NEW r \in Readers, NEW n \in Records,
               StatFails(r, n) \/ UseCached(r, n) \/ Refresh(r, n)
        PROVE  IInv'
    BY <1>6, StatFailsStep, UseCachedStep, RefreshStep
  <1>7. CASE UNCHANGED vars
    BY <1>7, StutterStep
  <1> QED BY <1>1, <1>2, <1>3, <1>4, <1>5, <1>6, <1>7 DEF Next

\* The invariant holds always.
THEOREM Inductive == Spec => []IInv
  <1>1. Init => IInv
    BY InitIInv
  <1>2. IInv /\ [Next]_vars => IInv'
    BY NextIInv
  <1> QED BY <1>1, <1>2, PTL DEF Spec

\* The variables of primary, shard-sync and replica keep their types.
THEOREM Typed == Spec => []TypeOK
  <1>1. IInv => TypeOK
    <2> SUFFICES ASSUME IInv PROVE TypeOK
      OBVIOUS
    <2>1. PrimaryTypes /\ ReplicaTypes /\ SyncTypes /\ ReadTypes /\ faults \in 0 .. MaxFaults
      BY DEF IInv, Types
    <2>2. File(written) \subseteq Seq(Records \cup {Footer}) \cup {Absent}
      <3>1. 0 .. written \subseteq Records \cup {Footer}
        BY <2>1, Constants, SMTT(30) DEF PrimaryTypes, Records, Footer
      <3>2. Seq(0 .. written) \subseteq Seq(Records \cup {Footer})
        BY <3>1, SeqWider
      <3> QED BY <3>2 DEF File
    <2>3. dat \in Files /\ copy \in Files /\ cached \in Files /\ listed \in Files
      BY <2>1, <2>2 DEF PrimaryTypes, ReplicaTypes, SyncTypes, Files
    <2>4. \A r \in Readers : read[r].pc \in {"idle", "open", "read", "bad", "over"}
      BY <2>1 DEF ReadTypes
    <2> QED BY <2>1, <2>3, <2>4 DEF TypeOK, PrimaryTypes, ReplicaTypes, SyncTypes
  <1> QED BY <1>1, Inductive, PTL

\* A read at the replica that misses a record which was committed before a
\* round of shard-sync that came to its end misses one that the primary lost.
THEOREM Covered == Spec => []CoveredReadable
  <1>1. IInv => CoveredReadable
    BY DEF IInv, Reading, CoveredReadable
  <1> QED BY <1>1, Inductive, PTL

\* A read that begins when the copy has the record does not miss it through a
\* handle of an older file.
THEOREM Fresh == Spec => []NoStaleHandle
  <1>1. IInv => NoStaleHandle
    BY DEF IInv, Reading, NoStaleHandle
  <1> QED BY <1>1, Inductive, PTL
=============================================================================
