--------------------------- MODULE SegmentsLemmas ---------------------------
(***************************************************************************)
(* Lemmas about the segment store.  Those about one file say what a write, *)
(* a failed write, a crash and the cut of scanValidTail do to its items;    *)
(* those about the queues that every step keeps the types, keeps a request  *)
(* in one place and keeps the segment mutex exclusive.  The last part has   *)
(* the inductive invariant and shows that rotation and appends keep it.    *)
(***************************************************************************)
EXTENDS Segments, TLAPS

\* A leaf that names no prover is left to Zenon; the others, most of them about
\* numbers, sequences or EXCEPT, name the SMT solver.
USE ZenonT(30)

-----------------------------------------------------------------------------
(* One file.                                                               *)

\* Of any of the items of a file one comes first.
Ordered(file) ==
    \A S \in SUBSET {a.off : a \in file} :
        S # {} => \E n \in S : \A m \in S : n <= m

\* Of the items of a file, those on stable storage precede the others and
\* precede garbage; no two records or footers start at the same offset.
Shape(file, stable) ==
    /\ stable \subseteq file
    /\ \A a \in stable, b \in file \ stable : a.off < b.off
    /\ \A a \in stable, b \in file : a.kind # "torn" /\ b.kind = "torn" => a.off < b.off
    /\ \A a, b \in file : a.off = b.off /\ a.kind # "torn" /\ b.kind # "torn" => a = b
    /\ \A a \in file : a.size > 0
    /\ Ordered(file)

\* The garbage of failed writes lies at or beyond the write position, and no
\* item crosses it.
Tidy(file, off) ==
    /\ \A a \in file : a.off < off => a.off + a.size <= off
    /\ \A b \in file : b.kind = "torn" => off <= b.off
    /\ \A a, b \in file : a.kind # "torn" /\ b.kind = "torn" => a.off < b.off

-----------------------------------------------------------------------------
(* Constants and items.                                                    *)

\* What the assumption on the constants says of each of them.
LEMMA Constants ==
    /\ \A w \in Writes : RecordSize[w] \in Nat /\ RecordSize[w] > 0
    /\ FooterSize \in Nat /\ FooterSize > 0
    /\ Segs \subseteq Nat /\ 0 \in Segs
    /\ Writes \subseteq Flushers /\ Loop \in Flushers /\ Closer \in Flushers
  BY SegmentsAssumption, SMTT(30) DEF Segs, Flushers

\* Records, footers and garbage at an offset are items.
LEMMA ItemTypes ==
    ASSUME NEW off \in Nat
    PROVE  /\ Foot(off) \in Item /\ Torn(off) \in Item
           /\ \A w \in Writes : Rec(w, off) \in Item
  BY Constants DEF Foot, Torn, Rec, Item

\* A write, failed or not, and the cut of a file turn items into items.
LEMMA WriteTypes ==
    ASSUME NEW file \in SUBSET Item, NEW off \in Nat
    PROVE  /\ \A item \in Item : WrittenAt(file, off, item) \in SUBSET SUBSET Item
           /\ FailedAt(file, off) \in SUBSET SUBSET Item
           /\ Below(file, off) \in SUBSET Item
           /\ ValidTail(file) \in SUBSET Item
  <1>1. Below(file, off) \in SUBSET Item
    BY DEF Below
  <1>2. ASSUME NEW item \in Item
        PROVE  WrittenAt(file, off, item) \in SUBSET SUBSET Item
    <2>1. off + item.size \in Nat
      BY SMTT(30) DEF Item
    <2> QED BY <1>1, <2>1, ItemTypes DEF WrittenAt
  <1>3. FailedAt(file, off) \in SUBSET SUBSET Item
    BY <1>1, ItemTypes, SMTT(30) DEF FailedAt
  <1> QED BY <1>1, <1>2, <1>3 DEF ValidTail

\* Offsets and sizes of items are numbers.
LEMMA ItemFields == \A it \in Item : it.off \in Nat /\ it.size \in Nat
  BY DEF Item

\* The fields of a record and of a footer.
LEMMA RecFields ==
    ASSUME NEW w \in Writes, NEW off \in Nat
    PROVE  /\ Rec(w, off).kind = "rec" /\ Rec(w, off).off = off
           /\ Rec(w, off).size = RecordSize[w] /\ Rec(w, off) \in Item
           /\ Foot(off).kind = "foot" /\ Foot(off).off = off
           /\ Foot(off).size = FooterSize /\ Foot(off) \in Item
  BY ItemTypes DEF Rec, Foot

-----------------------------------------------------------------------------
(* Files.                                                                  *)

\* An empty file is ordered.
LEMMA OrderedEmpty == Ordered({})
  BY DEF Ordered

\* So is one that has items only where an ordered file has them.
LEMMA OrderedPart ==
    ASSUME NEW file, NEW result, Ordered(file),
           \A a \in result : \E b \in file : a.off = b.off
    PROVE  Ordered(result)
  <1>1. {a.off : a \in result} \subseteq {a.off : a \in file}
    OBVIOUS
  <1> QED BY <1>1 DEF Ordered

\* And one that has items at one further offset.
LEMMA OrderedMore ==
    ASSUME NEW file \in SUBSET Item, NEW result, NEW x \in Nat, Ordered(file),
           \A a \in result : a.off = x \/ \E b \in file : a.off = b.off
    PROVE  Ordered(result)
  <1> DEFINE A == {a.off : a \in file}
  <1>1. A \subseteq Nat
    BY ItemFields
  <1>2. {a.off : a \in result} \subseteq A \cup {x}
    OBVIOUS
  <1>3. \A S \in SUBSET A : S # {} => \E n \in S : \A m \in S : n <= m
    BY DEF Ordered
  <1> HIDE DEF A
  <1>4. ASSUME NEW S \in SUBSET (A \cup {x}), S # {}
        PROVE  \E n \in S : \A m \in S : n <= m
    <2>1. CASE S \ {x} = {}
      BY <1>4, <2>1, SMTT(30)
    <2>2. CASE S \ {x} # {}
      <3>1. PICK n \in S \ {x} : \A m \in S \ {x} : n <= m
        BY <1>3, <2>2
      <3>2. n \in Nat
        BY <1>1
      <3>3. CASE x \in S /\ x < n
        <4>1. \A m \in S : x <= m
          BY <1>1, <3>1, <3>2, <3>3, SMTT(30)
        <4> QED BY <3>3, <4>1
      <3>4. CASE ~(x \in S /\ x < n)
        <4>1. \A m \in S : n <= m
          BY <3>1, <3>2, <3>4, SMTT(30)
        <4> QED BY <4>1
      <3> QED BY <3>3, <3>4
    <2> QED BY <2>1, <2>2
  <1> QED BY <1>2, <1>4 DEF Ordered

\* What the cut at the first stop does to an item on stable storage: it stays,
\* or a footer before it does.
LEMMA CutKeeps ==
    ASSUME NEW file \in SUBSET Item, NEW stable, Shape(file, stable),
           NEW it \in stable, it.kind # "torn"
    PROVE  \E m \in stable \cap ValidTail(file) :
               m = it \/ (m.kind = "foot" /\ m.off < it.off)
  <1>1. it \in file /\ it \in Item /\ it.off \in Nat
    BY ItemFields DEF Shape
  <1>2. CASE \A st \in Stops(file) : it.off < st.off
    BY <1>1, <1>2 DEF ValidTail
  <1>3. CASE \E st \in Stops(file) : ~(it.off < st.off)
    <2> DEFINE offs == {st.off : st \in Stops(file)}
    <2>1. offs \subseteq {a.off : a \in file} /\ offs # {}
      BY <1>3 DEF Stops
    <2>2. PICK n \in offs : \A k \in offs : n <= k
      <3> HIDE DEF offs
      <3>1. Ordered(file)
        BY DEF Shape
      <3> QED BY <2>1, <3>1 DEF Ordered
    <2>3. PICK m \in Stops(file) : n = m.off
      BY <2>2
    <2>4. \A st \in Stops(file) : m.off <= st.off
      BY <2>2, <2>3
    <2>5. m \in file /\ m.off \in Nat /\ m.kind \in {"foot", "torn"} /\ m.off <= it.off
      <3>1. m \in file /\ m \in Item /\ m.kind # "rec"
        BY <2>3 DEF Stops
      <3>2. m.off \in Nat /\ m.kind \in {"foot", "torn"}
        BY <3>1 DEF Item
      <3>3. PICK st \in Stops(file) : ~(it.off < st.off)
        BY <1>3
      <3>4. st.off \in Nat
        BY ItemFields DEF Stops
      <3> QED BY <1>1, <2>4, <3>1, <3>2, <3>3, <3>4, SMTT(30)
    <2>6. m \in stable
      BY <1>1, <2>5, SMTT(30) DEF Shape
    <2>7. m.kind = "foot"
      BY <1>1, <2>5, SMTT(30) DEF Shape
    <2>8. m \in ValidTail(file)
      BY <2>4, <2>5, <2>7 DEF ValidTail
    <2>9. m = it \/ m.off < it.off
      BY <1>1, <2>5, <2>7, SMTT(30) DEF Shape
    <2> QED BY <2>6, <2>7, <2>8, <2>9
  <1> QED BY <1>2, <1>3

\* The cut of scanValidTail leaves a file without garbage before its end.
LEMMA CutShape ==
    ASSUME NEW file \in SUBSET Item, NEW stable, Shape(file, stable), NEW off \in Nat,
           \A it \in ValidTail(file) : it.off + it.size <= off
    PROVE  /\ Shape(ValidTail(file), stable \cap ValidTail(file))
           /\ Tidy(ValidTail(file), off)
  <1>1. \A it \in ValidTail(file) : it \in file /\ it.kind # "torn"
    <2>1. ASSUME NEW it \in ValidTail(file), it.kind = "torn" PROVE FALSE
      <3>1. it \in Stops(file) /\ it.off \in Nat
        BY <2>1, ItemFields DEF ValidTail, Stops
      <3>2. it.off < it.off
        BY <2>1, <3>1 DEF ValidTail
      <3> QED BY <3>1, <3>2, SMTT(30)
    <2> QED BY <2>1 DEF ValidTail
  <1>2. Tidy(ValidTail(file), off)
    BY <1>1 DEF Tidy
  <1>3. Shape(ValidTail(file), stable \cap ValidTail(file))
    <2>1. Ordered(ValidTail(file))
      BY <1>1, OrderedPart DEF Shape
    <2> QED BY <1>1, <2>1 DEF Shape
  <1> QED BY <1>2, <1>3

\* A file that is synced as a whole keeps its shape.
LEMMA SyncShape ==
    ASSUME NEW file, NEW stable, NEW off, Shape(file, stable), Tidy(file, off)
    PROVE  Shape(file, file)
  BY DEF Shape, Tidy

\* What lies before the write position is complete and stays there.
LEMMA BelowFacts ==
    ASSUME NEW file \in SUBSET Item, NEW stable, NEW off \in Nat,
           Shape(file, stable), Tidy(file, off)
    PROVE  /\ \A a \in file : a.off \in Nat /\ a.size \in Nat /\ a.size > 0
           /\ \A a \in Below(file, off) :
                  /\ a \in file /\ a.off < off /\ a.off + a.size <= off /\ a.kind # "torn"
                  /\ a \in stable => a \in Below(stable, off)
           /\ \A a \in Below(stable, off) : a \in stable /\ a \in Below(file, off)
  <1>1. \A a \in file : a.off \in Nat /\ a.size \in Nat /\ a.size > 0
    BY ItemFields DEF Shape
  <1>2. \A a \in Below(file, off) : a \in file /\ a.off < off /\ a.off + a.size <= off
    BY <1>1, SMTT(30) DEF Below
  <1>3. \A a \in Below(file, off) : a.kind # "torn"
    BY <1>1, <1>2, SMTT(30) DEF Tidy
  <1>4. /\ \A a \in Below(file, off) : a \in stable => a \in Below(stable, off)
        /\ \A a \in Below(stable, off) : a \in stable /\ a \in Below(file, off)
    BY DEF Below, Shape
  <1> QED BY <1>1, <1>2, <1>3, <1>4

\* The effect of a complete write at the write position.
LEMMA WrittenShape ==
    ASSUME NEW file \in SUBSET Item, NEW stable, NEW off \in Nat,
           Shape(file, stable), Tidy(file, off),
           NEW item \in Item, item.off = off, item.size > 0, item.kind # "torn",
           NEW result \in WrittenAt(file, off, item)
    PROVE  /\ Shape(result, Below(stable, off)) /\ item \in result
           /\ Tidy(result, off) /\ Tidy(result, off + item.size)
           /\ Below(file, off) \subseteq result
  <1> DEFINE B == Below(file, off)
             S == Below(stable, off)
             g == Torn(off + item.size)
  <1>1. /\ \A a \in B : a \in file /\ a.off \in Nat /\ a.size \in Nat /\ a.size > 0
                        /\ a.off < off /\ a.off + a.size <= off /\ a.kind # "torn"
                        /\ (a \in stable => a \in S)
        /\ \A a \in S : a \in stable /\ a \in B
    <2>1. \A a \in file : a.off \in Nat /\ a.size \in Nat /\ a.size > 0
      BY BelowFacts
    <2>2. \A a \in B : /\ a \in file /\ a.off < off /\ a.off + a.size <= off /\ a.kind # "torn"
                       /\ a \in stable => a \in S
      BY BelowFacts, ZenonT(60)
    <2>3. \A a \in S : a \in stable /\ a \in B
      BY BelowFacts, SMTT(30)
    <2> HIDE DEF B, S
    <2>4. ASSUME NEW a \in B
          PROVE  /\ a \in file /\ a.off \in Nat /\ a.size \in Nat /\ a.size > 0
                 /\ a.off < off /\ a.off + a.size <= off /\ a.kind # "torn"
                 /\ a \in stable => a \in S
      <3>1. /\ a \in file /\ a.off < off /\ a.off + a.size <= off /\ a.kind # "torn"
            /\ a \in stable => a \in S
        BY <2>2
      <3> QED BY <2>1, <3>1
    <2> QED BY <2>3, <2>4
  <1>2. item.size \in Nat
    BY ItemFields
  <1>3. g.kind = "torn" /\ g.off = off + item.size /\ g.size = 1
    BY DEF Torn
  <1>4. result = B \cup {item} \/ result = B \cup {item, g}
    BY DEF WrittenAt
  <1>5. \A a, b \in B : a.off = b.off => a = b
    BY <1>1 DEF Shape
  <1>6. \A a \in S, b \in B \ S : a.off < b.off
    BY <1>1 DEF Shape
  <1> HIDE DEF B, S, g
  <1>7. \A x \in result : x \in B \/ x = item \/ x = g
    BY <1>4
  <1>8. S \subseteq result /\ B \subseteq result /\ item \in result
    BY <1>1, <1>4
  <1>9. \A a \in S, b \in result \ S : a.off < b.off
    BY <1>1, <1>2, <1>3, <1>6, <1>7, SMTT(30)
  <1>10. \A a \in S, b \in result : a.kind # "torn" /\ b.kind = "torn" => a.off < b.off
    BY <1>1, <1>2, <1>3, <1>7, SMTT(30)
  <1>11. \A a, b \in result :
            a.off = b.off /\ a.kind # "torn" /\ b.kind # "torn" => a = b
    BY <1>1, <1>3, <1>5, <1>7, SMTT(30)
  <1>12. \A a \in result : a.size > 0
    BY <1>1, <1>3, <1>7, SMTT(30)
  <1>13. Tidy(result, off) /\ Tidy(result, off + item.size)
    <2>1. \A x \in result : x.kind # "torn" => x.off <= off /\ x.off \in Nat
      BY <1>1, <1>3, <1>7, SMTT(30)
    <2>2. \A x \in result : x.kind = "torn" => x.off = off + item.size
      BY <1>1, <1>3, <1>7
    <2>3. \A x \in result : x.off < off => x.off + x.size <= off /\ x.off + x.size <= off + item.size
      BY <1>1, <1>2, <1>3, <1>7, SMTT(30)
    <2>4. \A x \in result : x.off < off + item.size => x.off + x.size <= off + item.size
      BY <1>1, <1>2, <1>3, <1>7, SMTT(30)
    <2> QED BY <1>2, <2>1, <2>2, <2>3, <2>4, SMTT(30) DEF Tidy
  <1>14. Ordered(result)
    <2>1. Ordered(file)
      BY DEF Shape
    <2>2. Ordered(B \cup {item}) /\ B \cup {item} \in SUBSET Item
      BY <1>1, <2>1, OrderedMore
    <2> QED BY <1>2, <1>3, <1>4, <2>2, OrderedMore, SMTT(30)
  <1> QED BY <1>8, <1>9, <1>10, <1>11, <1>12, <1>13, <1>14 DEF Shape, S, B

\* The effect of a write that reports an error.
LEMMA FailedShape ==
    ASSUME NEW file \in SUBSET Item, NEW stable, NEW off \in Nat,
           Shape(file, stable), Tidy(file, off),
           NEW result \in FailedAt(file, off)
    PROVE  /\ Shape(result, Below(stable, off)) /\ Tidy(result, off)
           /\ Below(file, off) \subseteq result
  <1> DEFINE B == Below(file, off)
             S == Below(stable, off)
             g == Torn(off)
  <1>1. /\ \A a \in B : a \in file /\ a.off \in Nat /\ a.size \in Nat /\ a.size > 0
                        /\ a.off < off /\ a.off + a.size <= off /\ a.kind # "torn"
                        /\ (a \in stable => a \in S)
        /\ \A a \in S : a \in stable /\ a \in B
        /\ \A a \in file : a.off \in Nat
    BY BelowFacts
  <1>2. g.kind = "torn" /\ g.off = off /\ g.size = 1
    BY DEF Torn
  <1>3. result = file \/ result = B \cup {g}
    BY DEF FailedAt
  <1>4. \A a, b \in B : a.off = b.off => a = b
    BY <1>1 DEF Shape
  <1>5. \A a \in S, b \in B \ S : a.off < b.off
    BY <1>1 DEF Shape
  <1>6. \A a \in S, b \in file \ S : a.off < b.off
    <2> SUFFICES ASSUME NEW a \in S, NEW b \in file \ S PROVE a.off < b.off
      OBVIOUS
    <2>1. CASE b \in stable
      <3>1. b \notin B
        BY <1>1, <2>1
      <3>2. ~(b.off + b.size <= off)
        BY <3>1 DEF Below
      <3>3. ~(b.off < off)
        BY <3>2 DEF Tidy
      <3> QED BY <1>1, <3>3, SMTT(30)
    <2>2. CASE b \notin stable
      BY <1>1, <2>2 DEF Shape
    <2> QED BY <2>1, <2>2
  <1>7. CASE result = file
    <2>1. S \subseteq file /\ B \subseteq file
      BY <1>1
    <2>2. \A a \in S, b \in file : a.kind # "torn" /\ b.kind = "torn" => a.off < b.off
      BY <1>1 DEF Shape
    <2> HIDE DEF S, B
    <2> QED BY <1>6, <1>7, <2>1, <2>2 DEF Shape, S, B
  <1>8. CASE result = B \cup {g}
    <2> HIDE DEF S, B, g
    <2>1. S \subseteq result /\ B \subseteq result
      BY <1>1, <1>8
    <2>2. \A a \in S, b \in result \ S : a.off < b.off
      BY <1>1, <1>2, <1>5, <1>8
    <2>3. \A a \in S, b \in result : a.kind # "torn" /\ b.kind = "torn" => a.off < b.off
      BY <1>1, <1>2, <1>8
    <2>4. \A a, b \in result : a.off = b.off /\ a.kind # "torn" /\ b.kind # "torn" => a = b
      BY <1>2, <1>4, <1>8
    <2>5. (\A a \in result : a.size > 0) /\ Tidy(result, off)
      BY <1>1, <1>2, <1>8, SMTT(30) DEF Tidy
    <2>6. Ordered(result)
      BY <1>1, <1>2, <1>8, OrderedMore DEF Shape
    <2> QED BY <2>1, <2>2, <2>3, <2>4, <2>5, <2>6 DEF Shape, S, B
  <1> QED BY <1>3, <1>7, <1>8

\* The effect of a crash that loses the items in lost.
LEMMA CrashShape ==
    ASSUME NEW file \in SUBSET Item, NEW stable, Shape(file, stable),
           NEW lost \in SUBSET (file \ stable), NEW result,
           result = (file \ lost) \cup {Torn(it.off) : it \in lost}
    PROVE  Shape(result, stable)
  <1>1. \A n \in Nat : Torn(n).kind = "torn" /\ Torn(n).off = n /\ Torn(n).size = 1
    BY DEF Torn
  <1>2. \A x \in result : \/ x \in file
                          \/ /\ x.kind = "torn" /\ x.size = 1
                             /\ \E it \in file \ stable : x.off = it.off
    BY <1>1, ItemFields, SMTT(30)
  <1>3. stable \subseteq result
    BY DEF Shape
  <1>4. \A a \in stable, b \in result \ stable : a.off < b.off
    BY <1>2 DEF Shape
  <1>5. \A a \in stable, b \in result : a.kind # "torn" /\ b.kind = "torn" => a.off < b.off
    BY <1>2 DEF Shape
  <1>6. \A a, b \in result : a.off = b.off /\ a.kind # "torn" /\ b.kind # "torn" => a = b
    BY <1>2 DEF Shape
  <1>7. \A a \in result : a.size > 0
    BY <1>2, SMTT(30) DEF Shape
  <1>8. Ordered(result)
    BY <1>2, OrderedPart, SMTT(30) DEF Shape
  <1> QED BY <1>3, <1>4, <1>5, <1>6, <1>7, <1>8 DEF Shape

-----------------------------------------------------------------------------
(* The size of a segment file.                                             *)

\* A footer at off keeps within the limits: the first footer of a file lies
\* where a record ends, and one behind it a footer further on.  A first record
\* that is longer than a segment gives its file a limit of its own, which
\* disappears if a crash damages it.
FirstFooter(file, off) ==
    \/ off + FooterSize <= MaxSegmentSize
    \/ \E r \in file : r.off = 0 /\ (r.kind = "torn" \/ off <= r.size)

LaterFooter(file, off) ==
    /\ \E g \in file : g.kind # "rec" /\ g.off < off
    /\ \/ off <= MaxSegmentSize
       \/ \E r \in file : r.off = 0 /\ (r.kind = "torn" \/ off <= r.size + FooterSize)

Placed(file) ==
    \A it \in file :
        /\ it.kind = "rec" => it.off = 0 \/ it.off + it.size + FooterSize <= MaxSegmentSize
        /\ it.kind = "foot" => /\ it.off > 0 /\ it.size = FooterSize
                               /\ FirstFooter(file, it.off) \/ LaterFooter(file, it.off)

\* The write position is one where a footer may go.
Reach(file, off) == off = 0 \/ FirstFooter(file, off) \/ LaterFooter(file, off)

\* What keeps the beginning of a file keeps the limits of what lies there.
LEMMA FooterKept ==
    ASSUME NEW file, NEW result, NEW off \in Nat,
           FirstFooter(file, off) \/ LaterFooter(file, off),
           \A a \in file : a.off = 0 \/ a.off < off =>
               \/ a \in result
               \/ \E b \in result : b.kind = "torn" /\ b.off = a.off
    PROVE  FirstFooter(result, off) \/ LaterFooter(result, off)
  <1>1. CASE off + FooterSize <= MaxSegmentSize
    BY <1>1 DEF FirstFooter
  <1>2. ASSUME NEW r \in file, r.off = 0, r.kind = "torn" \/ off <= r.size
        PROVE  FirstFooter(result, off)
    BY <1>2 DEF FirstFooter
  <1>3. ASSUME NEW g \in file, g.kind # "rec", g.off < off
        PROVE  \E b \in result : b.kind # "rec" /\ b.off < off
    BY <1>3
  <1>4. ASSUME NEW r \in file, r.off = 0, r.kind = "torn" \/ off <= r.size + FooterSize
        PROVE  \E b \in result : b.off = 0 /\ (b.kind = "torn" \/ off <= b.size + FooterSize)
    BY <1>4
  <1>5. CASE LaterFooter(file, off)
    BY <1>3, <1>4, <1>5 DEF LaterFooter
  <1> QED BY <1>1, <1>2, <1>5 DEF FirstFooter

\* A complete write at the write position.
LEMMA WrittenPlaced ==
    ASSUME NEW file \in SUBSET Item, NEW stable, NEW off \in Nat,
           Shape(file, stable), Tidy(file, off), Placed(file), Reach(file, off),
           NEW item \in Item, item.off = off, item.size > 0,
           \/ item.kind = "rec" /\ (off = 0 \/ off + item.size + FooterSize <= MaxSegmentSize)
           \/ item.kind = "foot" /\ item.size = FooterSize /\ off > 0,
           NEW result \in WrittenAt(file, off, item)
    PROVE  /\ Placed(result) /\ Reach(result, off)
           /\ item.kind = "rec" => Reach(result, off + item.size)
  <1> DEFINE B == Below(file, off)
  <1>1. /\ \A a \in B : a \in file /\ a.off \in Nat /\ a.off < off
        /\ \A a \in file : a.off < off => a \in B
        /\ \A a \in file : a.off \in Nat
    <2>1. \A a \in B : a \in file /\ a.off < off
      BY BelowFacts, ZenonT(60)
    <2>2. \A a \in file : a.off < off => a \in B
      BY DEF Below, Tidy
    <2>3. \A a \in file : a.off \in Nat
      BY BelowFacts
    <2> QED BY <2>1, <2>2, <2>3
  <1>2. /\ B \subseteq result /\ item \in result
        /\ \A x \in result : x \in B \/ x = item \/ x.kind = "torn"
    BY SMTT(30) DEF WrittenAt, Torn
  <1> HIDE DEF B
  <1>3. ASSUME NEW n \in Nat, n <= off, n > 0, FirstFooter(file, n) \/ LaterFooter(file, n)
        PROVE  FirstFooter(result, n) \/ LaterFooter(result, n)
    <2>1. \A a \in file : a.off = 0 \/ a.off < n => a \in result
      BY <1>1, <1>2, <1>3, SMTT(30)
    <2> QED BY <1>3, <2>1, FooterKept
  <1>4. Reach(result, off)
    BY <1>3, SMTT(30) DEF Reach
  <1>5. ASSUME NEW x \in result
        PROVE  /\ x.kind = "rec" => x.off = 0 \/ x.off + x.size + FooterSize <= MaxSegmentSize
               /\ x.kind = "foot" => /\ x.off > 0 /\ x.size = FooterSize
                                     /\ FirstFooter(result, x.off) \/ LaterFooter(result, x.off)
    <2>1. CASE x \in B
      <3>1. x \in file /\ x.off \in Nat /\ x.off < off
        BY <1>1, <2>1
      <3> QED BY <1>3, <3>1, SMTT(30) DEF Placed
    <2>2. CASE x = item
      BY <1>4, <2>2, SMTT(30) DEF Reach
    <2>3. CASE x.kind = "torn"
      BY <2>3
    <2> QED BY <1>2, <2>1, <2>2, <2>3
  <1>6. ASSUME item.kind = "rec" PROVE Reach(result, off + item.size)
    <2>1. item.size \in Nat
      BY ItemFields
    <2>2. CASE off = 0
      BY <1>2, <2>1, <2>2, SMTT(30) DEF Reach, FirstFooter
    <2>3. CASE off + item.size + FooterSize <= MaxSegmentSize
      BY <2>3 DEF Reach, FirstFooter
    <2> QED BY <1>6, <2>2, <2>3
  <1> QED BY <1>4, <1>5, <1>6 DEF Placed

\* A write that reports an error.
LEMMA FailedPlaced ==
    ASSUME NEW file \in SUBSET Item, NEW stable, NEW off \in Nat,
           Shape(file, stable), Tidy(file, off), Placed(file), Reach(file, off),
           NEW result \in FailedAt(file, off)
    PROVE  Placed(result) /\ Reach(result, off)
  <1> DEFINE B == Below(file, off)
  <1>1. /\ \A a \in B : a \in file /\ a.off \in Nat /\ a.off < off
        /\ \A a \in file : a.off < off => a \in B
        /\ \A a \in file : a.off \in Nat
    BY BelowFacts, SMTT(30) DEF Below, Tidy
  <1>2. CASE result = file
    BY <1>2
  <1>3. CASE result = B \cup {Torn(off)}
    <2>1. B \subseteq result /\ \A x \in result : x \in B \/ x.kind = "torn"
      BY <1>3, SMTT(30) DEF Torn
    <2> HIDE DEF B
    <2>2. ASSUME NEW n \in Nat, n <= off, n > 0, FirstFooter(file, n) \/ LaterFooter(file, n)
          PROVE  FirstFooter(result, n) \/ LaterFooter(result, n)
      <3>1. \A a \in file : a.off = 0 \/ a.off < n => a \in result
        BY <1>1, <2>1, <2>2, SMTT(30)
      <3> QED BY <2>2, <3>1, FooterKept
    <2>3. Reach(result, off)
      BY <2>2, SMTT(30) DEF Reach
    <2>4. ASSUME NEW x \in result, x.kind # "torn"
          PROVE  /\ x.kind = "rec" => x.off = 0 \/ x.off + x.size + FooterSize <= MaxSegmentSize
                 /\ x.kind = "foot" => /\ x.off > 0 /\ x.size = FooterSize
                                       /\ FirstFooter(result, x.off) \/ LaterFooter(result, x.off)
      <3>1. x \in file /\ x.off \in Nat /\ x.off < off
        BY <1>1, <2>1, <2>4
      <3> QED BY <2>2, <3>1, SMTT(30) DEF Placed
    <2> QED BY <2>3, <2>4 DEF Placed
  <1> QED BY <1>2, <1>3 DEF FailedAt

\* A crash that loses the items in lost.
LEMMA CrashPlaced ==
    ASSUME NEW file \in SUBSET Item, Placed(file), NEW lost \in SUBSET file, NEW result,
           result = (file \ lost) \cup {Torn(it.off) : it \in lost}
    PROVE  Placed(result)
  <1>1. \A n \in Nat : Torn(n).kind = "torn" /\ Torn(n).off = n
    BY DEF Torn
  <1>2. \A a \in file : a.off \in Nat
    BY ItemFields
  <1>3. \A a \in file : a \in result \/ \E b \in result : b.kind = "torn" /\ b.off = a.off
    BY <1>1, <1>2
  <1>4. \A x \in result : x \in file \/ x.kind = "torn"
    BY <1>1, <1>2, SMTT(30)
  <1>5. ASSUME NEW x \in result, x.kind # "torn"
        PROVE  /\ x.kind = "rec" => x.off = 0 \/ x.off + x.size + FooterSize <= MaxSegmentSize
               /\ x.kind = "foot" => /\ x.off > 0 /\ x.size = FooterSize
                                     /\ FirstFooter(result, x.off) \/ LaterFooter(result, x.off)
    <2>1. x \in file /\ x.off \in Nat
      BY <1>2, <1>4, <1>5
    <2>2. \A n \in Nat : FirstFooter(file, n) \/ LaterFooter(file, n) =>
                            FirstFooter(result, n) \/ LaterFooter(result, n)
      BY <1>3, FooterKept, SMTT(30)
    <2> QED BY <2>1, <2>2 DEF Placed
  <1> QED BY <1>5 DEF Placed

\* The cut of scanValidTail, and the write position behind it.
LEMMA CutPlaced ==
    ASSUME NEW file \in SUBSET Item, Placed(file), NEW e \in Ends(ValidTail(file))
    PROVE  Placed(ValidTail(file)) /\ Reach(ValidTail(file), e)
  <1> DEFINE V == ValidTail(file)
  <1>1. \A a \in file : a.off \in Nat /\ a.size \in Nat /\ a.kind \in {"rec", "foot", "torn"}
    BY DEF Item
  <1>2. \A x \in V : x \in file /\ x.kind \in {"rec", "foot"}
    BY <1>1, SMTT(30) DEF ValidTail, Stops
  <1>3. ASSUME NEW x \in V, x.kind = "foot"
        PROVE  /\ \A st \in file : st.kind # "rec" => x.off <= st.off
               /\ x.off > 0 /\ x.off \in Nat /\ x.size = FooterSize
    <2>1. x \in file /\ x \in Stops(file)
      BY <1>2, <1>3 DEF Stops
    <2>2. \A st \in Stops(file) : x.off <= st.off
      BY <1>1, <1>3, <2>1, SMTT(30) DEF ValidTail
    <2> QED BY <1>1, <1>3, <2>1, <2>2 DEF Stops, Placed
  <1>4. ASSUME NEW x \in V, x.kind = "foot" PROVE FirstFooter(V, x.off)
    <2>1. x \in file /\ FirstFooter(file, x.off)
      <3>1. x \in file
        BY <1>2, <1>4
      <3>2. FirstFooter(file, x.off) \/ LaterFooter(file, x.off)
        BY <1>4, <3>1 DEF Placed
      <3>3. \A g \in file : g.kind # "rec" => ~(g.off < x.off)
        BY <1>1, <1>3, <1>4, <3>1, SMTT(30)
      <3> QED BY <3>1, <3>2, <3>3 DEF LaterFooter
    <2>2. CASE x.off + FooterSize <= MaxSegmentSize
      BY <2>2 DEF FirstFooter
    <2>3. ASSUME NEW r \in file, r.off = 0, r.kind = "torn" \/ x.off <= r.size
          PROVE  FirstFooter(V, x.off)
      <3>1. r.kind = "rec" /\ x.off <= r.size
        BY <1>1, <1>3, <1>4, <2>3, SMTT(30)
      <3>2. \A st \in Stops(file) : r.off < st.off
        BY <1>1, <1>3, <1>4, <2>3, SMTT(30) DEF Stops
      <3>3. r \in V
        BY <3>2 DEF ValidTail
      <3> QED BY <2>3, <3>1, <3>3 DEF FirstFooter
    <2> QED BY <2>1, <2>2, <2>3 DEF FirstFooter
  <1>5. Placed(V)
    <2>1. \A x \in V : x.kind = "rec" =>
             x.off = 0 \/ x.off + x.size + FooterSize <= MaxSegmentSize
      BY <1>2 DEF Placed
    <2> HIDE DEF V
    <2> QED BY <1>3, <1>4, <2>1 DEF Placed
  <1>6. Reach(V, e)
    <2>1. CASE e = 0
      BY <2>1 DEF Reach
    <2>2. ASSUME NEW x \in V, e = x.off + x.size PROVE Reach(V, e)
      <3>1. x \in file /\ x.off \in Nat /\ x.size \in Nat
        BY <1>1, <1>2
      <3>2. CASE x.kind = "rec"
        <4>1. x.off = 0 \/ e + FooterSize <= MaxSegmentSize
          BY <2>2, <3>1, <3>2 DEF Placed
        <4> QED BY <2>2, <3>1, <4>1, SMTT(30) DEF Reach, FirstFooter
      <3>3. CASE x.kind = "foot"
        <4>1. x.size = FooterSize /\ FirstFooter(V, x.off)
          BY <1>3, <1>4, <3>3
        <4>2. x.off < e /\ x.kind # "rec"
          BY <2>2, <3>1, <3>3, <4>1, Constants, SMTT(30)
        <4>3. CASE x.off + FooterSize <= MaxSegmentSize
          BY <2>2, <4>1, <4>2, <4>3 DEF Reach, LaterFooter
        <4>4. ASSUME NEW r \in V, r.off = 0, r.kind = "torn" \/ x.off <= r.size
              PROVE  Reach(V, e)
          <5>1. r.size \in Nat /\ r.kind # "torn"
            BY <1>1, <1>2, <4>4
          <5>2. e <= r.size + FooterSize
            BY <2>2, <3>1, <4>1, <4>4, <5>1, Constants, SMTT(30)
          <5> QED BY <2>2, <4>2, <4>4, <5>2 DEF Reach, LaterFooter
        <4> QED BY <4>1, <4>3, <4>4 DEF FirstFooter
      <3> QED BY <1>2, <2>2, <3>2, <3>3
    <2> QED BY <2>1, <2>2 DEF Ends
  <1> QED BY <1>5, <1>6

-----------------------------------------------------------------------------
(* The queues.                                                             *)

InPending == {pending[i] : i \in DOMAIN pending}

\* A request is in at most one place, and only while its caller waits or has
\* given up.
Queued ==
    /\ \A w \in InPending : status[w] \in {"waiting", "failed"} /\ outcome[w] = "none"
    /\ \A f \in Flushers : \A w \in InBatch(f) :
           /\ status[w] \in {"waiting", "failed"}
           /\ w \notin InPending
           /\ \A g \in Flushers \ {f} : w \notin InBatch(g)
    /\ \A w \in Writes : status[w] = "idle" => outcome[w] = "none"

Mutex == \A f, g \in Flushers : HoldsMutex(f) /\ HoldsMutex(g) => f = g

\* Flushers run only while the process does, and a direct append never waits
\* for the fsync of a closed file.
Holding ==
    /\ due # {} => Running
    /\ \A f \in Flushers :
           /\ stage[f] # "idle" => Running
           /\ stage[f] = "sync" => handle = "open"

-----------------------------------------------------------------------------
(* Types.                                                                  *)

\* The buffer and the batches stay sequences of requests.
LEMMA QueueTypesStep == TypeOK /\ [Next]_vars => QueueTypes'
  <1> SUFFICES ASSUME TypeOK, [Next]_vars PROVE QueueTypes'
    OBVIOUS
  <1>1. QueueTypes
    BY DEF TypeOK
  <1>2. ASSUME NEW f \in Flushers, TakeBatch(f) PROVE QueueTypes'
    <2>1. CASE pending = << >>
      BY <1>1, <1>2, <2>1 DEF QueueTypes, TakeBatch
    <2>2. CASE pending # << >>
      <3>1. batch' = [batch EXCEPT ![f] = pending] /\ pending' = << >>
        BY <1>2, <2>2 DEF TakeBatch
      <3> QED BY <1>1, <3>1, SMTT(30) DEF QueueTypes
    <2> QED BY <2>1, <2>2
  <1>3. ASSUME UNCHANGED <<pending, batch>> PROVE QueueTypes'
    BY <1>1, <1>3 DEF QueueTypes
  <1>4. ASSUME NEW w \in Writes, BufferAppend(w) PROVE QueueTypes'
    <2>1. pending' = Append(pending, w) /\ batch' = batch
      BY <1>4 DEF BufferAppend
    <2> QED BY <1>1, <2>1, SMTT(30) DEF QueueTypes
  <1>5. ASSUME NEW w \in Writes, DirectAppend(w) PROVE QueueTypes'
    BY <1>1, <1>5, Constants, SMTT(30) DEF QueueTypes, DirectAppend
  <1>6. ASSUME NEW f \in Flushers, Deliver(f) PROVE QueueTypes'
    BY <1>1, <1>6, SMTT(30) DEF QueueTypes, Deliver
  <1>7. ASSUME ProcessEnds PROVE QueueTypes'
    BY <1>7, SMTT(30) DEF QueueTypes, ProcessEnds
  <1>8. ASSUME NEW f \in Flushers, Step(f) PROVE QueueTypes'
    BY <1>3, <1>6, <1>8
    DEF Step, Lock, SyncBatch, FlushPanic, Rotate, OpenNext, WriteRecord, DirectSync,
        WriteToClosed, queueVars
  <1> QED
    BY <1>2, <1>3, <1>4, <1>5, <1>7, <1>8, Constants
    DEF Next, vars, Cancel, ThresholdFlush, TickFlush, CloseBegin, CloseFlush, CloseFinish,
        Crash, Open, bufferVars, queueVars

\* What is certain before a write is a set of items per file.
LEMMA SyncedTypes ==
    ASSUME TypeOK
    PROVE  SyncedBeforeWrite \in [Segs -> SUBSET Item]
  <1>1. synced \in [Segs -> SUBSET Item] /\ activeID \in Segs /\ activeOffset \in Nat
    BY DEF TypeOK
  <1>2. Below(synced[activeID], activeOffset) \in SUBSET Item
    BY <1>1 DEF Below
  <1> QED BY <1>1, <1>2 DEF SyncedBeforeWrite

\* A write to the active file, failed or not, leaves sets of items.
LEMMA DiskTypes ==
    ASSUME TypeOK, NEW F,
           \/ F = WrittenAt(disk[activeID], activeOffset, Foot(activeOffset))
           \/ F = FailedAt(disk[activeID], activeOffset)
           \/ \E w \in Writes : F = WrittenAt(disk[activeID], activeOffset, Rec(w, activeOffset))
    PROVE  \A file \in F : [disk EXCEPT ![activeID] = file] \in [Segs -> SUBSET Item]
  <1>1. /\ disk \in [Segs -> SUBSET Item]
        /\ disk[activeID] \in SUBSET Item /\ activeOffset \in Nat
    BY DEF TypeOK
  <1>2. F \in SUBSET SUBSET Item
    <2>1. Foot(activeOffset) \in Item /\ \A w \in Writes : Rec(w, activeOffset) \in Item
      BY <1>1, ItemTypes
    <2>2. /\ \A item \in Item :
               WrittenAt(disk[activeID], activeOffset, item) \in SUBSET SUBSET Item
          /\ FailedAt(disk[activeID], activeOffset) \in SUBSET SUBSET Item
      BY <1>1, WriteTypes
    <2> QED BY <2>1, <2>2, SMTT(30)
  <1> QED BY <1>1, <1>2

\* finalizeLocked leaves sets of items.
LEMMA FinalizeTypes ==
    ASSUME TypeOK, FinalizeOK \/ FinalizeFails
    PROVE  disk' \in [Segs -> SUBSET Item] /\ synced' \in [Segs -> SUBSET Item]
  <1>1. disk' \in [Segs -> SUBSET Item]
    <2>1. CASE FinalizeOK
      BY <2>1, DiskTypes, SMTT(30) DEF FinalizeOK
    <2>2. CASE FinalizeFails
      <3>1. PICK file \in FailedAt(disk[activeID], activeOffset)
                     \cup WrittenAt(disk[activeID], activeOffset, Foot(activeOffset)) :
              disk' = [disk EXCEPT ![activeID] = file]
        BY <2>2 DEF FinalizeFails
      <3> QED BY <3>1, DiskTypes
    <2> QED BY <2>1, <2>2
  <1>2. synced \in [Segs -> SUBSET Item] /\ activeID \in Segs
    BY DEF TypeOK
  <1>3. CASE FinalizeOK
    BY <1>1, <1>2, <1>3 DEF FinalizeOK
  <1>4. CASE FinalizeFails
    BY <1>1, <1>4, SyncedTypes DEF FinalizeFails
  <1> QED BY <1>1, <1>3, <1>4

\* An append that fails keeps the types of what it sets.
LEMMA FailTypes ==
    ASSUME TypeOK, NEW f \in Flushers, NEW w \in Writes, Fail(f, w)
    PROVE  /\ stage' \in [Flushers -> {"idle", "wait", "append", "open", "sync", "deliver"}]
           /\ next' \in [Flushers -> Nat \ {0}]
           /\ outcome' \in [Writes -> {"none", "ok", "err"}]
           /\ loc' \in [Writes -> Segs \X Nat]
  BY Constants, SMTT(30) DEF TypeOK, Fail

\* Every step keeps the types.
LEMMA TypeStep == TypeOK /\ [Next]_vars => TypeOK'
  <1> SUFFICES ASSUME TypeOK, [Next]_vars PROVE TypeOK'
    OBVIOUS
  <1> USE Constants, QueueTypesStep DEF TypeOK, fileVars, activeVars, writeVars, queueVars, bufferVars
  <1>1. CASE UNCHANGED vars
    BY <1>1 DEF vars
  <1>2. ASSUME NEW w \in Writes, BufferAppend(w) PROVE TypeOK'
    <2>1. bufSize' = bufSize + RecordSize[w] /\ due' \in {due, due \cup {w}}
      BY <1>2 DEF BufferAppend
    <2>2. /\ status' = [status EXCEPT ![w] = "waiting"]
          /\ UNCHANGED <<proc, stage, next, outcome, loc, fileVars, activeVars>>
      BY <1>2 DEF BufferAppend
    <2> QED BY <2>1, <2>2, SMTT(30)
  <1>3. ASSUME NEW w \in Writes, DirectAppend(w) PROVE TypeOK'
    BY <1>3 DEF DirectAppend
  <1>4. ASSUME NEW w \in Writes, Cancel(w) PROVE TypeOK'
    BY <1>4 DEF Cancel
  <1>5. ASSUME NEW w \in Writes, ThresholdFlush(w) PROVE TypeOK'
    BY <1>5 DEF ThresholdFlush, TakeBatch
  <1>6. CASE TickFlush
    BY <1>6 DEF TickFlush, TakeBatch
  <1>7. ASSUME NEW f \in Flushers, Step(f) PROVE TypeOK'
    <2>1. CASE Lock(f)
      BY <2>1, SMTT(30) DEF Lock
    <2>2. CASE SyncBatch(f)
      <3>1. \/ UNCHANGED <<synced, outcome>>
            \/ synced' = [synced EXCEPT ![activeID] = disk[activeID]] /\ UNCHANGED outcome
            \/ FailRest(f) /\ UNCHANGED synced
        BY <2>2 DEF SyncBatch
      <3>2. synced' \in [Segs -> SUBSET Item] /\ outcome' \in [Writes -> {"none", "ok", "err"}]
        BY <3>1, SMTT(30) DEF FailRest
      <3>3. /\ stage' = [stage EXCEPT ![f] = "deliver"]
            /\ UNCHANGED <<proc, queueVars, next, loc, status, disk, files, activeVars>>
        BY <2>2 DEF SyncBatch
      <3> QED BY <3>2, <3>3
    <2>3. CASE Deliver(f)
      <3>1. status' \in [Writes -> {"idle", "waiting", "acked", "failed"}]
        BY <2>3 DEF Deliver
      <3>2. outcome' \in [Writes -> {"none", "ok", "err"}]
        BY <2>3 DEF Deliver
      <3>3. /\ stage' = [stage EXCEPT ![f] = "idle"] /\ next' = [next EXCEPT ![f] = 1]
            /\ UNCHANGED <<proc, pending, bufSize, due, loc, fileVars, activeVars>>
        BY <2>3 DEF Deliver
      <3> QED BY <3>1, <3>2, <3>3, SMTT(30)
    <2>4. CASE FlushPanic(f)
      BY <2>4 DEF FlushPanic, FailRest
    <2>5. ASSUME NEW w \in Writes, Rotate(f, w) PROVE TypeOK'
      <3>1. disk' \in [Segs -> SUBSET Item] /\ synced' \in [Segs -> SUBSET Item]
        BY <2>5, FinalizeTypes DEF Rotate
      <3>2. CASE Fail(f, w)
        BY <2>5, <3>1, <3>2, FailTypes DEF Rotate
      <3>3. CASE stage' = [stage EXCEPT ![f] = "open"] /\ UNCHANGED <<next, outcome, loc>>
        BY <2>5, <3>1, <3>3 DEF Rotate
      <3> QED BY <2>5, <3>2, <3>3 DEF Rotate
    <2>6. ASSUME NEW w \in Writes, OpenNext(f, w) PROVE TypeOK'
      <3>1. files' \subseteq Segs /\ activeID' \in Segs /\ activeOffset' = 0
        BY <2>6 DEF OpenNext
      <3>2. CASE Fail(f, w)
        BY <2>6, <3>1, <3>2, FailTypes DEF OpenNext
      <3>3. CASE stage' = [stage EXCEPT ![f] = "append"] /\ UNCHANGED <<next, outcome, loc>>
        BY <2>6, <3>1, <3>3 DEF OpenNext
      <3> QED BY <2>6, <3>2, <3>3 DEF OpenNext
    <2>7. ASSUME NEW w \in Writes, WriteRecord(f, w) PROVE TypeOK'
      <3>1. disk' \in [Segs -> SUBSET Item] /\ synced' \in [Segs -> SUBSET Item]
        <4>1. synced' \in [Segs -> SUBSET Item]
          BY <2>7, SyncedTypes DEF WriteRecord
        <4>2. PICK file \in WrittenAt(disk[activeID], activeOffset, Rec(w, activeOffset))
                             \cup FailedAt(disk[activeID], activeOffset) :
                disk' = [disk EXCEPT ![activeID] = file]
          BY <2>7 DEF WriteRecord
        <4>3. disk' \in [Segs -> SUBSET Item]
          BY <4>2, DiskTypes
        <4> QED BY <4>1, <4>3
      <3>2. CASE Fail(f, w) /\ UNCHANGED activeOffset
        BY <2>7, <3>1, <3>2, FailTypes DEF WriteRecord
      <3>3. CASE ~(Fail(f, w) /\ UNCHANGED activeOffset)
        <4>1. /\ loc' = [loc EXCEPT ![w] = <<activeID, activeOffset>>]
              /\ activeOffset' \in {activeOffset, activeOffset + RecordSize[w]}
              /\ outcome' \in {outcome, [outcome EXCEPT ![w] = "ok"]}
              /\ next' \in {next, [next EXCEPT ![f] = @ + 1]}
              /\ stage' \in {stage, [stage EXCEPT ![f] = "sync"]}
              /\ UNCHANGED <<proc, queueVars, status, files, activeID, handle>>
          BY <2>7, <3>3 DEF WriteRecord
        <4>2. buffered' \in BOOLEAN
          BY <2>7 DEF WriteRecord
        <4>3. loc' \in [Writes -> Segs \X Nat] /\ activeOffset' \in Nat
          BY <4>1, SMTT(30)
        <4>4. outcome' \in [Writes -> {"none", "ok", "err"}] /\ next' \in [Flushers -> Nat \ {0}]
          BY <4>1, SMTT(30)
        <4>5. stage' \in [Flushers -> {"idle", "wait", "append", "open", "sync", "deliver"}]
          BY <4>1
        <4>6. QueueTypes'
          BY <4>1
        <4>7. UNCHANGED <<proc, bufSize, due, status, files, activeID, handle>>
          BY <4>1
        <4> QED BY <3>1, <4>2, <4>3, <4>4, <4>5, <4>6, <4>7
      <3> QED BY <3>2, <3>3
    <2>8. ASSUME NEW w \in Writes, DirectSync(f, w) PROVE TypeOK'
      <3>1. synced' \in [Segs -> SUBSET Item] /\ activeOffset' \in Nat
        BY <2>8, SMTT(30) DEF DirectSync
      <3>2. UNCHANGED <<proc, queueVars, status, disk, files, activeID, handle, buffered>>
        BY <2>8 DEF DirectSync
      <3>3. CASE Fail(f, w)
        BY <3>1, <3>2, <3>3, FailTypes
      <3>4. CASE ~Fail(f, w)
        <4>1. /\ outcome' = [outcome EXCEPT ![w] = "ok"] /\ next' = [next EXCEPT ![f] = @ + 1]
              /\ stage' = [stage EXCEPT ![f] = "append"] /\ loc' = loc
          BY <2>8, <3>4 DEF DirectSync
        <4> QED BY <3>1, <3>2, <4>1, SMTT(30)
      <3> QED BY <3>3, <3>4
    <2>9. ASSUME NEW w \in Writes, WriteToClosed(f, w) PROVE TypeOK'
      BY <2>9, SMTT(30) DEF WriteToClosed, Fail
    <2> QED BY <1>7, <2>1, <2>2, <2>3, <2>4, <2>5, <2>6, <2>7, <2>8, <2>9 DEF Step
  <1>8. CASE CloseBegin
    BY <1>8 DEF CloseBegin
  <1>9. CASE CloseFlush
    BY <1>9 DEF CloseFlush, TakeBatch
  <1>10. CASE CloseFinish
    <2>1. disk' \in [Segs -> SUBSET Item] /\ synced' \in [Segs -> SUBSET Item]
      BY <1>10, FinalizeTypes DEF CloseFinish
    <2>2. buffered' \in BOOLEAN
      BY <1>10 DEF CloseFinish, ProcessEnds
    <2> QED BY <1>10, <2>1, <2>2, SMTT(60) DEF CloseFinish, ProcessEnds
  <1>11. CASE Crash
    <2>1. disk' \in [Segs -> SUBSET Item]
      <3>1. ASSUME NEW s \in Segs, NEW lost PROVE AfterCrash(s, lost) \in SUBSET Item
        <4>1. \A it \in disk[s] : it \in Item /\ it.off \in Nat
          BY SMTT(30) DEF Item
        <4>2. \A it \in disk[s] : Torn(it.off) \in Item
          BY <4>1, ItemTypes
        <4>3. ASSUME NEW x \in AfterCrash(s, lost) PROVE x \in Item
          <5>1. x \in disk[s] \/ \E it \in disk[s] : x = Torn(it.off)
            BY <4>3 DEF AfterCrash
          <5> QED BY <4>1, <4>2, <5>1
        <4> QED BY <4>3
      <3> QED BY <1>11, <3>1, SMTT(30) DEF Crash
    <2>2. ProcessEnds /\ synced' = synced /\ files' \subseteq files
      BY <1>11 DEF Crash
    <2>3. loc' \in [Writes -> Segs \X Nat]
      BY <2>2 DEF ProcessEnds
    <2>4. /\ status' \in [Writes -> {"idle", "waiting", "acked", "failed"}]
          /\ outcome' \in [Writes -> {"none", "ok", "err"}]
      BY <2>2 DEF ProcessEnds
    <2>5. /\ proc' = "down" /\ bufSize' = 0 /\ due' = {}
          /\ stage' = [f \in Flushers |-> "idle"] /\ next' = [f \in Flushers |-> 1]
          /\ activeID' = 0 /\ activeOffset' = 0 /\ handle' = "closed"
      BY <2>2 DEF ProcessEnds
    <2>6. buffered' \in BOOLEAN
      BY <2>2 DEF ProcessEnds
    <2> QED BY <2>1, <2>2, <2>3, <2>4, <2>5, <2>6, SMTT(30)
  <1>12. CASE Open
    <2>1. PICK s \in Segs :
            /\ activeID' = s
            /\ files' = files \cup {s}
            /\ disk' = [disk EXCEPT ![s] = ValidTail(@)]
            /\ synced' = [synced EXCEPT ![s] = @ \cap disk'[s]]
            /\ \E e \in Ends(disk'[s]) : IsEnd(disk'[s], e) /\ activeOffset' = e
      BY <1>12 DEF Open
    <2>2. disk' \in [Segs -> SUBSET Item] /\ synced' \in [Segs -> SUBSET Item]
      BY <2>1, WriteTypes
    <2>3. Ends(disk'[s]) \subseteq Nat
      <3>1. disk'[s] \subseteq Item
        BY <2>2
      <3> QED BY <3>1, SMTT(30) DEF Ends, Item
    <2> QED BY <1>12, <2>1, <2>2, <2>3, SMTT(30) DEF Open
  <1> QED
    BY <1>1, <1>2, <1>3, <1>4, <1>5, <1>6, <1>7, <1>8, <1>9, <1>10, <1>11, <1>12 DEF Next

-----------------------------------------------------------------------------
(* The queue and the mutex.                                                *)

\* The record a flusher works on is in its batch.
LEMMA CurrentInBatch ==
    ASSUME NEW f \in Flushers, NEW w \in Writes, Current(f, w)
    PROVE  w \in InBatch(f)
  BY DEF Current, InBatch

\* Who is pending or in a batch changes only with the sequences.
LEMMA BatchUnchanged ==
    /\ UNCHANGED pending => InPending' = InPending
    /\ UNCHANGED batch => \A f \in Flushers : InBatch(f)' = InBatch(f)
  BY DEF InPending, InBatch

\* Flush moves every pending request to the batch of its caller.
LEMMA BatchTaken ==
    ASSUME QueueTypes, NEW f \in Flushers, TakeBatch(f)
    PROVE  \/ UNCHANGED <<pending, batch, stage>>
           \/ /\ InPending' = {} /\ InBatch(f)' = InPending
              /\ \A g \in Flushers \ {f} : InBatch(g)' = InBatch(g)
              /\ stage' = [stage EXCEPT ![f] = "wait"]
  <1>1. CASE pending = << >>
    BY <1>1 DEF TakeBatch
  <1>2. CASE pending # << >>
    <2>1. /\ batch' = [batch EXCEPT ![f] = pending] /\ pending' = << >>
          /\ stage' = [stage EXCEPT ![f] = "wait"]
      BY <1>2 DEF TakeBatch
    <2>2. InPending' = {}
      BY <2>1, SMTT(30) DEF InPending
    <2>3. InBatch(f)' = InPending /\ \A g \in Flushers \ {f} : InBatch(g)' = InBatch(g)
      BY <2>1 DEF InPending, InBatch, QueueTypes
    <2> QED BY <2>1, <2>2, <2>3
  <1> QED BY <1>1, <1>2

\* Only requests are pending or in a batch.
LEMMA Members == QueueTypes => InPending \subseteq Writes /\ \A f \in Flushers : InBatch(f) \subseteq Writes
<1>1. ASSUME QueueTypes PROVE InPending \subseteq Writes
  BY <1>1, SMTT(30) DEF QueueTypes, InPending
<1>2. ASSUME QueueTypes, NEW f \in Flushers PROVE InBatch(f) \subseteq Writes
  <2>1. batch[f] \in Seq(Writes)
    BY <1>2 DEF QueueTypes
  <2> QED BY <2>1, SMTT(30) DEF InBatch
<1> QED BY <1>1, <1>2

\* Every step keeps each request in one place.
LEMMA QueuedStep == TypeOK /\ Queued /\ [Next]_vars => Queued'
  <1> SUFFICES ASSUME TypeOK, Queued, [Next]_vars PROVE Queued'
    OBVIOUS
  <1>1. /\ QueueTypes
        /\ status \in [Writes -> {"idle", "waiting", "acked", "failed"}]
        /\ outcome \in [Writes -> {"none", "ok", "err"}]
    BY DEF TypeOK
  <1>2. InPending \subseteq Writes /\ \A f \in Flushers : InBatch(f) \subseteq Writes
    BY <1>1, Members
  <1>3. ASSUME NEW f \in Flushers, UNCHANGED <<pending, batch, status>>,
               \A w \in Writes \ InBatch(f) : outcome'[w] = outcome[w]
        PROVE  Queued'
    <2>1. InPending' = InPending /\ \A g \in Flushers : InBatch(g)' = InBatch(g)
      BY <1>3, BatchUnchanged
    <2>2. \A v \in InPending : status'[v] \in {"waiting", "failed"} /\ outcome'[v] = "none"
      <3> SUFFICES ASSUME NEW v \in InPending
                   PROVE  status'[v] \in {"waiting", "failed"} /\ outcome'[v] = "none"
        OBVIOUS
      <3>1. v \notin InBatch(f) /\ status[v] \in {"waiting", "failed"} /\ outcome[v] = "none"
        BY DEF Queued
      <3> QED BY <1>2, <1>3, <3>1
    <2>3. \A g \in Flushers : \A v \in InBatch(g) :
             /\ status'[v] \in {"waiting", "failed"} /\ v \notin InPending
             /\ \A h \in Flushers \ {g} : v \notin InBatch(h)
      BY <1>3 DEF Queued
    <2>4. \A v \in Writes : status'[v] = "idle" => outcome'[v] = "none"
      <3> SUFFICES ASSUME NEW v \in Writes, status'[v] = "idle" PROVE outcome'[v] = "none"
        OBVIOUS
      <3>1. status[v] = "idle"
        BY <1>3
      <3>2. v \notin InBatch(f) /\ outcome[v] = "none"
        BY <3>1 DEF Queued
      <3> QED BY <1>3, <3>2
    <2> QED BY <2>1, <2>2, <2>3, <2>4, SMTT(30) DEF Queued
  <1>4. ASSUME UNCHANGED <<pending, batch, status, outcome>> PROVE Queued'
    <2>1. Loop \in Flushers
      BY Constants
    <2> QED BY <1>3, <1>4, <2>1
  <1>5. ASSUME NEW f \in Flushers, TakeBatch(f), UNCHANGED <<status, outcome>> PROVE Queued'
    <2>1. CASE UNCHANGED <<pending, batch>>
      BY <1>4, <1>5, <2>1
    <2>2. CASE /\ InPending' = {} /\ InBatch(f)' = InPending
               /\ \A g \in Flushers \ {f} : InBatch(g)' = InBatch(g)
      BY <1>5, <2>2, SMTT(30) DEF Queued
    <2> QED BY <1>1, <1>5, <2>1, <2>2, BatchTaken
  <1>6. ASSUME NEW w \in Writes, BufferAppend(w) PROVE Queued'
    <2>1. /\ pending' = Append(pending, w) /\ UNCHANGED <<batch, outcome>>
          /\ status[w] = "idle" /\ status' = [status EXCEPT ![w] = "waiting"]
      BY <1>6 DEF BufferAppend
    <2>2. InPending' = InPending \cup {w}
      <3>1. pending \in Seq(Writes)
        BY <1>1 DEF QueueTypes
      <3>2. /\ DOMAIN pending' = 1 .. Len(pending) + 1 /\ DOMAIN pending = 1 .. Len(pending)
            /\ Len(pending) \in Nat
        BY <2>1, <3>1, SMTT(30)
      <3>3. /\ \A i \in 1 .. Len(pending) : pending'[i] = pending[i]
            /\ pending'[Len(pending) + 1] = w
        BY <2>1, <3>1, SMTT(30)
      <3> QED BY <3>2, <3>3, SMTT(30) DEF InPending
    <2>3. \A f \in Flushers : InBatch(f)' = InBatch(f)
      BY <2>1, BatchUnchanged
    <2>4. outcome[w] = "none" /\ \A f \in Flushers : w \notin InBatch(f)
      BY <2>1 DEF Queued
    <2>5. /\ status'[w] = "waiting" /\ UNCHANGED outcome
          /\ \A v \in Writes \ {w} : status'[v] = status[v]
      BY <1>1, <2>1
    <2>6. \A v \in InPending \cup {w} : status'[v] \in {"waiting", "failed"} /\ outcome'[v] = "none"
      BY <1>2, <2>4, <2>5 DEF Queued
    <2>7. \A f \in Flushers : \A v \in InBatch(f) :
             /\ status'[v] \in {"waiting", "failed"} /\ v \notin InPending \cup {w}
             /\ \A g \in Flushers \ {f} : v \notin InBatch(g)
      BY <1>2, <2>4, <2>5 DEF Queued
    <2>8. \A v \in Writes : status'[v] = "idle" => outcome'[v] = "none"
      BY <2>5 DEF Queued
    <2>9. /\ \A v \in InPending' : status'[v] \in {"waiting", "failed"} /\ outcome'[v] = "none"
          /\ \A f \in Flushers : \A v \in InBatch(f)' :
                /\ status'[v] \in {"waiting", "failed"} /\ v \notin InPending'
                /\ \A g \in Flushers \ {f} : v \notin InBatch(g)'
      BY <2>2, <2>3, <2>6, <2>7, SMTT(30)
    <2> QED BY <2>8, <2>9 DEF Queued
  <1>7. ASSUME NEW w \in Writes, DirectAppend(w) PROVE Queued'
    <2>1. /\ batch' = [batch EXCEPT ![w] = <<w>>] /\ UNCHANGED <<pending, outcome>>
          /\ status[w] = "idle" /\ status' = [status EXCEPT ![w] = "waiting"]
      BY <1>7 DEF DirectAppend
    <2>2. w \in Flushers
      BY Constants
    <2>3. InBatch(w)' = {w} /\ \A g \in Flushers \ {w} : InBatch(g)' = InBatch(g)
      BY <1>1, <2>1, <2>2, SMTT(30) DEF InBatch, QueueTypes
    <2>4. InPending' = InPending
      BY <2>1, BatchUnchanged
    <2>5. w \notin InPending /\ \A f \in Flushers : w \notin InBatch(f)
      BY <2>1 DEF Queued
    <2>6. /\ status'[w] = "waiting" /\ UNCHANGED outcome
          /\ \A v \in Writes \ {w} : status'[v] = status[v]
      BY <1>1, <2>1
    <2> QED BY <1>2, <2>2, <2>3, <2>4, <2>5, <2>6, SMTT(30) DEF Queued
  <1>8. ASSUME NEW w \in Writes, Cancel(w) PROVE Queued'
    <2>1. /\ UNCHANGED <<pending, batch, outcome>> /\ status[w] = "waiting"
          /\ status' = [status EXCEPT ![w] = "failed"]
      BY <1>8 DEF Cancel, bufferVars, queueVars
    <2>2. status'[w] = "failed" /\ \A v \in Writes \ {w} : status'[v] = status[v]
      BY <1>1, <2>1
    <2> QED BY <1>2, <2>1, <2>2, BatchUnchanged, SMTT(30) DEF Queued
  <1>9. ASSUME NEW f \in Flushers, Deliver(f) PROVE Queued'
    <2>1. InBatch(f)' = {} /\ \A g \in Flushers \ {f} : InBatch(g)' = InBatch(g)
      BY <1>1, <1>9, SMTT(30) DEF Deliver, InBatch, QueueTypes
    <2>2. InPending' = InPending
      BY <1>9, BatchUnchanged DEF Deliver
    <2>3. /\ \A w \in Writes \ InBatch(f) : status'[w] = status[w] /\ outcome'[w] = outcome[w]
          /\ \A w \in Writes : w \in InBatch(f) => outcome'[w] = "none"
      BY <1>9 DEF Deliver
    <2>4. \A w \in Writes : w \in InBatch(f) => status'[w] # "idle"
      BY <1>9 DEF Deliver, Queued
    <2>5. \A v \in InPending : status'[v] \in {"waiting", "failed"} /\ outcome'[v] = "none"
      <3> SUFFICES ASSUME NEW v \in InPending
                   PROVE  status'[v] \in {"waiting", "failed"} /\ outcome'[v] = "none"
        OBVIOUS
      <3>1. v \notin InBatch(f) /\ status[v] \in {"waiting", "failed"} /\ outcome[v] = "none"
        BY DEF Queued
      <3> QED BY <1>2, <2>3, <3>1
    <2>6. \A g \in Flushers \ {f} : \A v \in InBatch(g) :
             /\ status'[v] \in {"waiting", "failed"} /\ v \notin InPending
             /\ \A h \in Flushers \ {g} : v \notin InBatch(h)
      <3> SUFFICES ASSUME NEW g \in Flushers \ {f}, NEW v \in InBatch(g)
                   PROVE  /\ status'[v] \in {"waiting", "failed"} /\ v \notin InPending
                          /\ \A h \in Flushers \ {g} : v \notin InBatch(h)
        OBVIOUS
      <3>1. /\ v \notin InBatch(f) /\ status[v] \in {"waiting", "failed"} /\ v \notin InPending
            /\ \A h \in Flushers \ {g} : v \notin InBatch(h)
        BY DEF Queued
      <3> QED BY <1>2, <2>3, <3>1
    <2>7. \A v \in Writes : status'[v] = "idle" => outcome'[v] = "none"
      BY <2>3, <2>4 DEF Queued
    <2>8. /\ \A v \in InPending' : status'[v] \in {"waiting", "failed"} /\ outcome'[v] = "none"
          /\ \A g \in Flushers : \A v \in InBatch(g)' :
                /\ status'[v] \in {"waiting", "failed"} /\ v \notin InPending'
                /\ \A h \in Flushers \ {g} : v \notin InBatch(h)'
      BY <2>1, <2>2, <2>5, <2>6, SMTT(30)
    <2> QED BY <2>7, <2>8 DEF Queued
  <1>10. ASSUME ProcessEnds PROVE Queued'
    <2>1. InPending' = {} /\ \A f \in Flushers : InBatch(f)' = {}
      BY <1>10, SMTT(30) DEF ProcessEnds, InPending, InBatch
    <2>2. \A w \in Writes : outcome'[w] = "none"
      BY <1>10 DEF ProcessEnds
    <2> QED BY <2>1, <2>2 DEF Queued
  <1>11. ASSUME NEW f \in Flushers, NEW w \in Writes, Current(f, w), Fail(f, w),
                UNCHANGED <<pending, batch, status>>
         PROVE  Queued'
    BY <1>1, <1>3, <1>11, CurrentInBatch DEF Fail
  <1>12. ASSUME NEW f \in Flushers, Step(f) PROVE Queued'
    <2>1. CASE Lock(f)
      BY <1>4, <2>1 DEF Lock, queueVars, writeVars
    <2>2. CASE SyncBatch(f)
      <3>1. \A w \in Writes \ InBatch(f) : outcome'[w] = outcome[w]
        BY <1>1, <2>2 DEF SyncBatch, FailRest
      <3> QED BY <1>3, <2>2, <3>1 DEF SyncBatch, queueVars
    <2>3. CASE Deliver(f)
      BY <1>9, <2>3
    <2>4. CASE FlushPanic(f)
      BY <1>3, <2>4 DEF FlushPanic, FailRest, queueVars
    <2>5. ASSUME NEW w \in Writes, Rotate(f, w) PROVE Queued'
      BY <1>4, <1>11, <2>5 DEF Rotate, queueVars
    <2>6. ASSUME NEW w \in Writes, OpenNext(f, w) PROVE Queued'
      BY <1>4, <1>11, <2>6 DEF OpenNext, queueVars
    <2>7. ASSUME NEW w \in Writes, WriteRecord(f, w) PROVE Queued'
      <3>1. \A v \in Writes \ InBatch(f) : outcome'[v] = outcome[v]
        BY <1>1, <2>7, CurrentInBatch DEF WriteRecord, Fail
      <3> QED BY <1>3, <2>7, <3>1 DEF WriteRecord, queueVars
    <2>8. ASSUME NEW w \in Writes, DirectSync(f, w) PROVE Queued'
      <3>1. \A v \in Writes \ InBatch(f) : outcome'[v] = outcome[v]
        BY <1>1, <2>8, CurrentInBatch DEF DirectSync, Fail
      <3> QED BY <1>3, <2>8, <3>1 DEF DirectSync, queueVars
    <2>9. ASSUME NEW w \in Writes, WriteToClosed(f, w) PROVE Queued'
      BY <1>11, <2>9 DEF WriteToClosed, queueVars
    <2> QED BY <1>12, <2>1, <2>2, <2>3, <2>4, <2>5, <2>6, <2>7, <2>8, <2>9 DEF Step
  <1> QED
    BY <1>4, <1>5, <1>6, <1>7, <1>8, <1>10, <1>12, Constants
    DEF Next, vars, ThresholdFlush, TickFlush, CloseBegin, CloseFlush, CloseFinish,
        Crash, Open, bufferVars, queueVars, writeVars

\* Every step keeps the segment mutex exclusive and its holder running.
LEMMA MutexStep == TypeOK /\ Mutex /\ Holding /\ [Next]_vars => Mutex' /\ Holding'
  <1> SUFFICES ASSUME TypeOK, Mutex, Holding, [Next]_vars PROVE Mutex' /\ Holding'
    OBVIOUS
  <1> DEFINE Stages == {"idle", "wait", "append", "open", "sync", "deliver"}
  <1>1. stage \in [Flushers -> Stages] /\ QueueTypes
    BY DEF TypeOK
  \* f moves on; nobody else moves, or f takes or leaves the mutex.
  <1>2. ASSUME NEW f \in Flushers, NEW st \in Stages, stage[f] # "idle",
               stage' = [stage EXCEPT ![f] = st],
               HoldsMutex(f) \/ MutexFree \/ st \notin {"append", "open", "sync"},
               st = "sync" => handle = "open",
               UNCHANGED <<proc, due>>,
               handle' = handle \/ (HoldsMutex(f) /\ st # "sync")
        PROVE  Mutex' /\ Holding'
    <2>1. stage'[f] = st /\ \A g \in Flushers \ {f} : stage'[g] = stage[g]
      BY <1>1, <1>2
    <2>2. Mutex'
      BY <1>2, <2>1 DEF Mutex, HoldsMutex, MutexFree
    <2>3. Running' = Running /\ due' = due
      BY <1>2 DEF Running
    <2>4. ASSUME NEW g \in Flushers, stage'[g] = "sync" PROVE handle' = "open"
      <3>1. CASE g = f
        BY <1>2, <2>1, <2>4, <3>1 DEF Holding
      <3>2. CASE g # f
        <4>1. HoldsMutex(g) /\ stage[g] = "sync"
          BY <2>1, <2>4, <3>2 DEF HoldsMutex
        <4> QED BY <1>2, <3>2, <4>1 DEF Holding, Mutex
      <3> QED BY <3>1, <3>2
    <2> QED BY <1>2, <2>1, <2>2, <2>3, <2>4 DEF Holding
  <1>3. ASSUME NEW f \in Flushers, TakeBatch(f), Running, Running', handle' = handle,
               due' \subseteq due
        PROVE  Mutex' /\ Holding'
    <2>1. UNCHANGED stage \/ stage' = [stage EXCEPT ![f] = "wait"]
      BY <1>3 DEF TakeBatch
    <2>2. \A g \in Flushers : stage'[g] = stage[g] \/ stage'[g] = "wait"
      BY <1>1, <2>1
    <2> QED BY <1>3, <2>2 DEF Mutex, Holding, HoldsMutex
  <1>4. ASSUME UNCHANGED <<stage, handle>>, Running', due' \subseteq due PROVE Mutex' /\ Holding'
    BY <1>4 DEF Mutex, Holding, HoldsMutex
  <1>5. ASSUME ProcessEnds PROVE Mutex' /\ Holding'
    BY <1>5 DEF ProcessEnds, Mutex, Holding, HoldsMutex
  <1>6. ASSUME NEW f \in Flushers, Step(f) PROVE Mutex' /\ Holding'
    <2>1. CASE Lock(f)
      BY <1>2, <2>1 DEF Lock, queueVars, activeVars
    <2>2. CASE SyncBatch(f)
      BY <1>2, <2>2 DEF SyncBatch, queueVars, activeVars
    <2>3. CASE Deliver(f)
      BY <1>2, <2>3 DEF Deliver, activeVars
    <2>4. CASE FlushPanic(f)
      BY <1>2, <2>4 DEF FlushPanic, queueVars, activeVars
    <2>5. ASSUME NEW w \in Writes, Rotate(f, w) PROVE Mutex' /\ Holding'
      <3>1. /\ stage[f] = "append" /\ UNCHANGED <<proc, due, handle>>
            /\ \/ stage' = [stage EXCEPT ![f] = "open"]
               \/ stage' = [stage EXCEPT ![f] = "append"]
        BY <2>5 DEF Rotate, Fail, queueVars, activeVars
      <3> QED BY <1>2, <3>1 DEF HoldsMutex
    <2>6. ASSUME NEW w \in Writes, OpenNext(f, w) PROVE Mutex' /\ Holding'
      <3>1. /\ stage[f] = "open" /\ UNCHANGED <<proc, due>>
            /\ stage' = [stage EXCEPT ![f] = "append"]
        BY <2>6 DEF OpenNext, Fail, queueVars
      <3> QED BY <1>2, <3>1 DEF HoldsMutex
    <2>7. ASSUME NEW w \in Writes, WriteRecord(f, w) PROVE Mutex' /\ Holding'
      <3>1. /\ stage[f] = "append" /\ UNCHANGED <<proc, due, handle>> /\ handle = "open"
            /\ \/ stage' = [stage EXCEPT ![f] = "sync"]
               \/ stage' = [stage EXCEPT ![f] = "append"]
        BY <1>1, <2>7 DEF WriteRecord, Fail, queueVars
      <3>2. HoldsMutex(f)
        BY <3>1 DEF HoldsMutex
      <3>3. CASE stage' = [stage EXCEPT ![f] = "sync"]
        BY <1>2, <3>1, <3>2, <3>3
      <3>4. CASE stage' = [stage EXCEPT ![f] = "append"]
        BY <1>2, <3>1, <3>2, <3>4
      <3> QED BY <3>1, <3>3, <3>4
    <2>8. ASSUME NEW w \in Writes, DirectSync(f, w) PROVE Mutex' /\ Holding'
      <3>1. /\ stage[f] = "sync" /\ UNCHANGED <<proc, due, handle>>
            /\ stage' = [stage EXCEPT ![f] = "append"]
        BY <2>8 DEF DirectSync, Fail, queueVars
      <3> QED BY <1>2, <3>1 DEF HoldsMutex
    <2>9. ASSUME NEW w \in Writes, WriteToClosed(f, w) PROVE Mutex' /\ Holding'
      <3>1. /\ stage[f] = "append" /\ UNCHANGED <<proc, due, handle>>
            /\ stage' = [stage EXCEPT ![f] = "append"]
        BY <2>9 DEF WriteToClosed, Fail, queueVars, activeVars
      <3> QED BY <1>2, <3>1 DEF HoldsMutex
    <2> QED BY <1>6, <2>1, <2>2, <2>3, <2>4, <2>5, <2>6, <2>7, <2>8, <2>9 DEF Step
  <1>7. ASSUME NEW w \in Writes, BufferAppend(w) \/ Cancel(w) PROVE Mutex' /\ Holding'
    <2>1. UNCHANGED <<proc, stage, handle>> /\ (due' # {} => due # {} \/ Running)
      BY <1>7 DEF BufferAppend, Cancel, activeVars, bufferVars, queueVars
    <2> QED BY <2>1 DEF Mutex, Holding, HoldsMutex, Running
  <1>8. ASSUME NEW w \in Writes, DirectAppend(w) PROVE Mutex' /\ Holding'
    <2>1. UNCHANGED <<proc, handle, due>> /\ Running /\ stage' = [stage EXCEPT ![w] = "wait"]
      BY <1>8 DEF DirectAppend, activeVars
    <2>2. \A g \in Flushers : stage'[g] = stage[g] \/ stage'[g] = "wait"
      BY <1>1, <2>1
    <2> QED BY <2>1, <2>2 DEF Mutex, Holding, HoldsMutex, Running
  <1>9. ASSUME NEW w \in Writes, ThresholdFlush(w) PROVE Mutex' /\ Holding'
    <2>1. Running /\ Running' /\ due' \subseteq due /\ TakeBatch(w) /\ handle' = handle
      BY <1>9 DEF ThresholdFlush, activeVars, Holding, Running
    <2> QED BY <1>3, <2>1, Constants
  <1>10. CASE TickFlush
    BY <1>3, <1>10, Constants DEF TickFlush, activeVars, Running
  <1>11. CASE CloseBegin
    BY <1>4, <1>11 DEF CloseBegin, activeVars, bufferVars, queueVars, Running
  <1>12. CASE CloseFlush
    BY <1>3, <1>12, Constants DEF CloseFlush, activeVars, Running
  <1>13. CASE Open
    <2>1. UNCHANGED <<stage, due>> /\ handle' = "open" /\ Running'
      BY <1>13 DEF Open, bufferVars, queueVars, Running
    <2> QED BY <2>1 DEF Mutex, Holding, HoldsMutex
  <1>14. CASE UNCHANGED vars
    BY <1>14 DEF vars, bufferVars, queueVars, activeVars, Mutex, Holding, HoldsMutex, Running
  <1> QED
    BY <1>5, <1>6, <1>7, <1>8, <1>9, <1>10, <1>11, <1>12, <1>13, <1>14
    DEF Next, CloseFinish, Crash

-----------------------------------------------------------------------------
(* The inductive invariant.                                                *)

\* The write position lies in the newest file.
Active ==
    /\ \A s \in Segs \ files : disk[s] = {}
    /\ Running => \A s \in files : s <= activeID
    /\ handle = "open" => Running /\ activeID \in files
    /\ handle = "closed" => activeOffset = 0

Files ==
    /\ \A s \in Segs : Shape(disk[s], synced[s])
    /\ handle = "open" => Tidy(disk[activeID], activeOffset)

\* it is out of the reach of the next write.
Settled(s, it) == handle = "open" /\ s = activeID => it.off + it.size <= activeOffset

\* w's record, or a footer before it, is on stable storage for good.
Safe(w) ==
    \E it \in synced[loc[w][1]] :
        /\ it = Rec(w, loc[w][2]) \/ (it.kind = "foot" /\ it.off < loc[w][2])
        /\ Settled(loc[w][1], it)

\* w's record is written and waits for the fsync of its batch.
Written(w) ==
    /\ buffered /\ handle = "open" /\ loc[w][1] = activeID
    /\ Rec(w, loc[w][2]) \in disk[activeID]
    /\ loc[w][2] + RecordSize[w] <= activeOffset

AckedSafe == \A w \in Writes : status[w] = "acked" => Safe(w)

BatchSafe ==
    \A f \in Flushers : \A w \in InBatch(f) :
        stage[f] # "idle" /\ outcome[w] = "ok" =>
            \/ Safe(w)
            \/ stage[f] = "append" /\ Written(w)
            \/ stage[f] = "sync" /\ Current(f, w)

\* Between the write and the fsync of a direct append the record lies at the
\* write position.
DirectWritten ==
    \A f \in Flushers, w \in Writes :
        stage[f] = "sync" /\ Current(f, w) =>
            /\ loc[w] = <<activeID, activeOffset>>
            /\ Rec(w, activeOffset) \in disk[activeID]
            /\ Tidy(disk[activeID], activeOffset + RecordSize[w])

QInv == Queued /\ Mutex /\ Holding
Durable == Active /\ Files /\ AckedSafe /\ BatchSafe /\ DirectWritten
IInv == TypeOK /\ QInv /\ Durable

-----------------------------------------------------------------------------
(* Durability: the steps that write a record.                              *)

\* The types of files, locations and answers.
LEMMA FileFacts ==
    TypeOK => /\ disk \in [Segs -> SUBSET Item] /\ synced \in [Segs -> SUBSET Item]
              /\ activeID \in Segs /\ activeOffset \in Nat
              /\ loc \in [Writes -> Segs \X Nat]
              /\ \A w \in Writes : loc[w][1] \in Segs /\ loc[w][2] \in Nat
              /\ outcome \in [Writes -> {"none", "ok", "err"}]
              /\ status \in [Writes -> {"idle", "waiting", "acked", "failed"}]
              /\ stage \in [Flushers -> {"idle", "wait", "append", "open", "sync", "deliver"}]
  BY DEF TypeOK


\* What a step that leaves the files alone may do to the queues: who is
\* acknowledged was so before or comes from a finished batch,
AckedKept ==
    \A w \in Writes : status'[w] = "acked" =>
        /\ loc'[w] = loc[w]
        /\ \/ status[w] = "acked"
           \/ \E f \in Flushers : w \in InBatch(f) /\ outcome[w] = "ok" /\ stage[f] = "deliver"

\* no record of a batch becomes "ok",
BatchKept ==
    \A f \in Flushers : \A w \in InBatch(f)' :
        stage'[f] # "idle" /\ outcome'[w] = "ok" =>
            /\ w \in InBatch(f) /\ outcome[w] = "ok" /\ loc'[w] = loc[w]
            /\ stage[f] # "idle"
            /\ \/ /\ stage'[f] = stage[f]
                  /\ stage[f] = "append" \/ (Current(f, w) => Current(f, w)')
               \/ stage[f] \notin {"append", "sync"}
               \/ stage[f] = "append" /\ ~buffered

\* and no direct append gets to its fsync.
DirectKept ==
    \A f \in Flushers, w \in Writes : stage'[f] = "sync" /\ Current(f, w)' =>
        stage[f] = "sync" /\ Current(f, w) /\ loc'[w] = loc[w]

\* Steps that touch neither the files nor the write position.
LEMMA QueueFrame ==
    ASSUME TypeOK, Durable, UNCHANGED <<fileVars, activeVars>>, Running' = Running,
           AckedKept, BatchKept, DirectKept
    PROVE  Durable'
  <1>1. Active' /\ Files'
    BY DEF Durable, Active, Files, fileVars, activeVars
  <1>2. \A w \in Writes : loc'[w] = loc[w] => (Safe(w) => Safe(w)') /\ (Written(w) => Written(w)')
    BY DEF Safe, Settled, Written, fileVars, activeVars
  <1>3. AckedSafe'
    <2> SUFFICES ASSUME NEW w \in Writes, status'[w] = "acked" PROVE Safe(w)'
      BY DEF AckedSafe
    <2>1. /\ loc'[w] = loc[w]
          /\ \/ status[w] = "acked"
             \/ \E f \in Flushers : w \in InBatch(f) /\ outcome[w] = "ok" /\ stage[f] = "deliver"
      BY DEF AckedKept
    <2>2. Safe(w)
      BY <2>1 DEF Durable, AckedSafe, BatchSafe
    <2> QED BY <1>2, <2>1, <2>2
  <1>4. BatchSafe'
    <2> SUFFICES ASSUME NEW f \in Flushers, NEW w \in InBatch(f)', stage'[f] # "idle",
                        outcome'[w] = "ok"
                 PROVE  \/ Safe(w)'
                        \/ stage'[f] = "append" /\ Written(w)'
                        \/ stage'[f] = "sync" /\ Current(f, w)'
      BY DEF BatchSafe
    <2>1. /\ w \in InBatch(f) /\ outcome[w] = "ok" /\ loc'[w] = loc[w] /\ stage[f] # "idle"
          /\ \/ /\ stage'[f] = stage[f]
                /\ stage[f] = "append" \/ (Current(f, w) => Current(f, w)')
             \/ stage[f] \notin {"append", "sync"}
             \/ stage[f] = "append" /\ ~buffered
      BY DEF BatchKept
    <2>2. w \in Writes
      BY <2>1, Members DEF TypeOK
    <2>3. \/ Safe(w)
          \/ stage[f] = "append" /\ Written(w)
          \/ stage[f] = "sync" /\ Current(f, w)
      BY <2>1 DEF Durable, BatchSafe
    <2>4. Written(w) => buffered
      BY DEF Written
    <2> QED BY <1>2, <2>1, <2>2, <2>3, <2>4
  <1>5. DirectWritten'
    <2> SUFFICES ASSUME NEW f \in Flushers, NEW w \in Writes, stage'[f] = "sync", Current(f, w)'
                 PROVE  /\ loc'[w] = <<activeID', activeOffset'>>
                        /\ Rec(w, activeOffset') \in disk'[activeID']
                        /\ Tidy(disk'[activeID'], activeOffset' + RecordSize[w])
      BY DEF DirectWritten, Tidy
    <2>1. stage[f] = "sync" /\ Current(f, w) /\ loc'[w] = loc[w]
      BY DEF DirectKept
    <2>2. /\ loc[w] = <<activeID, activeOffset>>
          /\ Rec(w, activeOffset) \in disk[activeID]
          /\ Tidy(disk[activeID], activeOffset + RecordSize[w])
      BY <2>1 DEF Durable, DirectWritten
    <2>3. UNCHANGED <<disk, activeID, activeOffset>>
      BY DEF fileVars, activeVars
    <2> QED BY <2>1, <2>2, <2>3
  <1> QED BY <1>1, <1>3, <1>4, <1>5 DEF Durable

\* A record that is safe stays so when the active file is written or synced.
LEMMA SafeKept ==
    ASSUME TypeOK, handle = "open", NEW w \in Writes, Safe(w), loc'[w] = loc[w],
           \A s \in Segs \ {activeID} : synced'[s] = synced[s],
           Below(synced[activeID], activeOffset) \subseteq synced'[activeID],
           handle' = "open" => /\ activeID' = activeID /\ activeOffset' \in Nat
                               /\ activeOffset <= activeOffset'
    PROVE  Safe(w)'
  <1>1. loc[w][1] \in Segs /\ synced \in [Segs -> SUBSET Item] /\ activeOffset \in Nat
    BY FileFacts
  <1>2. PICK it \in synced[loc[w][1]] :
           /\ it = Rec(w, loc[w][2]) \/ (it.kind = "foot" /\ it.off < loc[w][2])
           /\ Settled(loc[w][1], it)
    BY DEF Safe
  <1>3. it \in Item /\ it.off \in Nat /\ it.size \in Nat
    BY <1>1, <1>2, ItemFields
  <1>4. CASE loc[w][1] = activeID
    <2>1. it.off + it.size <= activeOffset
      BY <1>2, <1>4 DEF Settled
    <2>2. it \in synced'[activeID]
      BY <1>2, <1>4, <2>1 DEF Below
    <2>3. Settled(loc[w][1], it)'
      <3>1. PICK n \in Nat : n = it.off + it.size
        BY <1>3, SMTT(30)
      <3>2. handle' = "open" => n <= activeOffset'
        BY <1>1, <2>1, <3>1, SMTT(30)
      <3> QED BY <3>1, <3>2 DEF Settled
    <2> QED BY <1>2, <1>4, <2>2, <2>3 DEF Safe
  <1>5. CASE loc[w][1] # activeID
    <2>1. it \in synced'[loc[w][1]]
      BY <1>1, <1>2, <1>5
    <2>2. Settled(loc[w][1], it)'
      BY <1>5 DEF Settled
    <2> QED BY <1>2, <2>1, <2>2 DEF Safe
  <1> QED BY <1>4, <1>5

\* What is certain before a write is in the file.
LEMMA BelowSubset ==
    ASSUME TypeOK, Files
    PROVE  Below(synced[activeID], activeOffset) \subseteq Below(disk[activeID], activeOffset)
  BY FileFacts DEF Files, Shape, Below

\* A written record lies before the write position.
LEMMA WrittenBelow ==
    ASSUME TypeOK, NEW w \in Writes, Written(w)
    PROVE  /\ loc[w][1] = activeID /\ loc[w][2] \in Nat /\ activeOffset \in Nat
           /\ loc[w][2] + RecordSize[w] <= activeOffset /\ RecordSize[w] \in Nat
           /\ Rec(w, loc[w][2]) \in Below(disk[activeID], activeOffset)
           /\ Rec(w, loc[w][2]).off + Rec(w, loc[w][2]).size = loc[w][2] + RecordSize[w]
  <1>1. loc[w][2] \in Nat /\ activeOffset \in Nat /\ RecordSize[w] \in Nat
    BY FileFacts, Constants
  <1>2. PICK n \in Nat : n = loc[w][2]
    BY <1>1
  <1>3. loc[w][1] = activeID /\ Rec(w, n) \in disk[activeID] /\ n + RecordSize[w] <= activeOffset
    BY <1>2 DEF Written
  <1>4. Rec(w, n).off = n /\ Rec(w, n).size = RecordSize[w]
    BY RecFields
  <1>5. Rec(w, n) \in Below(disk[activeID], activeOffset)
    BY <1>3, <1>4 DEF Below
  <1> QED BY <1>1, <1>2, <1>3, <1>4, <1>5

\* A written record becomes safe when the file it is in is synced.
LEMMA WrittenSafe ==
    ASSUME TypeOK, NEW w \in Writes, Written(w), loc'[w] = loc[w],
           Below(disk[activeID], activeOffset) \subseteq synced'[activeID],
           activeID' = activeID, activeOffset' \in Nat, activeOffset <= activeOffset'
    PROVE  Safe(w)'
  <1>1. PICK n \in Nat : n = loc[w][2]
    BY WrittenBelow
  <1>2. /\ loc'[w][1] = activeID /\ loc'[w][2] = n
        /\ Rec(w, n) \in Below(disk[activeID], activeOffset)
    BY <1>1, WrittenBelow
  <1>3. Rec(w, n) \in synced'[activeID]
    BY <1>2
  <1>4. Rec(w, n).off + Rec(w, n).size <= activeOffset'
    <2>1. /\ Rec(w, n).off + Rec(w, n).size = n + RecordSize[w]
          /\ n + RecordSize[w] <= activeOffset /\ RecordSize[w] \in Nat /\ activeOffset \in Nat
      BY <1>1, WrittenBelow
    <2>2. PICK k \in Nat : k = n + RecordSize[w]
      BY <2>1, SMTT(30)
    <2>3. k <= activeOffset'
      BY <2>1, <2>2, SMTT(30)
    <2> QED BY <2>1, <2>2, <2>3
  <1>5. Settled(loc[w][1], Rec(w, n))'
    BY <1>4 DEF Settled
  <1> QED BY <1>2, <1>3, <1>5 DEF Safe

\* A written record stays so when the active file is written.
LEMMA WrittenKept ==
    ASSUME TypeOK, NEW w \in Writes, Written(w), loc'[w] = loc[w],
           Below(disk[activeID], activeOffset) \subseteq disk'[activeID],
           activeID' = activeID, handle' = "open", buffered' = buffered,
           activeOffset' \in Nat, activeOffset <= activeOffset'
    PROVE  Written(w)'
  <1>1. PICK n \in Nat : n = loc[w][2]
    BY WrittenBelow
  <1>2. /\ loc'[w][1] = activeID /\ loc'[w][2] = n
        /\ Rec(w, n) \in Below(disk[activeID], activeOffset)
    BY <1>1, WrittenBelow
  <1>3. Rec(w, n) \in disk'[activeID]
    BY <1>2
  <1>4. n + RecordSize[w] <= activeOffset'
    <2>1. n + RecordSize[w] <= activeOffset /\ RecordSize[w] \in Nat /\ activeOffset \in Nat
      BY <1>1, WrittenBelow
    <2>2. PICK k \in Nat : k = n + RecordSize[w]
      BY <2>1, SMTT(30)
    <2>3. k <= activeOffset'
      BY <2>1, <2>2, SMTT(30)
    <2> QED BY <2>2, <2>3
  <1>5. buffered'
    BY DEF Written
  <1> QED BY <1>2, <1>3, <1>4, <1>5 DEF Written

\* What finalizeLocked, successful or not, does to the active file.
LEMMA FinalizeShape ==
    ASSUME TypeOK, Active, Files, handle = "open", FinalizeOK \/ FinalizeFails
    PROVE  /\ \A s \in Segs \ {activeID} : disk'[s] = disk[s] /\ synced'[s] = synced[s]
           /\ Below(disk[activeID], activeOffset) \subseteq disk'[activeID]
           /\ Below(synced[activeID], activeOffset) \subseteq synced'[activeID]
           /\ FinalizeOK => synced'[activeID] = disk'[activeID]
           /\ Shape(disk'[activeID], synced'[activeID])
           /\ Tidy(disk'[activeID], activeOffset)
  <1> DEFINE file == disk[activeID]
             stable == synced[activeID]
             off == activeOffset
  <1>1. /\ file \in SUBSET Item /\ off \in Nat /\ activeID \in Segs
        /\ disk \in [Segs -> SUBSET Item] /\ synced \in [Segs -> SUBSET Item]
    BY FileFacts
  <1>2. Shape(file, stable) /\ Tidy(file, off)
    BY <1>1 DEF Files
  <1>3. /\ Foot(off) \in Item /\ Foot(off).off = off /\ Foot(off).kind # "torn"
        /\ Foot(off).size > 0
    BY <1>1, ItemTypes, Constants DEF Foot
  <1>4. Below(stable, off) \subseteq Below(file, off)
    BY BelowSubset
  <1>5. CASE FinalizeOK
    <2>1. PICK result \in WrittenAt(file, off, Foot(off)) :
              disk' = [disk EXCEPT ![activeID] = result]
      BY <1>5 DEF FinalizeOK
    <2>2. synced' = [synced EXCEPT ![activeID] = disk'[activeID]]
      BY <1>5 DEF FinalizeOK
    <2>3. disk'[activeID] = result /\ synced'[activeID] = result
      BY <1>1, <2>1, <2>2
    <2>4. \A s \in Segs \ {activeID} : disk'[s] = disk[s] /\ synced'[s] = synced[s]
      BY <1>1, <2>1, <2>2
    <2> HIDE DEF file, stable, off
    <2>5. /\ Shape(result, Below(stable, off)) /\ Tidy(result, off)
          /\ Below(file, off) \subseteq result
      BY <1>1, <1>2, <1>3, WrittenShape
    <2>6. Shape(result, result)
      BY <2>5, SyncShape
    <2> QED BY <1>4, <2>3, <2>4, <2>5, <2>6 DEF file, stable, off
  <1>6. CASE FinalizeFails /\ ~FinalizeOK
    <2>1. PICK result \in FailedAt(file, off) \cup WrittenAt(file, off, Foot(off)) :
              disk' = [disk EXCEPT ![activeID] = result]
      BY <1>6 DEF FinalizeFails
    <2>2. synced' = [synced EXCEPT ![activeID] = Below(stable, off)]
      BY <1>6 DEF FinalizeFails, SyncedBeforeWrite
    <2>3. disk'[activeID] = result /\ synced'[activeID] = Below(stable, off)
      BY <1>1, <2>1, <2>2
    <2>4. \A s \in Segs \ {activeID} : disk'[s] = disk[s] /\ synced'[s] = synced[s]
      BY <1>1, <2>1, <2>2
    <2> HIDE DEF file, stable, off
    <2>5. /\ Shape(result, Below(stable, off)) /\ Tidy(result, off)
          /\ Below(file, off) \subseteq result
      BY <1>1, <1>2, <1>3, <2>1, WrittenShape, FailedShape
    <2> QED BY <1>6, <2>3, <2>4, <2>5 DEF file, stable, off
  <1> QED BY <1>5, <1>6

\* A step of the holder of the mutex that writes to the active file or syncs
\* it: what is certain before the write position stays,
WritesActive ==
    /\ UNCHANGED <<proc, files, activeID, handle, buffered>>
    /\ activeOffset' \in Nat /\ activeOffset <= activeOffset'
    /\ \A s \in Segs \ {activeID} : disk'[s] = disk[s] /\ synced'[s] = synced[s]
    /\ Below(disk[activeID], activeOffset) \subseteq disk'[activeID]
    /\ Below(synced[activeID], activeOffset) \subseteq synced'[activeID]
    /\ Shape(disk'[activeID], synced'[activeID]) /\ Tidy(disk'[activeID], activeOffset')

\* f deals with w and with nothing else,
ActsOn(f, w) ==
    /\ UNCHANGED <<batch, status>>
    /\ \A g \in Flushers \ {f} : stage'[g] = stage[g]
    /\ \A v \in Writes \ {w} : loc'[v] = loc[v] /\ outcome'[v] = outcome[v]

\* and w is "ok" only when its record is written, and safe when f goes on.
Settles(f, w) ==
    /\ \/ stage[f] # "append" \/ stage'[f] = "append" \/ ~buffered
       \/ Below(disk[activeID], activeOffset) \subseteq synced'[activeID]
    /\ (stage'[f] # "sync" /\ outcome'[w] = "ok") =>
           Safe(w)' \/ (stage'[f] = "append" /\ Written(w)')
    /\ (stage'[f] = "sync") =>
           /\ UNCHANGED next
           /\ loc'[w] = <<activeID, activeOffset'>>
           /\ Rec(w, activeOffset') \in disk'[activeID]
           /\ Tidy(disk'[activeID], activeOffset' + RecordSize[w])

\* A batch has one current record.
LEMMA OneCurrent ==
    ASSUME NEW f, NEW v, NEW w, Current(f, v), Current(f, w)
    PROVE  v = w
  BY DEF Current

\* Such a step keeps acknowledged records safe.
LEMMA HolderStep ==
    ASSUME TypeOK, QInv, Durable, handle = "open",
           NEW f \in Flushers, NEW w \in Writes, HoldsMutex(f), Current(f, w),
           WritesActive, ActsOn(f, w), Settles(f, w)
    PROVE  Durable'
  <1>1. /\ QueueTypes /\ activeID \in Segs /\ activeID \in files /\ Running
        /\ activeOffset \in Nat
    BY FileFacts DEF TypeOK, Durable, Active
  <1>2. w \in InBatch(f) /\ status[w] # "acked" /\ \A g \in Flushers \ {f} : w \notin InBatch(g)
    BY CurrentInBatch DEF QInv, Queued
  <1>3. \A g \in Flushers : InBatch(g)' = InBatch(g) /\ InBatch(g) \subseteq Writes
    <2>1. batch' = batch
      BY DEF ActsOn
    <2> QED BY <1>1, <2>1, BatchUnchanged, Members
  <1>4. \A g \in Flushers \ {f} : stage[g] \notin {"append", "sync"} /\ stage'[g] = stage[g]
    BY DEF QInv, Mutex, HoldsMutex, ActsOn
  <1>5. Active'
    <2>1. \A s \in Segs \ files : disk'[s] = {}
      BY <1>1 DEF Durable, Active, WritesActive
    <2>2. \A s \in files : s <= activeID
      BY <1>1 DEF Durable, Active
    <2> QED BY <1>1, <2>1, <2>2 DEF Active, Running, WritesActive
  <1>6. Files'
    BY <1>1 DEF Durable, Files, WritesActive
  <1>7. ASSUME NEW v \in Writes, v # w, Safe(v) PROVE Safe(v)'
    BY <1>7, SafeKept DEF WritesActive, ActsOn
  <1>8. AckedSafe'
    <2> SUFFICES ASSUME NEW v \in Writes, status'[v] = "acked" PROVE Safe(v)'
      BY DEF AckedSafe
    <2>1. status[v] = "acked"
      BY DEF ActsOn
    <2>2. Safe(v)
      BY <2>1 DEF Durable, AckedSafe
    <2> QED BY <1>2, <1>7, <2>1, <2>2
  <1>9. BatchSafe'
    <2> SUFFICES ASSUME NEW g \in Flushers, NEW v \in InBatch(g)', stage'[g] # "idle",
                        outcome'[v] = "ok"
                 PROVE  \/ Safe(v)'
                        \/ stage'[g] = "append" /\ Written(v)'
                        \/ stage'[g] = "sync" /\ Current(g, v)'
      BY DEF BatchSafe
    <2>1. v \in InBatch(g) /\ v \in Writes
      BY <1>3
    <2>2. CASE v = w
      <3>1. g = f
        BY <1>2, <2>1, <2>2
      <3>2. stage'[f] = "sync" => Current(f, w)'
        BY DEF Settles, ActsOn, Current
      <3> QED BY <2>2, <3>1, <3>2 DEF Settles
    <2>3. v # w => outcome[v] = "ok" /\ loc'[v] = loc[v]
      BY <2>1 DEF ActsOn
    <2>4. CASE v # w /\ g # f
      <3>1. stage[g] # "idle" /\ stage[g] \notin {"append", "sync"}
        BY <1>4, <2>4
      <3>2. Safe(v)
        BY <2>1, <2>3, <2>4, <3>1 DEF Durable, BatchSafe
      <3> QED BY <1>7, <2>1, <2>4, <3>2
    <2>5. CASE v # w /\ g = f
      <3>1. stage[f] # "idle"
        BY DEF HoldsMutex
      <3>2. ~Current(f, v)
        BY <2>5, OneCurrent
      <3>3. Safe(v) \/ (stage[f] = "append" /\ Written(v))
        BY <2>1, <2>3, <2>5, <3>1, <3>2 DEF Durable, BatchSafe
      <3>4. CASE Safe(v)
        BY <1>7, <2>1, <2>5, <3>4
      <3>5. CASE stage[f] = "append" /\ Written(v) /\ stage'[f] = "append"
        <4>1. Written(v)'
          BY <2>1, <2>3, <2>5, <3>5, WrittenKept DEF WritesActive
        <4> QED BY <2>5, <3>5, <4>1
      <3>6. CASE /\ stage[f] = "append" /\ Written(v)
                 /\ Below(disk[activeID], activeOffset) \subseteq synced'[activeID]
        <4>1. Safe(v)'
          BY <2>1, <2>3, <2>5, <3>6, WrittenSafe DEF WritesActive
        <4> QED BY <4>1
      <3>7. Written(v) => buffered
        BY DEF Written
      <3> QED BY <3>3, <3>4, <3>5, <3>6, <3>7 DEF Settles
    <2> QED BY <2>2, <2>4, <2>5
  <1>10. DirectWritten'
    <2> SUFFICES ASSUME NEW g \in Flushers, NEW v \in Writes, stage'[g] = "sync", Current(g, v)'
                 PROVE  /\ loc'[v] = <<activeID', activeOffset'>>
                        /\ Rec(v, activeOffset') \in disk'[activeID']
                        /\ Tidy(disk'[activeID'], activeOffset' + RecordSize[v])
      BY DEF DirectWritten, Tidy
    <2>1. g = f
      BY <1>4
    <2>2. Current(f, v)
      BY <2>1 DEF Settles, ActsOn, Current
    <2>3. v = w
      BY <2>2, OneCurrent
    <2>4. activeID' = activeID
      BY DEF WritesActive
    <2> QED BY <2>1, <2>3, <2>4 DEF Settles
  <1> QED BY <1>5, <1>6, <1>8, <1>9, <1>10 DEF Durable

\* Finalizing a full segment keeps acknowledged records safe.
LEMMA RotateStep ==
    ASSUME TypeOK, QInv, Durable, NEW f \in Flushers, NEW w \in Writes, Rotate(f, w)
    PROVE  Durable'
  <1>1. /\ stage[f] = "append" /\ HoldsMutex(f) /\ Current(f, w) /\ handle = "open"
        /\ UNCHANGED <<proc, batch, status, files, activeID, activeOffset, handle, buffered>>
    BY DEF Rotate, HoldsMutex, queueVars, activeVars
  <1>2. FinalizeOK \/ FinalizeFails
    BY DEF Rotate
  <1>3. /\ \A s \in Segs \ {activeID} : disk'[s] = disk[s] /\ synced'[s] = synced[s]
        /\ Below(disk[activeID], activeOffset) \subseteq disk'[activeID]
        /\ Below(synced[activeID], activeOffset) \subseteq synced'[activeID]
        /\ FinalizeOK => synced'[activeID] = disk'[activeID]
        /\ Shape(disk'[activeID], synced'[activeID])
        /\ Tidy(disk'[activeID], activeOffset)
    BY <1>1, <1>2, FinalizeShape DEF Durable
  <1>4. activeOffset \in Nat /\ activeOffset <= activeOffset'
    BY <1>1, FileFacts, SMTT(30)
  <1>5. CASE FinalizeFails /\ Fail(f, w)
    <2>1. stage'[f] = "append" /\ \A g \in Flushers \ {f} : stage'[g] = stage[g]
      BY <1>5, FileFacts DEF Fail
    <2>2. outcome'[w] = "err" /\ \A v \in Writes \ {w} : loc'[v] = loc[v] /\ outcome'[v] = outcome[v]
      BY <1>5, FileFacts DEF Fail
    <2>3. WritesActive
      BY <1>1, <1>3, <1>4 DEF WritesActive
    <2>4. ActsOn(f, w) /\ Settles(f, w)
      BY <1>1, <2>1, <2>2 DEF ActsOn, Settles
    <2> QED BY <1>1, <2>3, <2>4, HolderStep
  <1>6. CASE /\ FinalizeOK /\ stage' = [stage EXCEPT ![f] = "open"]
             /\ UNCHANGED <<next, outcome, loc>>
    <2>1. stage'[f] = "open" /\ \A g \in Flushers \ {f} : stage'[g] = stage[g]
      BY <1>6, FileFacts
    <2>2. Below(disk[activeID], activeOffset) \subseteq synced'[activeID]
      BY <1>3, <1>6
    <2>3. outcome'[w] = "ok" => Safe(w)'
      <3> SUFFICES ASSUME outcome[w] = "ok" PROVE Safe(w)'
        BY <1>6
      <3>1. Safe(w) \/ Written(w)
        BY <1>1, CurrentInBatch DEF Durable, BatchSafe
      <3>2. CASE Safe(w)
        BY <1>1, <1>3, <1>4, <1>6, <3>2, SafeKept
      <3>3. CASE Written(w)
        BY <1>1, <1>4, <1>6, <2>2, <3>3, WrittenSafe
      <3> QED BY <3>1, <3>2, <3>3
    <2>4. WritesActive
      BY <1>1, <1>3, <1>4 DEF WritesActive
    <2>5. ActsOn(f, w) /\ Settles(f, w)
      BY <1>1, <1>6, <2>1, <2>2, <2>3 DEF ActsOn, Settles
    <2> QED BY <1>1, <2>4, <2>5, HolderStep
  <1> QED BY <1>5, <1>6 DEF Rotate

\* The WriteAt of appendLocked keeps acknowledged records safe.
LEMMA WriteStep ==
    ASSUME TypeOK, QInv, Durable, NEW f \in Flushers, NEW w \in Writes, WriteRecord(f, w)
    PROVE  Durable'
  <1> DEFINE file == disk[activeID]
             stable == synced[activeID]
             off == activeOffset
             item == Rec(w, activeOffset)
  <1>1. /\ stage[f] = "append" /\ HoldsMutex(f) /\ Current(f, w) /\ handle = "open"
        /\ UNCHANGED <<proc, batch, status, files, activeID, handle, buffered>>
        /\ synced' = [synced EXCEPT ![activeID] = Below(stable, off)]
    BY DEF WriteRecord, HoldsMutex, queueVars, SyncedBeforeWrite
  <1>2. /\ file \in SUBSET Item /\ off \in Nat /\ activeID \in Segs
        /\ disk \in [Segs -> SUBSET Item] /\ synced \in [Segs -> SUBSET Item]
        /\ RecordSize[w] \in Nat /\ RecordSize[w] > 0
    BY FileFacts, Constants
  <1>3. Shape(file, stable) /\ Tidy(file, off)
    BY <1>1, <1>2 DEF Durable, Files
  <1>4. /\ item \in Item /\ item.off = off /\ item.size = RecordSize[w] /\ item.size > 0
        /\ item.kind # "torn"
    BY <1>2, RecFields, SMTT(30)
  <1>5. synced'[activeID] = Below(stable, off) /\ \A s \in Segs \ {activeID} : synced'[s] = synced[s]
    BY <1>1, <1>2
  <1>6. CASE /\ \E result \in FailedAt(file, off) : disk' = [disk EXCEPT ![activeID] = result]
             /\ Fail(f, w) /\ UNCHANGED activeOffset
    <2>1. PICK result \in FailedAt(file, off) : disk' = [disk EXCEPT ![activeID] = result]
      BY <1>6
    <2>2. disk'[activeID] = result /\ \A s \in Segs \ {activeID} : disk'[s] = disk[s]
      BY <1>2, <2>1
    <2>3. /\ Shape(result, Below(stable, off)) /\ Tidy(result, off)
          /\ Below(file, off) \subseteq result
      <3> HIDE DEF file, stable, off
      <3> QED BY <1>2, <1>3, <2>1, FailedShape
    <2>4. stage'[f] = "append" /\ \A g \in Flushers \ {f} : stage'[g] = stage[g]
      BY <1>6, FileFacts DEF Fail
    <2>5. outcome'[w] = "err" /\ \A v \in Writes \ {w} : loc'[v] = loc[v] /\ outcome'[v] = outcome[v]
      BY <1>6, FileFacts DEF Fail
    <2>6. activeOffset' \in Nat /\ activeOffset <= activeOffset' /\ activeOffset' = activeOffset
      BY <1>2, <1>6, SMTT(30)
    <2>7. WritesActive
      BY <1>1, <1>5, <2>2, <2>3, <2>6 DEF WritesActive
    <2>8. ActsOn(f, w) /\ Settles(f, w)
      BY <1>1, <2>4, <2>5 DEF ActsOn, Settles
    <2> QED BY <1>1, <2>7, <2>8, HolderStep
  <1>7. CASE /\ \E result \in WrittenAt(file, off, item) : disk' = [disk EXCEPT ![activeID] = result]
             /\ loc' = [loc EXCEPT ![w] = <<activeID, activeOffset>>]
    <2>1. PICK result \in WrittenAt(file, off, item) : disk' = [disk EXCEPT ![activeID] = result]
      BY <1>7
    <2>2. disk'[activeID] = result /\ \A s \in Segs \ {activeID} : disk'[s] = disk[s]
      BY <1>2, <2>1
    <2>3. /\ Shape(result, Below(stable, off)) /\ Tidy(result, off)
          /\ Tidy(result, off + RecordSize[w])
          /\ Below(file, off) \subseteq result /\ item \in result
      <3> HIDE DEF file, stable, off, item
      <3> QED BY <1>2, <1>3, <1>4, <2>1, WrittenShape
    <2>4. loc'[w] = <<activeID, activeOffset>> /\ \A v \in Writes \ {w} : loc'[v] = loc[v]
      BY <1>7, FileFacts
    <2>5. CASE /\ buffered /\ activeOffset' = activeOffset + RecordSize[w]
               /\ outcome' = [outcome EXCEPT ![w] = "ok"] /\ UNCHANGED stage
      <3>1. \A v \in Writes \ {w} : loc'[v] = loc[v] /\ outcome'[v] = outcome[v]
        BY <2>4, <2>5, FileFacts
      <3>2. activeOffset' \in Nat /\ activeOffset <= activeOffset'
        BY <1>2, <2>5, SMTT(30)
      <3>3. Written(w)'
        <4>1. PICK n \in Nat : n = activeOffset
          BY <1>2
        <4>2. loc'[w][1] = activeID /\ loc'[w][2] = n
          <5>1. loc'[w] = <<activeID, n>>
            BY <2>4, <4>1
          <5> QED BY <5>1, SMTT(30)
        <4>3. activeID' = activeID /\ handle' = "open" /\ buffered'
          BY <1>1, <2>5
        <4>4. Rec(w, n) \in disk'[activeID]
          BY <2>2, <2>3, <4>1
        <4>5. activeOffset' = n + RecordSize[w] /\ RecordSize[w] \in Nat
          BY <1>2, <2>5, <4>1
        <4>6. n + RecordSize[w] <= activeOffset'
          BY <4>5, SMTT(30)
        <4> QED BY <4>2, <4>3, <4>4, <4>6 DEF Written
      <3>4. stage'[f] = "append" /\ \A g \in Flushers \ {f} : stage'[g] = stage[g]
        BY <1>1, <2>5
      <3>5. Tidy(disk'[activeID], activeOffset')
        BY <2>2, <2>3, <2>5
      <3>6. WritesActive
        BY <1>1, <1>5, <2>2, <2>3, <3>2, <3>5 DEF WritesActive
      <3>7. ActsOn(f, w) /\ Settles(f, w)
        BY <1>1, <3>1, <3>3, <3>4 DEF ActsOn, Settles
      <3> QED BY <1>1, <3>6, <3>7, HolderStep
    <2>6. CASE /\ ~buffered /\ stage' = [stage EXCEPT ![f] = "sync"]
               /\ UNCHANGED <<activeOffset, outcome, next>>
      <3>1. \A v \in Writes \ {w} : loc'[v] = loc[v] /\ outcome'[v] = outcome[v]
        BY <2>4, <2>6
      <3>2. activeOffset' \in Nat /\ activeOffset <= activeOffset' /\ activeOffset' = activeOffset
        BY <1>2, <2>6, SMTT(30)
      <3>3. stage'[f] = "sync" /\ \A g \in Flushers \ {f} : stage'[g] = stage[g]
        BY <2>6, FileFacts
      <3>4. /\ loc'[w] = <<activeID, activeOffset'>>
            /\ Rec(w, activeOffset') \in disk'[activeID]
            /\ Tidy(disk'[activeID], activeOffset' + RecordSize[w])
        BY <2>2, <2>3, <2>4, <3>2
      <3>5. Tidy(disk'[activeID], activeOffset')
        BY <2>2, <2>3, <3>2
      <3>6. ~buffered /\ UNCHANGED next
        BY <2>6
      <3>7. WritesActive
        BY <1>1, <1>5, <2>2, <2>3, <3>2, <3>5 DEF WritesActive
      <3>8. ActsOn(f, w) /\ Settles(f, w)
        BY <1>1, <3>1, <3>3, <3>4, <3>6 DEF ActsOn, Settles
      <3> QED BY <1>1, <3>7, <3>8, HolderStep
    <2> QED BY <1>6, <2>5, <2>6 DEF WriteRecord
  <1> QED BY <1>6, <1>7 DEF WriteRecord

\* The fsync of a direct append makes its record safe.
LEMMA DirectSyncStep ==
    ASSUME TypeOK, QInv, Durable, NEW f \in Flushers, NEW w \in Writes, DirectSync(f, w)
    PROVE  Durable'
  <1> DEFINE file == disk[activeID]
             stable == synced[activeID]
  <1>1. /\ stage[f] = "sync" /\ HoldsMutex(f) /\ Current(f, w) /\ disk' = disk
        /\ UNCHANGED <<proc, batch, status, files, activeID, handle, buffered>>
    BY DEF DirectSync, HoldsMutex, queueVars
  <1>2. handle = "open"
    BY <1>1 DEF QInv, Holding
  <1>3. /\ file \in SUBSET Item /\ activeOffset \in Nat /\ activeID \in Segs
        /\ disk \in [Segs -> SUBSET Item] /\ synced \in [Segs -> SUBSET Item]
        /\ RecordSize[w] \in Nat /\ RecordSize[w] > 0
    BY FileFacts, Constants
  <1>4. Shape(file, stable) /\ Tidy(file, activeOffset)
    BY <1>2, <1>3 DEF Durable, Files
  <1>5. /\ Below(file, activeOffset) \subseteq file
        /\ Below(stable, activeOffset) \subseteq stable /\ stable \subseteq file
    BY <1>4 DEF Below, Shape
  <1>6. CASE Fail(f, w) /\ UNCHANGED <<synced, activeOffset>>
    <2>1. stage'[f] = "append" /\ \A g \in Flushers \ {f} : stage'[g] = stage[g]
      BY <1>6, FileFacts DEF Fail
    <2>2. outcome'[w] = "err" /\ \A v \in Writes \ {w} : loc'[v] = loc[v] /\ outcome'[v] = outcome[v]
      BY <1>6, FileFacts DEF Fail
    <2>3. activeOffset' \in Nat /\ activeOffset <= activeOffset' /\ activeOffset' = activeOffset
      BY <1>3, <1>6, SMTT(30)
    <2>4. WritesActive
      BY <1>1, <1>4, <1>5, <1>6, <2>3 DEF WritesActive
    <2>5. ActsOn(f, w) /\ Settles(f, w)
      BY <1>1, <2>1, <2>2 DEF ActsOn, Settles
    <2> QED BY <1>1, <1>2, <2>4, <2>5, HolderStep
  <1>7. CASE /\ synced' = [synced EXCEPT ![activeID] = disk[activeID]]
             /\ activeOffset' = activeOffset + RecordSize[w]
             /\ outcome' = [outcome EXCEPT ![w] = "ok"]
             /\ stage' = [stage EXCEPT ![f] = "append"]
             /\ UNCHANGED loc
    <2>1. stage'[f] = "append" /\ \A g \in Flushers \ {f} : stage'[g] = stage[g]
      BY <1>7, FileFacts
    <2>2. \A v \in Writes \ {w} : loc'[v] = loc[v] /\ outcome'[v] = outcome[v]
      BY <1>7, FileFacts
    <2>3. activeOffset' \in Nat /\ activeOffset <= activeOffset'
      BY <1>3, <1>7, SMTT(30)
    <2>4. synced'[activeID] = file /\ \A s \in Segs \ {activeID} : synced'[s] = synced[s]
      BY <1>3, <1>7
    <2>5. /\ loc[w] = <<activeID, activeOffset>> /\ Rec(w, activeOffset) \in file
          /\ Tidy(file, activeOffset + RecordSize[w])
      BY <1>1 DEF Durable, DirectWritten
    <2>6. Rec(w, activeOffset).off = activeOffset /\ Rec(w, activeOffset).size = RecordSize[w]
          /\ Rec(w, activeOffset).kind = "rec"
      BY <1>3, RecFields, SMTT(30)
    <2>7. Safe(w)'
      <3>1. PICK n \in Nat : n = activeOffset
        BY <1>3
      <3>2. loc'[w][1] = activeID /\ loc'[w][2] = n
        <4>1. loc' = loc
          BY <1>7
        <4>2. loc'[w] = <<activeID, n>>
          BY <2>5, <3>1, <4>1
        <4> QED BY <4>2, SMTT(30)
      <3>3. Rec(w, n) \in synced'[loc'[w][1]]
        BY <2>4, <2>5, <3>1, <3>2
      <3>4. Rec(w, n).off + Rec(w, n).size <= activeOffset'
        BY <1>3, <1>7, <2>6, <3>1, SMTT(30)
      <3>5. Settled(loc[w][1], Rec(w, n))'
        BY <3>4 DEF Settled
      <3> QED BY <3>2, <3>3, <3>5 DEF Safe
    <2>8. Tidy(file, activeOffset')
      BY <1>7, <2>5
    <2>9. Shape(file, file)
      BY <1>4, SyncShape
    <2>10. WritesActive
      BY <1>1, <1>5, <2>3, <2>4, <2>8, <2>9 DEF WritesActive
    <2>11. ActsOn(f, w) /\ Settles(f, w)
      BY <1>1, <2>1, <2>2, <2>7 DEF ActsOn, Settles
    <2> QED BY <1>1, <1>2, <2>10, <2>11, HolderStep
  <1> QED BY <1>6, <1>7 DEF DirectSync
=============================================================================
