--------------------------- MODULE RecoveryProofs ---------------------------
(***************************************************************************)
(* Proofs about the files that recovery.Rebuild reads: what their readers   *)
(* find, for every number of appends and of faults and every set of lines   *)
(* that are too long.                                                      *)
(***************************************************************************)
EXTENDS Recovery, TLAPS

\* A leaf that names no prover is left to Zenon; the others, most of them about
\* numbers, sequences or EXCEPT, name the SMT solver.
USE ZenonT(30)

-----------------------------------------------------------------------------
(* The inductive invariant.                                                *)

\* A sequence of cells of the entries up to n.
Proper(cells, n) ==
    /\ cells \in Seq({cells[i] : i \in DOMAIN cells})
    /\ \A i \in DOMAIN cells : cells[i].entry \in 0 .. n

IndexTypes ==
    /\ idxPc \in {"idle", "truncate", "rewrite", "entry", "footer"}
    /\ idxCalls \in 0 .. MaxAppends /\ idxFaults \in 0 .. MaxFaults
    /\ atEnd \in BOOLEAN /\ interrupted \in BOOLEAN
    /\ appended \in Seq(1 .. idxCalls) /\ (idxPc # "idle" => idxCalls > 0)
    /\ Proper(idxFile, idxCalls) /\ Proper(kept, idxCalls)
    /\ idxPc = "footer" => Len(idxFile) >= 2

\* The cells are those of the entries es, and there is no footer.
Open(cells, es) ==
    /\ Len(cells) = 2 * Len(es)
    /\ \A i \in 1 .. Len(es) :
           /\ cells[2 * i - 1] = [entry |-> es[i], half |-> 1]
           /\ cells[2 * i] = [entry |-> es[i], half |-> 2]

\* The same with a footer that fits, or an empty file.
Closed(cells, es) ==
    \/ cells = << >> /\ es = << >>
    \/ /\ Index!HasFooter(cells) /\ cells[Len(cells)].of = Index!Entries(cells)
       /\ Open(Index!Entries(cells), es)

\* What is in the file at each step of an Append.
IndexInv ==
    ~interrupted =>
        /\ idxPc \in {"idle", "truncate"} => Closed(idxFile, appended)
        /\ idxPc = "truncate" => Open(kept, appended)
        /\ idxPc = "rewrite" => idxFile = << >> /\ Open(kept, appended)
        /\ idxPc = "entry" => Open(idxFile, appended) /\ (~atEnd => idxFile = << >>)
        /\ idxPc = "footer" => /\ Open(idxFile, Append(appended, idxCalls))
                               /\ ~atEnd => appended = << >>

Token(n) == {Log!Newline} \cup {Log!Text(k) : k \in 1 .. n} \cup {Log!Prefix(k) : k \in 1 .. n}

LogTypes ==
    /\ logPc \in {"idle", "line", "newline"}
    /\ logCalls \in 0 .. MaxAppends /\ logFaults \in 0 .. MaxFaults
    /\ acked \subseteq 1 .. logCalls /\ resumed \in BOOLEAN
    /\ logFile \in Seq(Token(logCalls)) /\ (logPc # "idle" => logCalls > 0)

\* A line is a single token, and the text of an entry unless it is the last.
Alone(i) ==
    IF logFile[i] = Log!Newline
    THEN i > 1 /\ logFile[i - 1].kind = "text"
    ELSE /\ i = 1 \/ logFile[i - 1] = Log!Newline
         /\ i < Len(logFile) => logFile[i].kind = "text" /\ logFile[i + 1] = Log!Newline

LogInv ==
    ~resumed =>
        /\ \A i \in DOMAIN logFile : Alone(i)
        /\ logPc = "line" => Log!Ended
        /\ logPc = "newline" => logFile # << >> /\ logFile[Len(logFile)] = Log!Text(logCalls)
        /\ \A n \in acked : \E i \in DOMAIN logFile : logFile[i] = Log!Text(n)

\* A package is journaled behind the index entry of its content.
Behind ==
    /\ live \subseteq Range(appended)
    /\ of \in Seq(Range(appended)) /\ Len(of) = logCalls

IInv == IndexTypes /\ IndexInv /\ LogTypes /\ LogInv /\ Behind

-----------------------------------------------------------------------------
(* Sequences of cells.                                                     *)

\* The cells may be taken from any set of such cells.
LEMMA ProperIn ==
    ASSUME NEW cells, NEW n \in Nat
    PROVE  Proper(cells, n) <=> \E S : cells \in Seq(S) /\ \A c \in S : c.entry \in 0 .. n
  <1>1. ASSUME NEW S, cells \in Seq(S), \A c \in S : c.entry \in 0 .. n
        PROVE  Proper(cells, n)
    <2>1. Len(cells) \in Nat /\ DOMAIN cells = 1 .. Len(cells)
          /\ \A i \in DOMAIN cells : cells[i] \in S
      BY <1>1, SMTT(30)
    <2>2. cells \in Seq({cells[i] : i \in DOMAIN cells})
      BY <1>1, <2>1, SMTT(30)
    <2> QED BY <1>1, <2>1, <2>2 DEF Proper
  <1>2. ASSUME Proper(cells, n)
        PROVE  \E S : cells \in Seq(S) /\ \A c \in S : c.entry \in 0 .. n
    <2> DEFINE R == {cells[i] : i \in DOMAIN cells}
    <2>1. cells \in Seq(R) /\ \A c \in R : c.entry \in 0 .. n
      BY <1>2 DEF Proper
    <2> QED BY <2>1
  <1> QED BY <1>1, <1>2

\* Two sequences of cells have their cells from one set.
LEMMA ProperBoth ==
    ASSUME NEW a, NEW b, NEW n \in Nat, Proper(a, n), Proper(b, n)
    PROVE  \E S : a \in Seq(S) /\ b \in Seq(S) /\ \A c \in S : c.entry \in 0 .. n
  <1>1. PICK A : a \in Seq(A) /\ \A c \in A : c.entry \in 0 .. n
    BY ProperIn
  <1>2. PICK B : b \in Seq(B) /\ \A c \in B : c.entry \in 0 .. n
    BY ProperIn
  <1> DEFINE S == A \cup B
  <1>3. \A c \in S : c.entry \in 0 .. n
    BY <1>1, <1>2
  <1>4. a \in Seq(S)
    BY <1>1, SMTT(30)
  <1>5. b \in Seq(S)
    BY <1>2, SMTT(30)
  <1> QED BY <1>3, <1>4, <1>5

\* What is put together of cells.
LEMMA ProperConcat ==
    ASSUME NEW a, NEW b, NEW n \in Nat, Proper(a, n), Proper(b, n)
    PROVE  Proper(a \o b, n)
  <1>1. PICK S : a \in Seq(S) /\ b \in Seq(S) /\ \A c \in S : c.entry \in 0 .. n
    BY ProperBoth
  <1>2. a \o b \in Seq(S)
    BY <1>1, SMTT(30)
  <1> QED BY <1>1, <1>2, ProperIn

\* A part of them.
LEMMA ProperSub ==
    ASSUME NEW a, NEW n \in Nat, Proper(a, n), NEW i \in Nat \ {0}, NEW j \in 0 .. Len(a)
    PROVE  Proper(SubSeq(a, i, j), n)
  <1>1. PICK S : a \in Seq(S) /\ \A c \in S : c.entry \in 0 .. n
    BY ProperIn
  <1>2. Len(a) \in Nat /\ DOMAIN a = 1 .. Len(a) /\ \A k \in 1 .. Len(a) : a[k] \in S
    BY <1>1, SMTT(30)
  <1>3. j \in Nat /\ j <= Len(a)
    BY <1>2, SMTT(30)
  <1>4. SubSeq(a, i, j) \in Seq(S)
    BY <1>1, <1>3, SMTT(30)
  <1> QED BY <1>1, <1>4, ProperIn

\* A later call may see them too.
LEMMA ProperLater ==
    ASSUME NEW a, NEW n \in Nat, Proper(a, n)
    PROVE  Proper(a, n + 1)
  <1>1. PICK S : a \in Seq(S) /\ \A c \in S : c.entry \in 0 .. n
    BY ProperIn
  <1>2. \A c \in S : c.entry \in 0 .. n + 1
    BY <1>1, SMTT(30)
  <1> QED BY <1>1, <1>2, ProperIn, SMTT(30)

\* What Append writes.
LEMMA ProperParts ==
    ASSUME NEW n \in Nat, NEW k \in 0 .. n, NEW cells
    PROVE  /\ Proper(<< >>, n) /\ Proper(Index!Entry(k), n) /\ Proper(<<Index!Entry(k)[1]>>, n)
           /\ Proper(<<Index!Footer(cells)>>, n) /\ Proper(<<Index!Torn>>, n)
           /\ Len(Index!Entry(k)) = 2
  <1>1. Proper(<< >>, n)
    BY SMTT(30) DEF Proper
  <1>2. ASSUME NEW c, c.entry \in 0 .. n
        PROVE  Proper(<<c>>, n)
    <2>1. <<c>> \in Seq({c})
      BY SMTT(30)
    <2> QED BY <1>2, <2>1, ProperIn
  <1>3. ASSUME NEW c, NEW d, c.entry \in 0 .. n, d.entry \in 0 .. n
        PROVE  Proper(<<c, d>>, n)
    <2>1. <<c, d>> \in Seq({c, d})
      BY SMTT(30)
    <2> QED BY <1>3, <2>1, ProperIn
  <1>4. Index!Entry(k)[1].entry \in 0 .. n /\ Index!Footer(cells).entry \in 0 .. n
        /\ Index!Torn.entry \in 0 .. n
    BY SMTT(30) DEF Index!Entry, Index!Footer, Index!Torn
  <1>5. Proper(Index!Entry(k), n)
    BY <1>3 DEF Index!Entry
  <1>6. Len(Index!Entry(k)) = 2
    BY DEF Index!Entry
  <1> QED BY <1>1, <1>2, <1>4, <1>5, <1>6

-----------------------------------------------------------------------------
(* The index file: types.                                                  *)

\* The numbers of the index file.
LEMMA Sizes ==
    ASSUME IndexTypes
    PROVE  /\ MaxAppends \in Nat /\ MaxFaults \in Nat /\ idxCalls \in Nat /\ idxFaults \in Nat
           /\ idxCalls \in 0 .. idxCalls /\ Len(idxFile) \in Nat /\ Len(appended) \in Nat
           /\ Len(kept) \in Nat
  BY RecoveryAssumption, SMTT(30) DEF IndexTypes, Proper

\* A write keeps the file a sequence of cells.
LEMMA WrittenProper ==
    ASSUME NEW n \in Nat, Proper(idxFile, n), NEW cells, Proper(cells, n),
           NEW p \in 0 .. Len(idxFile)
    PROVE  Proper(Index!Written(cells, p), n)
  <1>1. Len(idxFile) \in Nat /\ Len(cells) \in Nat
    BY SMTT(30) DEF Proper
  <1>2. Proper(SubSeq(idxFile, 1, p), n)
    BY ProperSub, SMTT(30)
  <1>3. Proper(SubSeq(idxFile, p + Len(cells) + 1, Len(idxFile)), n)
    <2>1. p + Len(cells) + 1 \in Nat \ {0} /\ Len(idxFile) \in 0 .. Len(idxFile)
      BY <1>1, SMTT(30)
    <2> QED BY <2>1, ProperSub
  <1>4. Proper(SubSeq(idxFile, 1, p) \o cells, n)
    BY <1>2, ProperConcat
  <1>5. Proper(SubSeq(idxFile, 1, p) \o cells \o SubSeq(idxFile, p + Len(cells) + 1, Len(idxFile)), n)
    BY <1>3, <1>4, ProperConcat
  <1>6. Proper(idxFile \o cells, n)
    BY ProperConcat
  <1> QED BY <1>5, <1>6 DEF Index!Written

\* So does the removal of the footer.
LEMMA EntriesProper ==
    ASSUME NEW n \in Nat, NEW cells, Proper(cells, n)
    PROVE  Proper(Index!Entries(cells), n)
  <1>1. CASE Index!HasFooter(cells)
    <2>1. Len(cells) \in Nat /\ Len(cells) # 0
      BY <1>1, SMTT(30) DEF Proper, Index!HasFooter
    <2>2. Proper(SubSeq(cells, 1, Len(cells) - 1), n)
      BY <2>1, ProperSub, SMTT(30)
    <2> QED BY <1>1, <2>2 DEF Index!Entries
  <1>2. CASE ~Index!HasFooter(cells)
    BY <1>2 DEF Index!Entries
  <1> QED BY <1>1, <1>2

\* The length of a concatenation.
LEMMA ConcatLength ==
    ASSUME NEW S, NEW x \in Seq(S), NEW y \in Seq(S)
    PROVE  /\ x \o y \in Seq(S) /\ Len(x \o y) = Len(x) + Len(y)
           /\ Len(x) \in Nat /\ Len(y) \in Nat
  BY SMTT(30)

\* An entry that is written leaves two cells at least.
LEMMA WrittenEntry ==
    ASSUME IndexTypes
    PROVE  /\ Proper(Index!Written(Index!Entry(idxCalls), 0), idxCalls)
           /\ Len(Index!Written(Index!Entry(idxCalls), 0)) >= 2
  <1>1. Proper(Index!Entry(idxCalls), idxCalls) /\ Len(Index!Entry(idxCalls)) = 2
    BY Sizes, ProperParts
  <1>2. 0 \in 0 .. Len(idxFile) /\ Proper(idxFile, idxCalls)
    BY Sizes, SMTT(30) DEF IndexTypes
  <1>3. PICK S : Index!Entry(idxCalls) \in Seq(S) /\ idxFile \in Seq(S)
    BY <1>1, <1>2, Sizes, ProperBoth
  <1>4. Len(idxFile \o Index!Entry(idxCalls)) >= 2
    <2>1. /\ Len(idxFile \o Index!Entry(idxCalls)) = Len(idxFile) + Len(Index!Entry(idxCalls))
          /\ Len(idxFile) \in Nat
      BY <1>3, ConcatLength
    <2> QED BY <1>1, <2>1, SMTT(30)
  <1>5. Len(SubSeq(idxFile, 1, 0) \o Index!Entry(idxCalls)
            \o SubSeq(idxFile, 0 + Len(Index!Entry(idxCalls)) + 1, Len(idxFile))) >= 2
    <2>1. /\ SubSeq(idxFile, 1, 0) \in Seq(S)
          /\ SubSeq(idxFile, 0 + Len(Index!Entry(idxCalls)) + 1, Len(idxFile)) \in Seq(S)
      BY <1>1, <1>3, SMTT(30)
    <2>2. ASSUME NEW x \in Seq(S), NEW y \in Seq(S), NEW z \in Seq(S), Len(y) = 2
          PROVE  Len(x \o y \o z) >= 2
      <3>1. x \o y \in Seq(S) /\ Len(x \o y) = Len(x) + Len(y) /\ Len(x) \in Nat
        BY ConcatLength
      <3>2. Len((x \o y) \o z) = Len(x \o y) + Len(z) /\ Len(z) \in Nat
        BY <3>1, ConcatLength
      <3> QED BY <2>2, <3>1, <3>2, SMTT(30)
    <2> QED BY <1>1, <1>3, <2>1, <2>2
  <1> QED BY <1>1, <1>2, <1>4, <1>5, Sizes, WrittenProper DEF Index!Written

\* So does a write that is cut short.
LEMMA PartialProper ==
    ASSUME IndexTypes, NEW file \in Index!Partial
    PROVE  Proper(file, idxCalls)
  <1>1. Proper(idxFile, idxCalls) /\ Proper(kept, idxCalls) /\ 0 \in 0 .. Len(idxFile)
    BY Sizes, SMTT(30) DEF IndexTypes
  <1>2. CASE idxPc = "rewrite"
    <2>1. PICK n \in 0 .. Len(kept) : file = SubSeq(kept, 1, n)
      BY <1>2 DEF Index!Partial
    <2> QED BY <1>1, <2>1, Sizes, ProperSub, SMTT(30)
  <1>3. CASE idxPc = "entry"
    <2>1. \/ file = idxFile \/ file = Index!Written(<<Index!Entry(idxCalls)[1]>>, 0)
          \/ file = Index!Written(Index!Entry(idxCalls), 0)
      BY <1>3 DEF Index!Partial
    <2>2. Proper(Index!Written(<<Index!Entry(idxCalls)[1]>>, 0), idxCalls)
      BY <1>1, Sizes, ProperParts, WrittenProper
    <2> QED BY <1>1, <2>1, <2>2, WrittenEntry
  <1>4. CASE idxPc = "footer"
    <2>1. \/ file = idxFile \/ file = Index!Written(<<Index!Torn>>, Len(Index!Entry(idxCalls)))
          \/ file = Index!Written(<<Index!Footer(Index!Entries(idxFile))>>, Len(Index!Entry(idxCalls)))
      BY <1>4 DEF Index!Partial
    <2>2. Len(Index!Entry(idxCalls)) \in 0 .. Len(idxFile)
      <3>1. Len(Index!Entry(idxCalls)) = 2
        BY Sizes, ProperParts
      <3>2. Len(idxFile) >= 2 /\ Len(idxFile) \in Nat
        BY <1>4, Sizes DEF IndexTypes
      <3> QED BY <3>1, <3>2, SMTT(30)
    <2>3. /\ Proper(<<Index!Torn>>, idxCalls)
          /\ Proper(<<Index!Footer(Index!Entries(idxFile))>>, idxCalls)
      BY Sizes, ProperParts
    <2> QED BY <1>1, <2>1, <2>2, <2>3, Sizes, WrittenProper
  <1>5. CASE idxPc \in {"idle", "truncate"}
    BY <1>1, <1>5 DEF Index!Partial
  <1> QED BY <1>2, <1>3, <1>4, <1>5 DEF IndexTypes

\* The steps of SegmentIndex.Append keep the types.
LEMMA IndexTypesStep ==
    ASSUME IndexTypes, Index!Next
    PROVE  IndexTypes'
  <1>1. CASE Index!OpenAppend
    <2>1. idxCalls' = idxCalls + 1 /\ idxCalls' \in 0 .. MaxAppends
      BY <1>1, Sizes, SMTT(30) DEF Index!OpenAppend
    <2>2. Proper(idxFile, idxCalls') /\ Proper(kept, idxCalls')
          /\ Proper(Index!Entries(idxFile), idxCalls')
      BY <2>1, Sizes, ProperLater, EntriesProper DEF IndexTypes
    <2>3. Proper(idxFile', idxCalls') /\ Proper(kept', idxCalls')
      BY <1>1, <2>2 DEF Index!OpenAppend
    <2>4. appended' \in Seq(1 .. idxCalls') /\ idxCalls' > 0
      BY <1>1, <2>1, Sizes, SMTT(30) DEF Index!OpenAppend, IndexTypes
    <2> QED BY <1>1, <2>1, <2>3, <2>4 DEF Index!OpenAppend, IndexTypes
  <1>2. CASE Index!Truncate
    <2>1. Proper(<< >>, idxCalls)
      BY Sizes, ProperParts
    <2> QED BY <1>2, <2>1 DEF Index!Truncate, IndexTypes
  <1>3. CASE Index!Rewrite
    <2>1. Proper(<< >>, idxCalls)
      BY Sizes, ProperParts
    <2> QED BY <1>3, <2>1 DEF Index!Rewrite, IndexTypes
  <1>4. CASE Index!WriteEntry
    BY <1>4, WrittenEntry DEF Index!WriteEntry, IndexTypes
  <1>5. CASE Index!WriteFooter
    <2>1. idxPc = "footer" /\ idxCalls' = idxCalls
          /\ idxFile' = Index!Written(<<Index!Footer(Index!Entries(idxFile))>>, Len(Index!Entry(idxCalls)))
      BY <1>5 DEF Index!WriteFooter
    <2>2. idxFile' \in Index!Partial
      BY <2>1 DEF Index!Partial
    <2>3. Proper(idxFile', idxCalls)
      BY <2>2, PartialProper
    <2>4. appended' \in Seq(1 .. idxCalls)
      BY <1>5, <2>1, Sizes, SMTT(30) DEF Index!WriteFooter, IndexTypes
    <2> QED BY <1>5, <2>1, <2>3, <2>4 DEF Index!WriteFooter, IndexTypes
  <1>6. CASE Index!Interrupt
    <2>1. Proper(idxFile', idxCalls) /\ Proper(<< >>, idxCalls)
      BY <1>6, PartialProper, Sizes, ProperParts DEF Index!Interrupt
    <2>2. idxFaults' \in 0 .. MaxFaults
      BY <1>6, Sizes, SMTT(30) DEF Index!Interrupt
    <2> QED BY <1>6, <2>1, <2>2 DEF Index!Interrupt, IndexTypes
  <1> QED BY <1>1, <1>2, <1>3, <1>4, <1>5, <1>6 DEF Index!Next

-----------------------------------------------------------------------------
(* The index file: contents.                                               *)

\* The last cell of an entry is not a footer.
LEMMA OpenEntries ==
    ASSUME NEW n \in Nat, NEW cells, Proper(cells, n), NEW es \in Seq(Nat), Open(cells, es)
    PROVE  ~Index!HasFooter(cells) /\ Index!Entries(cells) = cells
  <1>1. CASE es = << >>
    <2>1. Len(cells) = 0
      BY <1>1, SMTT(30) DEF Open
    <2>2. cells = << >>
      BY <2>1, SMTT(30) DEF Proper
    <2> QED BY <2>2 DEF Index!HasFooter, Index!Entries
  <1>2. CASE es # << >>
    <2>1. Len(es) \in 1 .. Len(es) /\ Len(cells) = 2 * Len(es)
      BY <1>2, SMTT(30) DEF Open
    <2>2. cells[Len(cells)] = [entry |-> es[Len(es)], half |-> 2]
      BY <2>1 DEF Open
    <2>3. cells[Len(cells)].half = 2
      BY <2>2, SMTT(30)
    <2> QED BY <2>3, SMTT(30) DEF Index!HasFooter, Index!Entries, Index!IsFooter
  <1> QED BY <1>1, <1>2

\* One more entry.
LEMMA OpenGrows ==
    ASSUME NEW n \in Nat, NEW cells, Proper(cells, n), NEW es \in Seq(Nat), Open(cells, es),
           NEW k \in 0 .. n
    PROVE  Open(cells \o Index!Entry(k), Append(es, k))
  <1> DEFINE e == Index!Entry(k)
  <1>1. Proper(e, n) /\ Len(e) = 2
    BY ProperParts
  <1>2. PICK S : cells \in Seq(S) /\ e \in Seq(S)
    BY <1>1, ProperBoth
  <1>3. e[1] = [entry |-> k, half |-> 1] /\ e[2] = [entry |-> k, half |-> 2]
    BY DEF Index!Entry
  <1> HIDE DEF e
  <1>4. /\ Len(cells) \in Nat /\ Len(es) \in Nat /\ Len(cells) = 2 * Len(es)
        /\ Len(cells \o e) = Len(cells) + 2
        /\ \A i \in 1 .. Len(cells) : (cells \o e)[i] = cells[i]
        /\ (cells \o e)[Len(cells) + 1] = e[1] /\ (cells \o e)[Len(cells) + 2] = e[2]
    <2>1. Len(cells) \in Nat /\ Len(es) \in Nat /\ Len(cells) = 2 * Len(es)
      BY <1>2, SMTT(30) DEF Open
    <2>2. Len(cells \o e) = Len(cells) + Len(e)
      BY <1>2, SMTT(30)
    <2>3. \A i \in 1 .. Len(cells) : (cells \o e)[i] = cells[i]
      BY <1>2, SMTT(30)
    <2>4. \A i \in 1 .. Len(e) : (cells \o e)[Len(cells) + i] = e[i]
      BY <1>2, SMTT(30)
    <2> QED BY <1>1, <2>1, <2>2, <2>3, <2>4, SMTT(30)
  <1>5. /\ Len(Append(es, k)) = Len(es) + 1 /\ Append(es, k)[Len(es) + 1] = k
        /\ \A i \in 1 .. Len(es) : Append(es, k)[i] = es[i]
    BY SMTT(30)
  <1>6. ASSUME NEW i \in 1 .. Len(es) + 1
        PROVE  /\ (cells \o e)[2 * i - 1] = [entry |-> Append(es, k)[i], half |-> 1]
               /\ (cells \o e)[2 * i] = [entry |-> Append(es, k)[i], half |-> 2]
    <2>1. CASE i = Len(es) + 1
      <3>1. 2 * i - 1 = Len(cells) + 1 /\ 2 * i = Len(cells) + 2
        BY <1>4, <2>1, SMTT(30)
      <3> QED BY <1>3, <1>4, <1>5, <2>1, <3>1
    <2>2. CASE i # Len(es) + 1
      <3>1. i \in 1 .. Len(es) /\ 2 * i - 1 \in 1 .. Len(cells) /\ 2 * i \in 1 .. Len(cells)
        <4>1. i \in Nat /\ i >= 1 /\ i <= Len(es)
          BY <1>4, <2>2, SMTT(30)
        <4>2. 2 * i - 1 >= 1 /\ 2 * i <= 2 * Len(es)
          BY <1>4, <4>1, SMTT(30)
        <4> QED BY <1>4, <4>1, <4>2, SMTT(30)
      <3>2. /\ cells[2 * i - 1] = [entry |-> es[i], half |-> 1]
            /\ cells[2 * i] = [entry |-> es[i], half |-> 2]
        BY <3>1 DEF Open
      <3> QED BY <1>4, <1>5, <3>1, <3>2
    <2> QED BY <2>1, <2>2
  <1>7. Len(cells \o e) = 2 * Len(Append(es, k))
    BY <1>4, <1>5, SMTT(30)
  <1>8. Open(cells \o e, Append(es, k))
    BY <1>5, <1>6, <1>7 DEF Open
  <1> QED BY <1>8 DEF e

\* The footer closes the file.
LEMMA FooterCloses ==
    ASSUME NEW n \in Nat, NEW cells, Proper(cells, n), NEW es \in Seq(Nat), Open(cells, es)
    PROVE  Closed(cells \o <<Index!Footer(cells)>>, es)
  <1> DEFINE f == Index!Footer(cells)
             file == cells \o <<f>>
  <1>1. PICK S : cells \in Seq(S) /\ <<f>> \in Seq(S)
    <2>1. 0 \in 0 .. n
      BY SMTT(30)
    <2>2. Proper(<<f>>, n)
      BY <2>1, ProperParts
    <2> QED BY <2>2, ProperBoth
  <1>2. f.half = 0 /\ f.of = cells
    BY DEF Index!Footer
  <1> HIDE DEF f
  <1>3. /\ Len(file) = Len(cells) + 1 /\ Len(cells) \in Nat /\ file[Len(file)] = f
        /\ file # << >> /\ SubSeq(file, 1, Len(file) - 1) = cells
    BY <1>1, SMTT(30)
  <1> HIDE DEF file
  <1>4. Index!HasFooter(file)
    BY <1>2, <1>3 DEF Index!HasFooter, Index!IsFooter
  <1>5. Index!Entries(file) = cells
    BY <1>3, <1>4 DEF Index!Entries
  <1>6. Closed(file, es)
    BY <1>2, <1>3, <1>4, <1>5 DEF Closed
  <1> QED BY <1>6 DEF file, f

\* ReadIndexFile gives the entries of a file, with its footer or without.
LEMMA Reads ==
    ASSUME NEW n \in Nat, NEW cells, Proper(cells, n), NEW es \in Seq(Nat),
           Open(cells, es) \/ Closed(cells, es)
    PROVE  ~Index!Refused(cells) /\ Index!ReadIndexFile(cells) = es
  <1> DEFINE e == Index!Entries(cells)
  <1>1. Open(e, es)
    <2>1. CASE Open(cells, es)
      BY <2>1, OpenEntries
    <2>2. CASE cells = << >> /\ es = << >>
      BY <2>2, SMTT(30) DEF Open, Index!Entries, Index!HasFooter
    <2> QED BY <2>1, <2>2 DEF Closed
  <1>2. Index!HasFooter(cells) => cells[Len(cells)].of = e
    BY OpenEntries DEF Closed, Index!HasFooter
  <1> HIDE DEF e
  <1>3. Len(e) = 2 * Len(es) /\ Len(es) \in Nat
    BY <1>1, SMTT(30) DEF Open
  <1>4. ~Index!Refused(cells)
    BY <1>2, <1>3, SMTT(30) DEF Index!Refused, e
  <1>5. Len(e) \div 2 = Len(es)
    BY <1>3, SMTT(30)
  <1>6. ASSUME NEW i \in 1 .. Len(es)
        PROVE  Index!Decode(e[2 * i - 1], e[2 * i]) = es[i]
    <2>1. /\ e[2 * i - 1] = [entry |-> es[i], half |-> 1]
          /\ e[2 * i] = [entry |-> es[i], half |-> 2]
      BY <1>1 DEF Open
    <2> QED BY <2>1, SMTT(30) DEF Index!Decode
  <1>7. Index!ReadIndexFile(cells) = [i \in 1 .. Len(es) |-> Index!Decode(e[2 * i - 1], e[2 * i])]
    BY <1>5 DEF Index!ReadIndexFile, e
  <1>8. Index!ReadIndexFile(cells) = [i \in 1 .. Len(es) |-> es[i]]
    BY <1>6, <1>7
  <1>9. es = [i \in 1 .. Len(es) |-> es[i]]
    BY SMTT(30)
  <1> QED BY <1>4, <1>8, <1>9

\* The two ways to write at the end of the file.
LEMMA WrittenAtEnd ==
    ASSUME IndexTypes, NEW cells, Proper(cells, idxCalls), Len(cells) >= 1,
           ~atEnd => Len(idxFile) \in {0, 2}
    PROVE  Index!Written(cells, Len(idxFile)) = idxFile \o cells
  <1>1. CASE atEnd
    BY <1>1 DEF Index!Written
  <1>2. CASE ~atEnd
    <2> PICK p : p = Len(idxFile)
      OBVIOUS
    <2>1. PICK S : idxFile \in Seq(S) /\ cells \in Seq(S)
      BY Sizes, ProperBoth DEF IndexTypes
    <2>2. SubSeq(idxFile, 1, p) = idxFile
      BY <2>1, SMTT(30)
    <2>3. p \in Nat /\ Len(cells) \in Nat
      BY <2>1, SMTT(30)
    <2>4. SubSeq(idxFile, p + Len(cells) + 1, Len(idxFile)) = << >>
      BY <2>1, <2>3, SMTT(30)
    <2>5. idxFile \o cells \in Seq(S)
      BY <2>1, SMTT(30)
    <2>6. (idxFile \o cells) \o << >> = idxFile \o cells
      BY <2>5, SMTT(30)
    <2> QED BY <1>2, <2>2, <2>4, <2>6 DEF Index!Written
  <1> QED BY <1>1, <1>2

\* The steps of Append keep what the file holds.
LEMMA IndexInvStep ==
    ASSUME IndexTypes, IndexInv, Index!Next
    PROVE  IndexInv'
  <1> SUFFICES ASSUME ~interrupted'
               PROVE  IndexInv'
    BY DEF IndexInv
  <1>0. ~interrupted
    BY DEF Index!Next, Index!OpenAppend, Index!Truncate, Index!Rewrite, Index!WriteEntry,
           Index!WriteFooter, Index!Interrupt, IndexTypes
  <1>1. appended \in Seq(Nat) /\ Append(appended, idxCalls) \in Seq(Nat)
    BY Sizes, SMTT(30) DEF IndexTypes
  <1>2. Proper(idxFile, idxCalls) /\ Proper(kept, idxCalls) /\ idxCalls \in Nat
        /\ idxCalls \in 0 .. idxCalls
    BY Sizes DEF IndexTypes
  <1>3. CASE Index!OpenAppend
    <2>1. /\ Closed(idxFile, appended) /\ idxFile' = idxFile /\ appended' = appended
          /\ IF Index!HasFooter(idxFile)
             THEN idxPc' = "truncate" /\ kept' = Index!Entries(idxFile)
             ELSE idxPc' = "entry" /\ atEnd' = FALSE
      BY <1>0, <1>3 DEF Index!OpenAppend, IndexInv
    <2>2. CASE Index!HasFooter(idxFile)
      <3>1. Open(Index!Entries(idxFile), appended)
        BY <2>1, <2>2 DEF Closed, Index!HasFooter
      <3> QED BY <2>1, <2>2, <3>1 DEF IndexInv
    <2>3. CASE ~Index!HasFooter(idxFile)
      <3>1. idxFile = << >> /\ appended = << >>
        BY <2>1, <2>3 DEF Closed
      <3>2. Open(<< >>, << >>)
        BY SMTT(30) DEF Open
      <3> QED BY <2>1, <2>3, <3>1, <3>2 DEF IndexInv
    <2> QED BY <2>2, <2>3
  <1>4. CASE Index!Truncate
    BY <1>0, <1>4 DEF Index!Truncate, IndexInv
  <1>5. CASE Index!Rewrite
    <2>1. /\ idxFile' = kept /\ idxPc' = "entry" /\ atEnd' = TRUE /\ appended' = appended
          /\ Open(kept, appended)
      BY <1>0, <1>5 DEF Index!Rewrite, IndexInv
    <2> QED BY <2>1 DEF IndexInv
  <1>6. CASE Index!WriteEntry
    <2>1. /\ idxFile' = Index!Written(Index!Entry(idxCalls), 0) /\ idxPc' = "footer"
          /\ atEnd' = atEnd /\ appended' = appended /\ idxCalls' = idxCalls
          /\ Open(idxFile, appended) /\ (~atEnd => idxFile = << >>)
      BY <1>0, <1>6 DEF Index!WriteEntry, IndexInv
    <2>2. Proper(Index!Entry(idxCalls), idxCalls) /\ Len(Index!Entry(idxCalls)) = 2
      BY <1>2, ProperParts
    <2>3. idxFile' = idxFile \o Index!Entry(idxCalls)
      <3>1. CASE atEnd
        BY <2>1, <3>1 DEF Index!Written
      <3>2. CASE ~atEnd
        <4>1. Len(idxFile) = 0
          BY <2>1, <3>2, SMTT(30)
        <4> QED BY <2>1, <2>2, <4>1, WrittenAtEnd, SMTT(30)
      <3> QED BY <3>1, <3>2
    <2>4. Open(idxFile', Append(appended, idxCalls))
      BY <1>1, <1>2, <2>1, <2>3, OpenGrows
    <2>5. ~atEnd => appended = << >>
      <3>1. idxFile = << >> => Len(appended) = 0
        BY <1>1, <2>1, SMTT(30) DEF Open
      <3> QED BY <1>1, <2>1, <3>1, SMTT(30)
    <2> QED BY <2>1, <2>4, <2>5 DEF IndexInv
  <1>7. CASE Index!WriteFooter
    <2>1. /\ idxFile' = Index!Written(<<Index!Footer(Index!Entries(idxFile))>>, Len(Index!Entry(idxCalls)))
          /\ idxPc' = "idle" /\ appended' = Append(appended, idxCalls)
          /\ Open(idxFile, Append(appended, idxCalls)) /\ (~atEnd => appended = << >>)
      BY <1>0, <1>7 DEF Index!WriteFooter, IndexInv
    <2>2. Index!Entries(idxFile) = idxFile
      BY <1>1, <1>2, <2>1, OpenEntries
    <2>3. idxFile' = idxFile \o <<Index!Footer(idxFile)>>
      <3>1. CASE atEnd
        BY <2>1, <2>2, <3>1 DEF Index!Written
      <3>2. CASE ~atEnd
        <4>1. Len(idxFile) = 2 /\ Len(Index!Entry(idxCalls)) = Len(idxFile)
          <5>1. Len(Append(appended, idxCalls)) = 1
            BY <1>1, <2>1, <3>2, SMTT(30)
          <5>2. Len(idxFile) = 2
            BY <2>1, <5>1, SMTT(30) DEF Open
          <5>3. Len(Index!Entry(idxCalls)) = 2
            BY <1>2, ProperParts
          <5> QED BY <5>2, <5>3
        <4>2. Proper(<<Index!Footer(idxFile)>>, idxCalls) /\ Len(<<Index!Footer(idxFile)>>) = 1
          BY <1>2, ProperParts
        <4>3. Index!Written(<<Index!Footer(idxFile)>>, Len(idxFile))
              = idxFile \o <<Index!Footer(idxFile)>>
          <5> PICK c : c = <<Index!Footer(idxFile)>>
            OBVIOUS
          <5>1. Proper(c, idxCalls) /\ Len(c) >= 1
            BY <4>2, SMTT(30)
          <5>2. Index!Written(c, Len(idxFile)) = idxFile \o c
            BY <4>1, <5>1, WrittenAtEnd
          <5> QED BY <5>2
        <4> QED BY <2>1, <2>2, <4>1, <4>3
      <3> QED BY <3>1, <3>2
    <2>4. Closed(idxFile', appended')
      BY <1>1, <1>2, <2>1, <2>3, FooterCloses
    <2> QED BY <2>1, <2>4 DEF IndexInv
  <1>8. CASE Index!Interrupt
    <2>1. idxPc \in {"idle", "truncate"} /\ idxPc' = "idle" /\ appended' = appended
      BY <1>8 DEF Index!Interrupt, IndexTypes
    <2>2. idxFile' = idxFile
      BY <1>8, <2>1 DEF Index!Interrupt, Index!Partial
    <2> QED BY <1>0, <2>1, <2>2 DEF IndexInv
  <1> QED BY <1>3, <1>4, <1>5, <1>6, <1>7, <1>8 DEF Index!Next

-----------------------------------------------------------------------------
(* The journal.                                                            *)

\* The kinds of token.
LEMMA Tokens ==
    ASSUME NEW n \in Nat, NEW t \in Token(n)
    PROVE  /\ t.kind \in {"text", "prefix", "newline"} /\ t.entry \in 0 .. n
           /\ t.kind = "newline" <=> t = Log!Newline
           /\ t.kind = "text" => t.entry \in 1 .. n /\ t = Log!Text(t.entry)
  BY SMTT(30) DEF Token, Log!Newline, Log!Text, Log!Prefix

\* A later call may find the tokens of earlier ones.
LEMMA MoreTokens ==
    ASSUME NEW n \in Nat
    PROVE  Token(n) \subseteq Token(n + 1)
  BY SMTT(30) DEF Token

\* The numbers of the journal.
LEMMA LogSizes ==
    ASSUME LogTypes
    PROVE  /\ MaxAppends \in Nat /\ MaxFaults \in Nat /\ logCalls \in Nat /\ logFaults \in Nat
           /\ Len(logFile) \in Nat /\ DOMAIN logFile = 1 .. Len(logFile)
           /\ \A i \in DOMAIN logFile : logFile[i] \in Token(logCalls)
  BY RecoveryAssumption, SMTT(30) DEF LogTypes

\* A token at the end.
LEMMA Appended ==
    ASSUME LogTypes, NEW t \in Token(logCalls)
    PROVE  /\ Append(logFile, t) \in Seq(Token(logCalls))
           /\ Len(Append(logFile, t)) = Len(logFile) + 1
           /\ DOMAIN Append(logFile, t) = 1 .. Len(logFile) + 1
           /\ Append(logFile, t)[Len(logFile) + 1] = t
           /\ \A i \in DOMAIN logFile : Append(logFile, t)[i] = logFile[i]
  <1>1. logFile \in Seq(Token(logCalls))
    BY DEF LogTypes
  <1> QED BY <1>1, SMTT(30)

\* What a step of Journal.Append does to the file.
LEMMA LogFile ==
    ASSUME LogTypes, Log!WriteLine \/ Log!WriteNewline \/ Log!Interrupt
    PROVE  /\ logCalls' = logCalls /\ resumed' = resumed
           /\ \/ logFile' = logFile /\ logPc' = "idle" /\ acked' = acked
              \/ /\ logPc = "line" /\ acked' = acked
                 /\ \/ logFile' = Append(logFile, Log!Text(logCalls))
                       /\ logPc' \in {"newline", "idle"}
                    \/ logFile' = Append(logFile, Log!Prefix(logCalls)) /\ logPc' = "idle"
              \/ /\ logPc = "newline" /\ logFile' = Append(logFile, Log!Newline)
                 /\ logPc' = "idle" /\ acked' \in {acked, acked \cup {logCalls}}
           /\ logFaults' \in 0 .. MaxFaults
  BY LogSizes, SMTT(30) DEF LogTypes, Log!WriteLine, Log!WriteNewline, Log!Interrupt

\* The steps of Journal.Append keep the types.
LEMMA LogTypesStep ==
    ASSUME LogTypes, Log!WriteLine \/ Log!WriteNewline \/ Log!Interrupt
    PROVE  LogTypes'
  <1>1. logCalls \in Nat /\ (logPc # "idle" => logCalls \in 1 .. logCalls)
    BY LogSizes, SMTT(30) DEF LogTypes
  <1>2. /\ Log!Newline \in Token(logCalls)
        /\ logPc # "idle" => Log!Text(logCalls) \in Token(logCalls)
                             /\ Log!Prefix(logCalls) \in Token(logCalls)
    BY <1>1 DEF Token
  <1>3. logFile' \in Seq(Token(logCalls)) /\ acked' \subseteq 1 .. logCalls
    BY <1>1, <1>2, LogFile, Appended DEF LogTypes
  <1> QED BY <1>1, <1>3, LogFile DEF LogTypes

\* So does its beginning.
LEMMA BeginTypes ==
    ASSUME LogTypes, Log!Begin
    PROVE  LogTypes' /\ logCalls' = logCalls + 1
  <1>1. logCalls' = logCalls + 1 /\ logCalls \in Nat /\ logCalls' \in 0 .. MaxAppends
    BY LogSizes, SMTT(30) DEF Log!Begin
  <1>2. logFile' \in Seq(Token(logCalls'))
    <2>1. logFile' = logFile /\ Token(logCalls) \subseteq Token(logCalls')
      BY <1>1, MoreTokens DEF Log!Begin
    <2> QED BY <2>1, SMTT(30) DEF LogTypes
  <1>3. acked' \subseteq 1 .. logCalls' /\ resumed' \in BOOLEAN
    BY <1>1, SMTT(30) DEF Log!Begin, LogTypes
  <1> QED BY <1>1, <1>2, <1>3, SMTT(30) DEF Log!Begin, LogTypes

\* A token that begins a line, or the newline of an entry, keeps lines single.
LEMMA AloneGrows ==
    ASSUME LogTypes, NEW t \in Token(logCalls), logFile' = Append(logFile, t),
           \A i \in DOMAIN logFile : Alone(i),
           IF t = Log!Newline
           THEN logFile # << >> /\ logFile[Len(logFile)].kind = "text"
           ELSE Log!Ended
    PROVE  \A i \in DOMAIN logFile' : Alone(i)'
  <1> PICK n : n = Len(logFile)
    OBVIOUS
  <1>1. /\ n \in Nat /\ Len(logFile') = n + 1 /\ DOMAIN logFile' = 1 .. n + 1
        /\ DOMAIN logFile = 1 .. n /\ logFile'[n + 1] = t
        /\ \A i \in 1 .. n : logFile'[i] = logFile[i]
    BY LogSizes, Appended
  <1>2. n # 0 => \/ t = Log!Newline /\ logFile[n].kind = "text"
                 \/ t # Log!Newline /\ logFile[n] = Log!Newline
    BY <1>1, SMTT(30) DEF Log!Ended
  <1>3. t = Log!Newline => n # 0
    <2>1. logFile \in Seq(Token(logCalls))
      BY DEF LogTypes
    <2> QED BY <2>1, SMTT(30)
  <1>4. Log!Newline.kind # "text"
    BY DEF Log!Newline
  <1>5. ASSUME NEW i \in 1 .. n
        PROVE  Alone(i)'
    <2>1. Alone(i) /\ i \in Nat /\ i - 1 \in Int /\ logFile'[i] = logFile[i]
      BY <1>1, SMTT(30)
    <2>2. i > 1 => logFile'[i - 1] = logFile[i - 1]
      BY <1>1, SMTT(30)
    <2>3. CASE logFile[i] = Log!Newline
      BY <2>1, <2>2, <2>3 DEF Alone
    <2>4. CASE logFile[i] # Log!Newline
      <3>1. i = 1 \/ logFile'[i - 1] = Log!Newline
        BY <2>1, <2>2, <2>4, SMTT(30) DEF Alone
      <3>2. CASE i < n
        <4>1. logFile[i].kind = "text" /\ logFile[i + 1] = Log!Newline
          BY <2>1, <2>4, <3>2 DEF Alone
        <4>2. logFile'[i + 1] = logFile[i + 1]
          BY <1>1, <3>2, SMTT(30)
        <4> QED BY <2>1, <2>4, <3>1, <4>1, <4>2 DEF Alone
      <3>3. CASE i = n
        <4>1. t = Log!Newline /\ logFile[n].kind = "text"
          BY <1>1, <1>2, <2>4, <3>3, SMTT(30)
        <4> QED BY <1>1, <2>1, <2>4, <3>1, <3>3, <4>1 DEF Alone
      <3> QED BY <1>1, <3>2, <3>3, SMTT(30)
    <2> QED BY <2>3, <2>4
  <1>6. Alone(n + 1)'
    <2>1. n # 0 => logFile'[n] = logFile[n]
      BY <1>1, SMTT(30)
    <2>2. (n + 1) - 1 = n /\ (n + 1 > 1 <=> n # 0) /\ ~(n + 1 < n + 1) /\ (n + 1 = 1 <=> n = 0)
      BY <1>1, SMTT(30)
    <2>3. CASE t = Log!Newline
      BY <1>1, <1>2, <1>3, <2>1, <2>2, <2>3 DEF Alone
    <2>4. CASE t # Log!Newline
      BY <1>1, <1>2, <2>1, <2>2, <2>4 DEF Alone
    <2> QED BY <2>3, <2>4
  <1> QED BY <1>1, <1>5, <1>6, SMTT(30)

\* The steps of Journal.Append keep the lines of the acknowledged entries.
LEMMA LogInvStep ==
    ASSUME LogTypes, LogInv, Log!WriteLine \/ Log!WriteNewline \/ Log!Interrupt
    PROVE  LogInv'
  <1> SUFFICES ASSUME ~resumed
               PROVE  /\ \A i \in DOMAIN logFile' : Alone(i)'
                      /\ logPc' = "line" => Log!Ended'
                      /\ logPc' = "newline" => /\ logFile' # << >>
                                               /\ logFile'[Len(logFile')] = Log!Text(logCalls)
                      /\ \A n \in acked' : \E i \in DOMAIN logFile' : logFile'[i] = Log!Text(n)
    BY LogFile DEF LogInv
  <1>1. /\ \A i \in DOMAIN logFile : Alone(i)
        /\ logPc = "line" => Log!Ended
        /\ logPc = "newline" => logFile # << >> /\ logFile[Len(logFile)] = Log!Text(logCalls)
        /\ \A n \in acked : \E i \in DOMAIN logFile : logFile[i] = Log!Text(n)
    BY DEF LogInv
  <1>2. logPc' # "line"
    BY LogFile
  <1>3. CASE logFile' = logFile /\ logPc' = "idle" /\ acked' = acked
    BY <1>1, <1>3 DEF Alone
  <1>4. ASSUME NEW t \in Token(logCalls), logFile' = Append(logFile, t),
               \/ logPc = "line" /\ t # Log!Newline
               \/ logPc = "newline" /\ t = Log!Newline,
               logPc' = "newline" => t = Log!Text(logCalls),
               acked' = acked \/ (logPc = "newline" /\ acked' = acked \cup {logCalls})
        PROVE  /\ \A i \in DOMAIN logFile' : Alone(i)'
               /\ logPc' = "newline" => /\ logFile' # << >>
                                        /\ logFile'[Len(logFile')] = Log!Text(logCalls)
               /\ \A n \in acked' : \E i \in DOMAIN logFile' : logFile'[i] = Log!Text(n)
    <2>1. \A i \in DOMAIN logFile' : Alone(i)'
      <3>1. Log!Text(logCalls).kind = "text"
        BY DEF Log!Text
      <3> QED BY <1>1, <1>4, <3>1, AloneGrows
    <2>2. /\ Len(logFile') = Len(logFile) + 1 /\ DOMAIN logFile' = 1 .. Len(logFile) + 1
          /\ logFile'[Len(logFile) + 1] = t /\ Len(logFile) \in Nat
          /\ DOMAIN logFile = 1 .. Len(logFile)
          /\ \A i \in DOMAIN logFile : logFile'[i] = logFile[i]
      BY <1>4, Appended, LogSizes
    <2>3. logPc' = "newline" => logFile' # << >> /\ logFile'[Len(logFile')] = Log!Text(logCalls)
      <3>1. logFile' # << >>
        BY <1>4, SMTT(30)
      <3> QED BY <1>4, <2>2, <3>1
    <2>4. ASSUME NEW n \in acked'
          PROVE  \E i \in DOMAIN logFile' : logFile'[i] = Log!Text(n)
      <3>1. \E i \in DOMAIN logFile : logFile[i] = Log!Text(n)
        <4>1. CASE n \in acked
          BY <1>1, <4>1
        <4>2. CASE logPc = "newline" /\ n = logCalls
          <5>1. Len(logFile) \in DOMAIN logFile
            BY <1>1, <4>2, LogSizes, SMTT(30) DEF LogTypes
          <5> QED BY <1>1, <4>2, <5>1
        <4> QED BY <1>4, <2>4, <4>1, <4>2
      <3>2. PICK i \in DOMAIN logFile : logFile[i] = Log!Text(n)
        BY <3>1
      <3> QED BY <2>2, <3>2, SMTT(30)
    <2> QED BY <2>1, <2>3, <2>4
  <1>5. /\ Log!Newline \in Token(logCalls)
        /\ logPc # "idle" => Log!Text(logCalls) \in Token(logCalls)
                             /\ Log!Prefix(logCalls) \in Token(logCalls)
    BY LogSizes, SMTT(30) DEF Token, LogTypes
  <1>6. Log!Text(logCalls) # Log!Newline /\ Log!Prefix(logCalls) # Log!Newline
    BY DEF Log!Text, Log!Prefix, Log!Newline
  <1>7. CASE logPc = "line" /\ acked' = acked /\ logFile' = Append(logFile, Log!Text(logCalls))
    <2> PICK t \in Token(logCalls) : t = Log!Text(logCalls)
      BY <1>5, <1>7
    <2>1. logFile' = Append(logFile, t) /\ t # Log!Newline
      BY <1>6, <1>7
    <2> QED BY <1>2, <1>4, <1>7, <2>1
  <1>8. CASE logPc = "line" /\ acked' = acked /\ logPc' = "idle"
             /\ logFile' = Append(logFile, Log!Prefix(logCalls))
    <2> PICK t \in Token(logCalls) : t = Log!Prefix(logCalls)
      BY <1>5, <1>8
    <2>1. logFile' = Append(logFile, t) /\ t # Log!Newline
      BY <1>6, <1>8
    <2> QED BY <1>2, <1>4, <1>8, <2>1
  <1>9. CASE /\ logPc = "newline" /\ logFile' = Append(logFile, Log!Newline)
             /\ logPc' = "idle" /\ acked' \in {acked, acked \cup {logCalls}}
    <2> PICK t \in Token(logCalls) : t = Log!Newline
      BY <1>5
    <2>1. logFile' = Append(logFile, t) /\ (acked' = acked \/ acked' = acked \cup {logCalls})
      BY <1>9
    <2> QED BY <1>2, <1>4, <1>9, <2>1
  <1> QED BY <1>3, <1>7, <1>8, <1>9, LogFile

\* A line is begun.
LEMMA BeginInv ==
    ASSUME LogTypes, LogInv, Log!Begin
    PROVE  LogInv'
  <1>1. /\ logFile' = logFile /\ acked' = acked /\ logPc' = "line"
        /\ resumed' = (resumed \/ ~Log!Ended)
    BY DEF Log!Begin
  <1> SUFFICES ASSUME ~resumed'
               PROVE  LogInv'
    BY DEF LogInv
  <1>2. ~resumed /\ Log!Ended
    BY <1>1 DEF LogTypes, Log!Ended
  <1>3. Log!Ended'
    BY <1>1, <1>2 DEF Log!Ended
  <1>4. \A i \in DOMAIN logFile' : Alone(i)'
    BY <1>1, <1>2 DEF LogInv, Alone
  <1> QED BY <1>1, <1>2, <1>3, <1>4 DEF LogInv

-----------------------------------------------------------------------------
(* Both files.                                                             *)

\* Entries stay.
LEMMA AppendedGrows ==
    ASSUME IndexTypes, Index!Next
    PROVE  Range(appended) \subseteq Range(appended')
  <1>1. appended' = appended \/ appended' = Append(appended, idxCalls)
    BY DEF Index!Next, Index!OpenAppend, Index!Truncate, Index!Rewrite, Index!WriteEntry,
           Index!WriteFooter, Index!Interrupt
  <1>2. CASE appended' = Append(appended, idxCalls)
    <2>1. appended \in Seq(1 .. idxCalls)
      BY DEF IndexTypes
    <2>2. \A i \in DOMAIN appended : i \in DOMAIN appended' /\ appended'[i] = appended[i]
      BY <1>2, <2>1, SMTT(30)
    <2> QED BY <2>2 DEF Range
  <1> QED BY <1>1, <1>2

\* The entries exist before their packages are journaled.
LEMMA BehindStep ==
    ASSUME IInv, Next
    PROVE  Behind'
  <1>1. CASE StoreNew
    <2>1. Range(appended) \subseteq Range(appended')
      BY <1>1, AppendedGrows DEF StoreNew, IInv
    <2>2. live' = live \cup (Range(appended') \ Range(appended)) /\ of' = of /\ logCalls' = logCalls
      BY <1>1 DEF StoreNew, logVars
    <2>3. live' \subseteq Range(appended')
      BY <2>1, <2>2 DEF IInv, Behind
    <2>4. of' \in Seq(Range(appended'))
      BY <2>1, <2>2, SMTT(30) DEF IInv, Behind
    <2> QED BY <2>2, <2>3, <2>4 DEF IInv, Behind
  <1>2. CASE JournalPackage
    <2>1. appended' = appended /\ logCalls' = logCalls + 1
      BY <1>2, BeginTypes DEF JournalPackage, idxVars, IInv
    <2>2. PICK n \in live : of' = Append(of, n) /\ live' = live \ {n}
      BY <1>2 DEF JournalPackage
    <2>3. n \in Range(appended) /\ live' \subseteq Range(appended')
      BY <2>1, <2>2 DEF IInv, Behind
    <2>4. of' \in Seq(Range(appended)) /\ Len(of') = Len(of) + 1
      BY <2>2, <2>3, SMTT(30) DEF IInv, Behind
    <2> QED BY <2>1, <2>3, <2>4 DEF IInv, Behind
  <1>3. CASE JournalAppend
    <2>1. appended' = appended /\ live' = live /\ of' = of
      BY <1>3 DEF JournalAppend, idxVars
    <2>2. logCalls' = logCalls
      BY <1>3, LogFile DEF JournalAppend, IInv
    <2> QED BY <2>1, <2>2 DEF IInv, Behind
  <1>4. CASE Crash
    <2>1. appended' = appended /\ live' = {} /\ of' = of
      BY <1>4 DEF Crash, Index!Interrupt
    <2>2. logCalls' = logCalls
      BY <1>4, LogFile DEF Crash, logVars, IInv
    <2> QED BY <2>1, <2>2 DEF IInv, Behind
  <1> QED BY <1>1, <1>2, <1>3, <1>4 DEF Next

\* A step of the journal leaves the index file alone.
LEMMA IndexUnchanged ==
    ASSUME IndexTypes, IndexInv, UNCHANGED idxVars
    PROVE  IndexTypes' /\ IndexInv'
  BY DEF idxVars, IndexTypes, IndexInv

\* A step of the index leaves the journal alone.
LEMMA LogUnchanged ==
    ASSUME LogTypes, LogInv, UNCHANGED logVars
    PROVE  LogTypes' /\ LogInv'
  <1>1. \A i \in DOMAIN logFile : Alone(i) => Alone(i)'
    BY DEF logVars, Alone
  <1>2. Log!Ended => Log!Ended'
    BY DEF logVars, Log!Ended
  <1> QED BY <1>1, <1>2 DEF logVars, LogTypes, LogInv

\* The initial files are empty.
LEMMA InitIInv == Init => IInv
  <1> SUFFICES ASSUME Init PROVE IInv
    OBVIOUS
  <1>1. Index!Init /\ Log!Init /\ live = {} /\ of = << >>
    BY DEF Init
  <1>2. IndexTypes
    <2>1. Proper(<< >>, 0)
      BY SMTT(30) DEF Proper
    <2>2. << >> \in Seq(1 .. 0) /\ 0 \in 0 .. MaxAppends /\ 0 \in 0 .. MaxFaults
      BY RecoveryAssumption, SMTT(30)
    <2> QED BY <1>1, <2>1, <2>2 DEF Index!Init, IndexTypes
  <1>3. IndexInv
    BY <1>1 DEF Index!Init, IndexInv, Closed
  <1>4. LogTypes
    <2>1. << >> \in Seq(Token(0)) /\ 0 \in 0 .. MaxAppends /\ 0 \in 0 .. MaxFaults
      BY RecoveryAssumption, SMTT(30)
    <2> QED BY <1>1, <2>1 DEF Log!Init, LogTypes
  <1>5. LogInv
    BY <1>1, SMTT(30) DEF Log!Init, LogInv
  <1>6. Behind
    BY <1>1, SMTT(30) DEF Behind, Log!Init
  <1> QED BY <1>2, <1>3, <1>4, <1>5, <1>6 DEF IInv

\* Every step keeps the invariant.
LEMMA NextIInv == IInv /\ [Next]_vars => IInv'
  <1> SUFFICES ASSUME IInv, [Next]_vars PROVE IInv'
    OBVIOUS
  <1>0. IndexTypes /\ IndexInv /\ LogTypes /\ LogInv
    BY DEF IInv
  <1>1. IndexTypes' /\ IndexInv'
    <2>1. CASE Index!Next
      BY <1>0, <2>1, IndexTypesStep, IndexInvStep
    <2>2. CASE UNCHANGED idxVars
      BY <1>0, <2>2, IndexUnchanged
    <2> QED BY <2>1, <2>2 DEF Next, StoreNew, JournalPackage, JournalAppend, Crash, vars, Index!Next
  <1>2. LogTypes' /\ LogInv'
    <2>1. CASE Log!Begin
      BY <1>0, <2>1, BeginTypes, BeginInv
    <2>2. CASE Log!WriteLine \/ Log!WriteNewline \/ Log!Interrupt
      BY <1>0, <2>2, LogTypesStep, LogInvStep
    <2>3. CASE UNCHANGED logVars
      BY <1>0, <2>3, LogUnchanged
    <2> QED BY <2>1, <2>2, <2>3 DEF Next, StoreNew, JournalPackage, JournalAppend, Crash, vars
  <1>3. Behind'
    <2>1. CASE UNCHANGED vars
      BY <2>1 DEF IInv, Behind, vars, idxVars, logVars
    <2> QED BY <2>1, BehindStep
  <1> QED BY <1>1, <1>2, <1>3 DEF IInv

\* The files and the requests always satisfy the inductive invariant.
THEOREM Inductive == Spec => []IInv
  BY InitIInv, NextIInv, PTL DEF Spec

-----------------------------------------------------------------------------
(* The theorems.                                                           *)

\* The variables keep their types (SegmentIndex.Append, Journal.Append).
THEOREM Typed == Spec => []TypeOK
  <1>1. IInv => TypeOK
    <2> SUFFICES ASSUME IInv PROVE TypeOK
      OBVIOUS
    <2>1. Index!TypeOK
      <3>1. \A i \in DOMAIN appended : appended[i] \in 1 .. idxCalls
        BY SMTT(30) DEF IInv, IndexTypes
      <3> QED BY <3>1 DEF IInv, IndexTypes, Index!TypeOK, Proper
    <2>2. Log!TypeOK
      BY LogSizes, Tokens DEF IInv, LogTypes, Log!TypeOK
    <2>3. Range(appended) \subseteq 1 .. idxCalls
      BY SMTT(30) DEF IInv, IndexTypes, Range
    <2>4. Range(of) \subseteq Range(appended)
      BY SMTT(30) DEF IInv, Behind, Range
    <2> QED BY <2>1, <2>2, <2>3, <2>4 DEF IInv, Behind, TypeOK
  <1> QED BY <1>1, Inductive, PTL

\* Without an interrupted write the index file holds exactly the entries whose
\* SegmentIndex.Append has returned, and ReadIndexFile accepts it.
LEMMA ExactNow == IInv => IndexExact
  <1> SUFFICES ASSUME IInv, ~interrupted, idxPc = "idle"
               PROVE  ~Index!Refused(idxFile) /\ Index!ReadIndexFile(idxFile) = appended
    BY DEF IndexExact, Index!IndexExact
  <1>1. Closed(idxFile, appended) /\ Proper(idxFile, idxCalls) /\ idxCalls \in Nat
        /\ appended \in Seq(Nat)
    BY Sizes, SMTT(30) DEF IInv, IndexInv, IndexTypes
  <1> QED BY <1>1, Reads

\* IndexExact holds at all times (SegmentIndex.Append, ReadIndexFile).
THEOREM Exact == Spec => []IndexExact
  BY ExactNow, Inductive, PTL

\* A reader in the middle of SegmentIndex.Append reads the first entries of
\* the file, up to some one.
THEOREM Prefixes == Spec => []ReadersSeePrefix
  <1>1. IInv => ReadersSeePrefix
    <2> SUFFICES ASSUME IInv, ~interrupted
                 PROVE  /\ ~Index!Refused(idxFile)
                        /\ \E n \in 0 .. Len(appended) + 1 :
                               Index!ReadIndexFile(idxFile) = SubSeq(Append(appended, idxCalls), 1, n)
      BY DEF ReadersSeePrefix, Index!ReadersSeePrefix
    <2> PICK all : all = Append(appended, idxCalls)
      OBVIOUS
    <2>1. /\ Proper(idxFile, idxCalls) /\ idxCalls \in Nat /\ appended \in Seq(Nat)
          /\ all \in Seq(Nat)
      BY Sizes, SMTT(30) DEF IInv, IndexTypes
    <2>2. /\ SubSeq(all, 1, Len(appended)) = appended /\ SubSeq(all, 1, Len(appended) + 1) = all
          /\ SubSeq(all, 1, 0) = << >> /\ Len(appended) \in Nat
      BY <2>1, SMTT(30)
    <2>3. CASE idxPc \in {"idle", "truncate", "entry"}
      <3>1. Open(idxFile, appended) \/ Closed(idxFile, appended)
        BY <2>3 DEF IInv, IndexInv
      <3>2. ~Index!Refused(idxFile) /\ Index!ReadIndexFile(idxFile) = appended
        BY <2>1, <3>1, Reads
      <3>3. Len(appended) \in 0 .. Len(appended) + 1
        BY <2>2, SMTT(30)
      <3> QED BY <2>2, <3>2, <3>3
    <2>4. CASE idxPc = "rewrite"
      <3>1. Closed(idxFile, << >>) /\ << >> \in Seq(Nat)
        BY <2>4, SMTT(30) DEF IInv, IndexInv, Closed
      <3>2. ~Index!Refused(idxFile) /\ Index!ReadIndexFile(idxFile) = << >>
        BY <2>1, <3>1, Reads
      <3>3. 0 \in 0 .. Len(appended) + 1
        BY <2>2, SMTT(30)
      <3> QED BY <2>2, <3>2, <3>3
    <2>5. CASE idxPc = "footer"
      <3>1. Open(idxFile, all)
        BY <2>5 DEF IInv, IndexInv
      <3>2. ~Index!Refused(idxFile) /\ Index!ReadIndexFile(idxFile) = all
        BY <2>1, <3>1, Reads
      <3>3. Len(appended) + 1 \in 0 .. Len(appended) + 1
        BY <2>2, SMTT(30)
      <3> QED BY <2>2, <3>2, <3>3
    <2> QED BY <2>3, <2>4, <2>5 DEF IInv, IndexTypes
  <1> QED BY <1>1, Inductive, PTL

\* As long as no line was continued, a token that is not a newline is a line.
LEMMA SingleLines ==
    ASSUME IInv, ~resumed, NEW i \in DOMAIN logFile, logFile[i] # Log!Newline
    PROVE  <<i, i>> \in Log!Lines
  <1>1. Len(logFile) \in Nat /\ DOMAIN logFile = 1 .. Len(logFile) /\ Alone(i)
    BY LogSizes DEF IInv, LogInv
  <1>2. i \in Nat /\ i <= i /\ \A j \in i .. i : j = i
    BY <1>1, SMTT(30)
  <1>3. (i = 1 \/ logFile[i - 1] = Log!Newline) /\ (i = Len(logFile) \/ logFile[i + 1] = Log!Newline)
    BY <1>1, <1>2, SMTT(30) DEF Alone
  <1>4. \A j \in i .. i : logFile[j] # Log!Newline
    BY <1>2
  <1> QED BY <1>2, <1>3, <1>4 DEF Log!Lines

\* ReadJournal has every acknowledged entry and refuses the file only for a
\* line that is too long, as long as no line was continued.
THEOREM Complete == Spec => []JournalComplete
  <1>1. IInv => JournalComplete
    <2> SUFFICES ASSUME IInv, ~resumed
                 PROVE  /\ acked \subseteq Log!ReadJournal
                        /\ Log!Refused <=> \E i \in DOMAIN logFile : \E n \in Long : logFile[i] = Log!Text(n)
      BY DEF JournalComplete, Log!JournalComplete
    <2>1. Len(logFile) \in Nat /\ DOMAIN logFile = 1 .. Len(logFile)
          /\ \A i \in DOMAIN logFile : Alone(i)
      BY LogSizes DEF IInv, LogInv
    <2>2. \A n : Log!Text(n) # Log!Newline /\ Log!Text(n).kind = "text" /\ Log!Text(n).entry = n
      BY DEF Log!Text, Log!Newline
    <2>3. ASSUME NEW n \in acked PROVE n \in Log!ReadJournal
      <3>1. PICK i \in DOMAIN logFile : logFile[i] = Log!Text(n)
        BY DEF IInv, LogInv
      <3> PICK l : l = <<i, i>>
        OBVIOUS
      <3>2. l \in Log!Lines /\ l[1] = i /\ l[2] = i
        BY <2>2, <3>1, SingleLines
      <3>3. Log!Parses(l) /\ logFile[l[1]].entry = n
        BY <2>2, <3>1, <3>2 DEF Log!Parses
      <3> QED BY <3>2, <3>3 DEF Log!ReadJournal
    <2>4. ASSUME NEW i \in DOMAIN logFile, NEW n \in Long, logFile[i] = Log!Text(n)
          PROVE  Log!Refused
      <3> PICK l : l = <<i, i>>
        OBVIOUS
      <3>1. l \in Log!Lines /\ l[1] = i /\ l[2] = i
        BY <2>2, <2>4, SingleLines
      <3>2. i \in l[1] .. l[2]
        BY <2>1, <3>1, SMTT(30)
      <3>3. Log!TooLong(l)
        BY <2>4, <3>2 DEF Log!TooLong
      <3> QED BY <3>1, <3>3 DEF Log!Refused
    <2>5. ASSUME NEW l \in Log!Lines, l[2] + 1 < Len(logFile)
          PROVE  Log!Parses(l)
      <3>1. /\ l[1] \in DOMAIN logFile /\ l[2] \in DOMAIN logFile /\ l[1] <= l[2]
            /\ \A i \in l[1] .. l[2] : logFile[i] # Log!Newline
        BY DEF Log!Lines
      <3>2. logFile[l[1]] # Log!Newline /\ l[1] < Len(logFile)
        BY <2>1, <2>5, <3>1, SMTT(30)
      <3>3. logFile[l[1]].kind = "text" /\ logFile[l[1] + 1] = Log!Newline
        BY <2>1, <3>1, <3>2 DEF Alone
      <3>4. ~(l[1] + 1 <= l[2])
        BY <2>1, <3>1, <3>3, SMTT(30)
      <3> QED BY <2>1, <3>1, <3>3, <3>4, SMTT(30) DEF Log!Parses
    <2>6. ASSUME NEW l \in Log!Lines, Log!TooLong(l)
          PROVE  \E i \in DOMAIN logFile : \E n \in Long : logFile[i] = Log!Text(n)
      <3>1. PICK i \in l[1] .. l[2] : \E n \in Long : logFile[i] = Log!Text(n)
        BY <2>6 DEF Log!TooLong
      <3>2. i \in DOMAIN logFile
        BY <2>1, SMTT(30) DEF Log!Lines
      <3> QED BY <3>1, <3>2
    <2> QED BY <2>3, <2>4, <2>5, <2>6 DEF Log!Refused
  <1> QED BY <1>1, Inductive, PTL

\* What Rebuild reads from the journal has its content in the index file.
THEOREM Restored == Spec => []RestoredHaveContents
  <1>1. IInv => RestoredHaveContents
    <2> SUFFICES ASSUME IInv, ~interrupted, idxPc = "idle", NEW n \in Log!ReadJournal
                 PROVE  of[n] \in Range(Index!ReadIndexFile(idxFile))
      BY DEF RestoredHaveContents
    <2>1. Index!ReadIndexFile(idxFile) = appended
      BY ExactNow DEF IndexExact, Index!IndexExact
    <2>2. n \in 1 .. logCalls
      <3>1. PICK l \in Log!Lines : Log!Parses(l) /\ n = logFile[l[1]].entry
        BY DEF Log!ReadJournal
      <3>2. l[1] \in DOMAIN logFile /\ logFile[l[1]].kind = "text"
        BY <3>1 DEF Log!Lines, Log!Parses
      <3>3. logFile[l[1]] \in Token(logCalls) /\ logCalls \in Nat
        BY <3>2, LogSizes DEF IInv
      <3> QED BY <3>1, <3>2, <3>3, Tokens
    <2>3. of[n] \in Range(appended)
      <3>1. of \in Seq(Range(appended)) /\ Len(of) = logCalls
        BY DEF IInv, Behind
      <3> QED BY <2>2, <3>1, SMTT(30)
    <2> QED BY <2>1, <2>3
  <1> QED BY <1>1, Inductive, PTL

=============================================================================
