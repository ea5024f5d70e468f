--------------------------- MODULE Diagnose_proofs ---------------------------
(***************************************************************************)
(* Proofs about Diagnose: what the scan for brackets makes of a text, what *)
(* the lines of the output hold of each diagnostic, and what handleBuild   *)
(* reports of them.                                                        *)
(***************************************************************************)
EXTENDS Diagnose, Lists_proofs

-----------------------------------------------------------------------------
(* The scan, token by token.                                               *)

\* g is the table that Scanned computes, up to position n.
IsScan(g, s, text, open, close, n) ==
  g = [i \in 0 .. n |-> IF i = 0 THEN s ELSE Scan(g[i - 1], text[i], open, close)]

LEMMA ScanTable ==
  ASSUME NEW s, NEW text, NEW open, NEW close, NEW n \in Nat
  PROVE  \E g : IsScan(g, s, text, open, close, n)
<1> DEFINE N == {m \in Nat : \E g : IsScan(g, s, text, open, close, m)}
<1>1. 0 \in N
  <2>1. IsScan([i \in 0 .. 0 |-> s], s, text, open, close, 0)
    BY DEF IsScan
  <2>2. QED
    BY <2>1
<1>2. ASSUME NEW m \in Nat, m \in N PROVE m + 1 \in N
  <2>1. PICK g : IsScan(g, s, text, open, close, m)
    BY <1>2
  <2> DEFINE last == Scan(g[m], text[m + 1], open, close)
             h    == [i \in 0 .. m + 1 |-> IF i = m + 1 THEN last ELSE g[i]]
  <2>2. \A i \in 0 .. m + 1 : h[i] = IF i = 0 THEN s ELSE Scan(h[i - 1], text[i], open, close)
    <3> SUFFICES ASSUME NEW i \in 0 .. m + 1
                 PROVE  h[i] = IF i = 0 THEN s ELSE Scan(h[i - 1], text[i], open, close)
      OBVIOUS
    <3>1. CASE i = m + 1
      <4>1. h[i] = last /\ h[i - 1] = g[m] /\ i # 0
        BY <3>1, <1>2
      <4> HIDE DEF h
      <4>2. QED
        BY <3>1, <4>1
    <3>2. CASE i # m + 1
      <4>1. h[i] = g[i] /\ i \in 0 .. m /\ (i # 0 => h[i - 1] = g[i - 1])
        BY <3>2, <1>2
      <4> HIDE DEF h
      <4>2. g[i] = IF i = 0 THEN s ELSE Scan(g[i - 1], text[i], open, close)
        BY <2>1, <4>1 DEF IsScan
      <4>3. QED
        BY <4>1, <4>2
    <3>3. QED
      BY <3>1, <3>2
  <2>3. h = [i \in 0 .. m + 1 |-> h[i]]
    OBVIOUS
  <2> HIDE DEF h
  <2>4. IsScan(h, s, text, open, close, m + 1)
    BY <2>2, <2>3 DEF IsScan
  <2>5. QED
    BY <2>4
<1>3. QED
  BY <1>1, <1>2, CountUp

LEMMA ScanEntry ==
  ASSUME NEW g, NEW s, NEW text, NEW open, NEW close, NEW n \in Nat,
         IsScan(g, s, text, open, close, n)
  PROVE  /\ g[0] = s
         /\ \A i \in 0 .. n - 1 : g[i + 1] = Scan(g[i], text[i + 1], open, close)
<1>1. g[0] = s
  BY DEF IsScan
<1>2. ASSUME NEW i \in 0 .. n - 1 PROVE g[i + 1] = Scan(g[i], text[i + 1], open, close)
  <2>1. PICK j \in 0 .. n : j = i + 1
    OBVIOUS
  <2>2. j # 0 /\ j - 1 = i
    BY <2>1
  <2>3. g[j] = Scan(g[j - 1], text[j], open, close)
    BY <2>2 DEF IsScan
  <2>4. QED
    BY <2>1, <2>2, <2>3
<1>3. QED
  BY <1>1, <1>2

LEMMA ScannedIs ==
  ASSUME NEW s, NEW text, NEW open, NEW close, Len(text) \in Nat
  PROVE  \E g : /\ IsScan(g, s, text, open, close, Len(text))
                /\ Scanned(s, text, open, close) = g[Len(text)]
<1> DEFINE scan[i \in 0 .. Len(text)] ==
             IF i = 0 THEN s ELSE Scan(scan[i - 1], text[i], open, close)
<1>1. Scanned(s, text, open, close) = scan[Len(text)]
  BY DEF Scanned
<1>2. \E g : IsScan(g, s, text, open, close, Len(text))
  BY ScanTable
<1>3. IsScan(scan, s, text, open, close, Len(text))
  BY <1>2 DEF IsScan
<1>4. QED
  BY <1>1, <1>3

LEMMA ScannedEmpty ==
  ASSUME NEW s, NEW open, NEW close
  PROVE  Scanned(s, <<>>, open, close) = s
<1>1. Len(<<>>) = 0
  OBVIOUS
<1>2. PICK g : IsScan(g, s, <<>>, open, close, 0) /\ Scanned(s, <<>>, open, close) = g[0]
  BY <1>1, ScannedIs
<1>3. QED
  BY <1>2 DEF IsScan

LEMMA ScannedAppend ==
  ASSUME NEW S, NEW text \in Seq(S), NEW ch \in S, NEW s, NEW open, NEW close
  PROVE  Scanned(s, Append(text, ch), open, close) =
           Scan(Scanned(s, text, open, close), ch, open, close)
<1> DEFINE t == Append(text, ch)
           n == Len(text)
<1>1. /\ n \in Nat /\ Len(t) = n + 1 /\ Len(t) \in Nat
      /\ t[n + 1] = ch /\ \A k \in 1 .. n : t[k] = text[k]
  OBVIOUS
<1>2. PICK g : IsScan(g, s, text, open, close, n) /\ Scanned(s, text, open, close) = g[n]
  BY <1>1, ScannedIs
<1>3. PICK h : IsScan(h, s, t, open, close, n + 1) /\ Scanned(s, t, open, close) = h[n + 1]
  BY <1>1, ScannedIs
<1> HIDE DEF t, n
<1> DEFINE N == {m \in Nat : m <= n => h[m] = g[m]}
<1>4. 0 \in N
  <2>1. n + 1 \in Nat
    BY <1>1
  <2>2. h[0] = s /\ g[0] = s
    BY <1>1, <1>2, <1>3, <2>1, ScanEntry
  <2>3. QED
    BY <2>2
<1>5. ASSUME NEW m \in Nat, m \in N, m + 1 <= n PROVE h[m + 1] = g[m + 1]
  <2>1. m \in 0 .. n - 1 /\ m \in 0 .. (n + 1) - 1 /\ n + 1 \in Nat
    BY <1>5, <1>1
  <2>2. h[m] = g[m] /\ t[m + 1] = text[m + 1]
    BY <1>1, <1>5
  <2>3. g[m + 1] = Scan(g[m], text[m + 1], open, close)
    BY <1>1, <1>2, <2>1, ScanEntry
  <2>4. h[m + 1] = Scan(h[m], t[m + 1], open, close)
    BY <1>3, <2>1, ScanEntry
  <2>5. QED
    BY <2>2, <2>3, <2>4
<1>6. n \in N
  <2>1. \A m \in Nat : m \in N => m + 1 \in N
    BY <1>5
  <2>2. Nat \subseteq N
    BY <1>4, <2>1, CountUp
  <2>3. QED
    BY <1>1, <2>2
<1>7. n \in 0 .. (n + 1) - 1 /\ n + 1 \in Nat
  BY <1>1
<1>8. h[n + 1] = Scan(h[n], t[n + 1], open, close)
  BY <1>3, <1>7, ScanEntry
<1>9. Scanned(s, t, open, close) = Scan(Scanned(s, text, open, close), ch, open, close)
  BY <1>1, <1>2, <1>3, <1>6, <1>8
<1>10. QED
  BY <1>9 DEF t, n

LEMMA ScannedConcat ==
  ASSUME NEW S, NEW t \in Seq(S), NEW u \in Seq(S), NEW s, NEW open, NEW close
  PROVE  Scanned(s, t \o u, open, close) = Scanned(Scanned(s, t, open, close), u, open, close)
<1> DEFINE r == Scanned(s, t, open, close)
           T == {v \in Seq(S) : Scanned(s, t \o v, open, close) = Scanned(r, v, open, close)}
<1>1. <<>> \in T
  <2>1. <<>> \in Seq(S) /\ t \o <<>> = t
    OBVIOUS
  <2>2. QED
    BY <2>1, ScannedEmpty
<1>2. ASSUME NEW v \in Seq(S), NEW e \in S, v \in T PROVE Append(v, e) \in T
  <2> DEFINE w == t \o v
  <2>1. w \in Seq(S) /\ Append(v, e) \in Seq(S) /\ t \o Append(v, e) = Append(w, e)
    BY ConcatAppend
  <2>2. Scanned(s, w, open, close) = Scanned(r, v, open, close)
    BY <1>2
  <2> HIDE DEF w, r
  <2>3. Scanned(s, Append(w, e), open, close) = Scan(Scanned(s, w, open, close), e, open, close)
    BY <2>1, ScannedAppend
  <2>4. Scanned(r, Append(v, e), open, close) = Scan(Scanned(r, v, open, close), e, open, close)
    BY ScannedAppend
  <2>5. QED
    BY <2>1, <2>2, <2>3, <2>4
<1>3. Seq(S) \subseteq T
  BY <1>1, <1>2, AppendInduction
<1>4. QED
  BY <1>3

LEMMA ScannedOne ==
  ASSUME NEW s, NEW ch, NEW open, NEW close
  PROVE  Scanned(s, <<ch>>, open, close) = Scan(s, ch, open, close)
<1>1. <<>> \in Seq({ch}) /\ ch \in {ch} /\ Append(<<>>, ch) = <<ch>>
  OBVIOUS
<1> DEFINE e == <<>>
<1>2. e \in Seq({ch})
  BY <1>1
<1> HIDE DEF e
<1>3. Scanned(s, Append(e, ch), open, close) = Scan(Scanned(s, e, open, close), ch, open, close)
  BY ONLY <1>1, <1>2, ScannedAppend
<1>4. QED
  BY <1>1, <1>3, ScannedEmpty DEF e

ScanState(S) ==
  [depth : Int, inString : BOOLEAN, escaped : BOOLEAN, chunk : Seq(S), chunks : Seq(Seq(S))]

LEMMA StateIs ==
  ASSUME NEW S, NEW s \in ScanState(S)
  PROVE  /\ s.depth \in Int /\ s.inString \in BOOLEAN /\ s.escaped \in BOOLEAN
         /\ s.chunk \in Seq(S) /\ s.chunks \in Seq(Seq(S))
         /\ s = [depth |-> s.depth, inString |-> s.inString, escaped |-> s.escaped, chunk |-> s.chunk, chunks |-> s.chunks]
BY DEF ScanState

LEMMA StateWith ==
  ASSUME NEW S, NEW d \in Int, NEW i \in BOOLEAN, NEW e \in BOOLEAN, NEW c \in Seq(S), NEW cs \in Seq(Seq(S))
  PROVE  [depth |-> d, inString |-> i, escaped |-> e, chunk |-> c, chunks |-> cs] \in ScanState(S)
BY DEF ScanState

LEMMA GrownType ==
  ASSUME NEW S, NEW s \in ScanState(S), NEW ch \in S
  PROVE  Grown(s, ch) \in Seq(S)
BY StateIs DEF Grown

LEMMA ScanType ==
  ASSUME NEW S, NEW s \in ScanState(S), NEW ch \in S, NEW open, NEW close
  PROVE  Scan(s, ch, open, close) \in ScanState(S)
<1>0. Grown(s, ch) \in Seq(S)
  BY GrownType
<1> DEFINE code   == ~s.inString /\ ~s.escaped
           opens  == code /\ ch = open
           closes == code /\ ch = close
           ends   == closes /\ s.depth = 1 /\ s.chunk # <<>>
           depth  == IF opens THEN s.depth + 1 ELSE IF closes THEN s.depth - 1 ELSE s.depth
           inside == IF ch = Quote /\ ~s.escaped THEN ~s.inString ELSE s.inString
           escape == ch = Backslash /\ s.inString /\ ~s.escaped
           chunk  == IF opens /\ s.depth = 0 THEN <<ch>> ELSE IF ends THEN <<>> ELSE Grown(s, ch)
           chunks == IF ends THEN Append(s.chunks, Grown(s, ch)) ELSE s.chunks
<1>1. /\ s.depth \in Int /\ s.inString \in BOOLEAN /\ s.escaped \in BOOLEAN
      /\ s.chunk \in Seq(S) /\ s.chunks \in Seq(Seq(S))
  BY StateIs
<1>2. depth \in Int /\ inside \in BOOLEAN /\ escape \in BOOLEAN
  <2>1. depth \in Int
    BY <1>1
  <2>2. inside \in BOOLEAN
    BY <1>1
  <2>3. escape \in BOOLEAN
    BY <1>1
  <2>4. QED
    BY <2>1, <2>2, <2>3
<1>3. chunk \in Seq(S)
  BY <1>0, <1>1
<1>4. chunks \in Seq(Seq(S))
  BY <1>0, <1>1
<1>5. Scan(s, ch, open, close) = [depth |-> depth, inString |-> inside, escaped |-> escape, chunk |-> chunk, chunks |-> chunks]
  BY DEF Scan, Stepped
<1> HIDE DEF depth, inside, escape, chunk, chunks
<1>6. QED
  BY <1>2, <1>3, <1>4, <1>5, StateWith

LEMMA ScannedType ==
  ASSUME NEW S, NEW text \in Seq(S), NEW s \in ScanState(S), NEW open, NEW close
  PROVE  Scanned(s, text, open, close) \in ScanState(S)
<1> DEFINE T == {t \in Seq(S) : Scanned(s, t, open, close) \in ScanState(S)}
<1>1. <<>> \in T
  BY ScannedEmpty
<1>2. ASSUME NEW t \in Seq(S), NEW e \in S, t \in T PROVE Append(t, e) \in T
  <2>1. Append(t, e) \in Seq(S)
    OBVIOUS
  <2>2. Scanned(s, Append(t, e), open, close) = Scan(Scanned(s, t, open, close), e, open, close)
    BY ScannedAppend
  <2>3. QED
    BY <1>2, <2>1, <2>2, ScanType
<1>3. Seq(S) \subseteq T
  BY <1>1, <1>2, AppendInduction
<1>4. QED
  BY <1>3

LEMMA ScanningType ==
  ASSUME NEW S
  PROVE  Scanning \in ScanState(S)
BY DEF Scanning, ScanState

\* Scan, one field after the other.
One(ch) == <<ch>>

LEMMA ScanFields ==
  ASSUME NEW s, NEW ch, NEW open, NEW close
  PROVE  LET t    == Scan(s, ch, open, close)
             code == ~s.inString /\ ~s.escaped
             ends == code /\ ch = close /\ s.depth = 1 /\ s.chunk # <<>>
         IN  /\ t.depth = IF code /\ ch = open THEN s.depth + 1
                          ELSE IF code /\ ch = close THEN s.depth - 1 ELSE s.depth
             /\ t.inString = IF ch = Quote /\ ~s.escaped THEN ~s.inString ELSE s.inString
             /\ t.escaped = (ch = Backslash /\ s.inString /\ ~s.escaped)
             /\ t.chunk = IF code /\ ch = open /\ s.depth = 0 THEN One(ch)
                          ELSE IF ends THEN <<>> ELSE Grown(s, ch)
             /\ t.chunks = IF ends THEN Append(s.chunks, Grown(s, ch)) ELSE s.chunks
BY DEF Scan, Stepped, One

-----------------------------------------------------------------------------
(* The scan of quiet text, and of documents.                               *)

Opens(open, close) == (open = "[" /\ close = "]") \/ (open = "{" /\ close = "}")

\* Outside of strings at depth n, with what was found so far.
At(s, n, chunk, chunks) ==
  /\ s.depth = n /\ ~s.inString /\ ~s.escaped
  /\ s.chunk = chunk /\ s.chunks = chunks

LEMMA AtOnly ==
  ASSUME NEW S, NEW s \in ScanState(S), NEW t \in ScanState(S), NEW n, NEW c, NEW cs,
         At(s, n, c, cs), At(t, n, c, cs)
  PROVE  s = t
<1>1. /\ s = [depth |-> s.depth, inString |-> s.inString, escaped |-> s.escaped, chunk |-> s.chunk, chunks |-> s.chunks]
      /\ t = [depth |-> t.depth, inString |-> t.inString, escaped |-> t.escaped, chunk |-> t.chunk, chunks |-> t.chunks]
  BY StateIs
<1>2. /\ s.depth = t.depth /\ s.chunk = t.chunk /\ s.chunks = t.chunks
      /\ ~s.inString /\ ~t.inString /\ ~s.escaped /\ ~t.escaped
      /\ s.inString \in BOOLEAN /\ t.inString \in BOOLEAN /\ s.escaped \in BOOLEAN /\ t.escaped \in BOOLEAN
  BY StateIs DEF At
<1>3. QED
  BY <1>1, <1>2

LEMMA QuietScan ==
  ASSUME NEW S, NEW s \in ScanState(S), NEW ch \in S, NEW open, NEW close,
         At(s, 0, <<>>, s.chunks), ch # Quote, ch # open, ch # close
  PROVE  Scan(s, ch, open, close) = s
<1> DEFINE t == Scan(s, ch, open, close)
<1>1. /\ s.depth = 0 /\ s.inString = FALSE /\ s.escaped = FALSE /\ s.chunk = <<>>
      /\ Grown(s, ch) = <<>>
  BY StateIs DEF At, Grown
<1>2. t.depth = 0 /\ t.chunk = <<>> /\ t.chunks = s.chunks
  BY <1>1, ScanFields
<1>3. t.inString = FALSE
  BY <1>1, ScanFields
<1>4. ~t.escaped
  BY <1>1, ScanFields
<1>5. At(t, 0, <<>>, s.chunks)
  BY <1>2, <1>3, <1>4 DEF At
<1>6. QED
  BY <1>5, ScanType, AtOnly

\* What a quiet text leaves as it is.
LEMMA QuietScanned ==
  ASSUME NEW S, NEW text \in Seq(S), NEW s \in ScanState(S), NEW open, NEW close,
         At(s, 0, <<>>, s.chunks),
         \A k \in DOMAIN text : text[k] \notin {Quote, open, close}
  PROVE  Scanned(s, text, open, close) = s
<1> DEFINE R == S \ {Quote, open, close}
           T == {t \in Seq(R) : Scanned(s, t, open, close) = s}
<1>1. <<>> \in T
  BY ScannedEmpty
<1>2. ASSUME NEW t \in Seq(R), NEW e \in R, t \in T PROVE Append(t, e) \in T
  <2>1. Append(t, e) \in Seq(R)
    OBVIOUS
  <2>2. Scanned(s, Append(t, e), open, close) = Scan(s, e, open, close)
    BY <1>2, ScannedAppend
  <2>3. e \in S /\ e # Quote /\ e # open /\ e # close
    OBVIOUS
  <2>4. Scan(s, e, open, close) = s
    BY <2>3, QuietScan
  <2>5. QED
    BY <2>1, <2>2, <2>4
<1>3. Seq(R) \subseteq T
  BY <1>1, <1>2, AppendInduction
<1>4. text \in Seq(R)
  OBVIOUS
<1>5. QED
  BY <1>3, <1>4

LEMMA Longer ==
  ASSUME NEW S, NEW text \in Seq(S), NEW i \in 0 .. Len(text) - 1
  PROVE  /\ SubSeq(text, 1, i) \in Seq(S) /\ text[i + 1] \in S
         /\ SubSeq(text, 1, i + 1) = Append(SubSeq(text, 1, i), text[i + 1])
OBVIOUS

LEMMA WholePrefix ==
  ASSUME NEW S, NEW text \in Seq(S)
  PROVE  SubSeq(text, 1, 0) = <<>> /\ SubSeq(text, 1, Len(text)) = text
OBVIOUS

\* A token of text that begins no chunk and ends none is one more of the chunk.
Grows(c, text, i, t, u, open, close) ==
  LET ch == text[i + 1]
  IN  /\ u.chunk = c \o SubSeq(text, 1, i + 1)
      /\ u.chunks = t.chunks
      /\ u.depth = IF t.inString \/ t.escaped THEN t.depth
                   ELSE IF ch = open THEN t.depth + 1
                   ELSE IF ch = close THEN t.depth - 1 ELSE t.depth
      /\ u.inString = IF ch = Quote /\ ~t.escaped THEN ~t.inString ELSE t.inString
      /\ u.escaped = (ch = Backslash /\ t.inString /\ ~t.escaped)

LEMMA Growing ==
  ASSUME NEW S, NEW s \in ScanState(S), NEW text \in Seq(S), NEW i \in 0 .. Len(text) - 1,
         NEW open, NEW close, NEW c \in Seq(S), NEW t, NEW u,
         t = Scanned(s, SubSeq(text, 1, i), open, close),
         u = Scanned(s, SubSeq(text, 1, i + 1), open, close),
         t.chunk = c \o SubSeq(text, 1, i), t.chunk # <<>>,
         \/ t.inString \/ t.escaped
         \/ (text[i + 1] # close \/ t.depth > 1) /\ (text[i + 1] # open \/ t.depth > 0)
  PROVE  Grows(c, text, i, t, u, open, close)
<1> DEFINE e  == SubSeq(text, 1, i)
           ch == text[i + 1]
<1>1. e \in Seq(S) /\ ch \in S /\ SubSeq(text, 1, i + 1) = Append(e, ch)
  BY Longer
<1> HIDE DEF e, ch
<1>2. Scanned(s, Append(e, ch), open, close) = Scan(Scanned(s, e, open, close), ch, open, close)
  BY <1>1, ScannedAppend
<1>3. u = Scan(t, ch, open, close)
  BY <1>1, <1>2 DEF e
<1>4. Scanned(s, e, open, close) \in ScanState(S)
  BY <1>1, ScannedType
<1>5. t \in ScanState(S)
  BY <1>4 DEF e
<1>6. Grown(t, ch) = c \o Append(e, ch)
  <2>1. c \o Append(e, ch) = Append(c \o e, ch)
    BY <1>1, ConcatAppend
  <2>2. QED
    BY <2>1 DEF Grown, e
<1>7. /\ t.inString \in BOOLEAN /\ t.escaped \in BOOLEAN
      /\ u.inString \in BOOLEAN /\ u.escaped \in BOOLEAN
  BY <1>1, <1>3, <1>5, ScanType, StateIs
<1>8. t.inString \/ t.escaped \/ ((ch # close \/ t.depth > 1) /\ (ch # open \/ t.depth > 0))
  BY DEF ch
<1>9. t.depth \in Int
  BY <1>5, StateIs
<1>10. /\ u.chunk = Grown(t, ch) /\ u.chunks = t.chunks
       /\ u.depth = IF t.inString \/ t.escaped THEN t.depth
                    ELSE IF ch = open THEN t.depth + 1
                    ELSE IF ch = close THEN t.depth - 1 ELSE t.depth
  BY <1>3, <1>8, <1>9, ScanFields
<1>11. /\ u.inString = IF ch = Quote /\ ~t.escaped THEN ~t.inString ELSE t.inString
       /\ u.escaped = (ch = Backslash /\ t.inString /\ ~t.escaped)
  BY <1>3, <1>7, ScanFields
<1>12. QED
  BY <1>1, <1>6, <1>10, <1>11 DEF Grows, ch, e

-----------------------------------------------------------------------------
(* Documents *)

Tokens == Words \cup {d.id : d \in Diagnostics}
Marks  == Tokens \ {Newline}

LEMMA MarkWords ==
  /\ {"words", "count", "status", "code", "target", "runs", "results", "{", "}", "[", "]", Quote, Backslash} \subseteq Marks
  /\ Newline \in Tokens /\ Marks \subseteq Tokens /\ Words \subseteq Tokens
  /\ Quote \notin {Backslash, "{", "}", "[", "]"} /\ Backslash \notin {"{", "}", "[", "]"}
BY DEF Marks, Tokens, Words, Newline, Quote, Backslash

LEMMA MarksType ==
  ASSUME NEW s \in Seq(Marks)
  PROVE  s \in Seq(Tokens)
<1>1. Marks \subseteq Tokens
  BY MarkWords
<1>2. QED
  BY <1>1

LEMMA IdMark ==
  ASSUME NEW d \in Diagnostics
  PROVE  d.id \in Marks /\ d.id \notin Words
BY SaidAssumption DEF Marks, Tokens, Words

LEMMA EntryType ==
  ASSUME NEW d \in Diagnostics
  PROVE  Entry(d) \in Seq(Marks) /\ Entry(d) \in Seq(Tokens)
<1>1. /\ "{" \in Marks /\ "}" \in Marks /\ "[" \in Marks /\ Quote \in Marks /\ Backslash \in Marks
      /\ d.id \in Marks /\ Marks \subseteq Tokens
  BY MarkWords, IdMark
<1>2. ASSUME NEW S, NEW a \in S, NEW b \in S, NEW c \in S, NEW q \in S, NEW e \in S, NEW i \in S
      PROVE  <<a, q, i, e, q, c, q, b>> \in Seq(S)
  OBVIOUS
<1>3. QED
  BY <1>1, <1>2 DEF Entry

\* After i tokens of text, which go on where chunk c stands.
Within(s, c, text, i, open, close, depth, in, esc, cs) ==
  LET t == Scanned(s, SubSeq(text, 1, i), open, close)
  IN  /\ t.chunk = c \o SubSeq(text, 1, i) /\ t.chunk # <<>> /\ t.chunks = cs
      /\ t.depth = depth /\ t.inString = in /\ t.escaped = esc

LEMMA WithinNext ==
  ASSUME NEW s \in ScanState(Tokens), NEW c \in Seq(Tokens), NEW text \in Seq(Tokens), NEW i \in 0 .. Len(text) - 1,
         NEW open, NEW close, NEW depth \in Int, NEW in \in BOOLEAN, NEW esc \in BOOLEAN, NEW cs,
         Within(s, c, text, i, open, close, depth, in, esc, cs),
         NEW ch, ch = text[i + 1],
         in \/ esc \/ ((ch # close \/ depth > 1) /\ (ch # open \/ depth > 0))
  PROVE  Within(s, c, text, i + 1, open, close,
                IF in \/ esc THEN depth
                ELSE IF ch = open THEN depth + 1 ELSE IF ch = close THEN depth - 1 ELSE depth,
                IF ch = Quote /\ ~esc THEN ~in ELSE in,
                ch = Backslash /\ in /\ ~esc, cs)
<1> DEFINE t == Scanned(s, SubSeq(text, 1, i), open, close)
           u == Scanned(s, SubSeq(text, 1, i + 1), open, close)
           w == SubSeq(text, 1, i)
<1>1. /\ t.chunk = c \o SubSeq(text, 1, i) /\ t.chunk # <<>> /\ t.chunks = cs
      /\ t.depth = depth /\ t.inString = in /\ t.escaped = esc
  BY DEF Within
<1>2. Grows(c, text, i, t, u, open, close)
  BY <1>1, Growing
<1>3. c \o SubSeq(text, 1, i + 1) # <<>>
  <2>1. w \in Seq(Tokens) /\ text[i + 1] \in Tokens /\ SubSeq(text, 1, i + 1) = Append(w, text[i + 1])
    BY Longer
  <2> HIDE DEF w, t, u
  <2>2. c \o Append(w, text[i + 1]) # <<>>
    BY <2>1
  <2>3. QED
    BY <2>1, <2>2
<1> HIDE DEF t, u, w
<1>4. /\ u.chunk = c \o SubSeq(text, 1, i + 1) /\ u.chunk # <<>> /\ u.chunks = cs
      /\ u.depth = IF in \/ esc THEN depth
                   ELSE IF ch = open THEN depth + 1 ELSE IF ch = close THEN depth - 1 ELSE depth
      /\ u.inString = IF ch = Quote /\ ~esc THEN ~in ELSE in
      /\ u.escaped = (ch = Backslash /\ in /\ ~esc)
  BY <1>1, <1>2, <1>3 DEF Grows
<1>5. QED
  BY <1>4 DEF Within, u

LEMMA WithinStart ==
  ASSUME NEW s \in ScanState(Tokens), NEW c \in Seq(Tokens), c # <<>>, NEW text \in Seq(Tokens),
         NEW open, NEW close, NEW depth, NEW cs, At(s, depth, c, cs)
  PROVE  Within(s, c, text, 0, open, close, depth, FALSE, FALSE, cs)
<1>1. SubSeq(text, 1, 0) = <<>> /\ c \o <<>> = c
  OBVIOUS
<1>2. Scanned(s, SubSeq(text, 1, 0), open, close) = s
  BY <1>1, ScannedEmpty
<1>3. s.inString = FALSE /\ s.escaped = FALSE
  BY StateIs DEF At
<1>4. QED
  BY <1>1, <1>2, <1>3 DEF At, Within

\* The tokens that documents are made of, one case after the other.
LEMMA WithinString ==
  ASSUME NEW s \in ScanState(Tokens), NEW c \in Seq(Tokens), NEW text \in Seq(Tokens),
         NEW i \in Nat, NEW j \in 1 .. Len(text), j = i + 1,
         NEW open, NEW close, Opens(open, close), NEW depth \in Int, NEW cs,
         Within(s, c, text, i, open, close, depth, TRUE, FALSE, cs)
  PROVE  /\ text[j] = Quote => Within(s, c, text, j, open, close, depth, FALSE, FALSE, cs)
         /\ text[j] = Backslash => Within(s, c, text, j, open, close, depth, TRUE, TRUE, cs)
         /\ text[j] \notin {Quote, Backslash} =>
              Within(s, c, text, j, open, close, depth, TRUE, FALSE, cs)
<1> DEFINE ch == text[i + 1]
<1>1. i \in 0 .. Len(text) - 1 /\ TRUE \in BOOLEAN /\ FALSE \in BOOLEAN
  OBVIOUS
<1>2. Within(s, c, text, i + 1, open, close,
             IF TRUE \/ FALSE THEN depth
             ELSE IF ch = open THEN depth + 1 ELSE IF ch = close THEN depth - 1 ELSE depth,
             IF ch = Quote /\ ~FALSE THEN ~TRUE ELSE TRUE,
             ch = Backslash /\ TRUE /\ ~FALSE, cs)
  BY <1>1, WithinNext
<1>3. Quote # Backslash
  BY MarkWords
<1>4. QED
  BY <1>2, <1>3 DEF Within

LEMMA WithinEscaped ==
  ASSUME NEW s \in ScanState(Tokens), NEW c \in Seq(Tokens), NEW text \in Seq(Tokens),
         NEW i \in Nat, NEW j \in 1 .. Len(text), j = i + 1,
         NEW open, NEW close, NEW depth \in Int, NEW cs,
         Within(s, c, text, i, open, close, depth, TRUE, TRUE, cs)
  PROVE  Within(s, c, text, j, open, close, depth, TRUE, FALSE, cs)
<1> DEFINE ch == text[i + 1]
<1>1. i \in 0 .. Len(text) - 1 /\ TRUE \in BOOLEAN /\ FALSE \in BOOLEAN
  OBVIOUS
<1>2. Within(s, c, text, i + 1, open, close,
             IF TRUE \/ TRUE THEN depth
             ELSE IF ch = open THEN depth + 1 ELSE IF ch = close THEN depth - 1 ELSE depth,
             IF ch = Quote /\ ~TRUE THEN ~TRUE ELSE TRUE,
             ch = Backslash /\ TRUE /\ ~TRUE, cs)
  BY <1>1, WithinNext
<1>3. QED
  BY <1>2 DEF Within

LEMMA WithinText ==
  ASSUME NEW s \in ScanState(Tokens), NEW c \in Seq(Tokens), NEW text \in Seq(Tokens),
         NEW i \in Nat, NEW j \in 1 .. Len(text), j = i + 1,
         NEW open, NEW close, Opens(open, close), NEW depth \in Int, NEW cs, depth > 0,
         Within(s, c, text, i, open, close, depth, FALSE, FALSE, cs)
  PROVE  /\ text[j] = Quote => Within(s, c, text, j, open, close, depth, TRUE, FALSE, cs)
         /\ text[j] = open => Within(s, c, text, j, open, close, depth + 1, FALSE, FALSE, cs)
         /\ text[j] = close /\ depth > 1 =>
              Within(s, c, text, j, open, close, depth - 1, FALSE, FALSE, cs)
         /\ text[j] \notin {Quote, open, close} =>
              Within(s, c, text, j, open, close, depth, FALSE, FALSE, cs)
<1> DEFINE ch == text[i + 1]
<1>1. i \in 0 .. Len(text) - 1 /\ TRUE \in BOOLEAN /\ FALSE \in BOOLEAN
  OBVIOUS
<1>2. Quote # Backslash /\ Quote # open /\ Quote # close /\ open # close
  BY MarkWords DEF Opens
<1>3. CASE ch # close \/ depth > 1
  <2>1. PICK no \in BOOLEAN : no = FALSE
    OBVIOUS
  <2>2. (ch # close \/ depth > 1) /\ (ch # open \/ depth > 0)
    BY <1>3
  <2>3. Within(s, c, text, i, open, close, depth, no, no, cs)
    BY <2>1
  <2>4. Within(s, c, text, i + 1, open, close,
               IF no \/ no THEN depth
               ELSE IF ch = open THEN depth + 1 ELSE IF ch = close THEN depth - 1 ELSE depth,
               IF ch = Quote /\ ~no THEN ~no ELSE no,
               ch = Backslash /\ no /\ ~no, cs)
    BY <1>1, <2>2, <2>3, WithinNext
  <2>5. QED
    BY <1>2, <2>1, <2>4 DEF Within
<1>4. CASE ch = close /\ ~ (depth > 1)
  BY <1>2, <1>4
<1>5. QED
  BY <1>3, <1>4

\* The scan of an entry of a document.
LEMMA EntryScanned ==
  ASSUME NEW s \in ScanState(Tokens), NEW n \in Nat, n > 0, NEW c \in Seq(Tokens), c # <<>>,
         NEW cs, At(s, n, c, cs), NEW open, NEW close, Opens(open, close), NEW d \in Diagnostics
  PROVE  At(Scanned(s, Entry(d), open, close), n, c \o Entry(d), cs)
<1> DEFINE text == Entry(d)
<1>1. /\ text \in Seq(Tokens) /\ Len(text) = 8
      /\ text[1] = "{" /\ text[2] = Quote /\ text[3] = d.id /\ text[4] = Backslash
      /\ text[5] = Quote /\ text[6] = "[" /\ text[7] = Quote /\ text[8] = "}"
  BY EntryType DEF Entry
<1>2. /\ d.id # Quote /\ d.id # Backslash /\ Quote # Backslash
      /\ Quote # "[" /\ Backslash # "[" /\ Quote # "{" /\ Quote # "}" /\ "{" # "}" /\ "[" # "{"
  BY IdMark, MarkWords DEF Words
<1>3. (open = "{" /\ close = "}") \/ (open = "[" /\ close = "]")
  BY DEF Opens
<1>4. /\ 1 \in 1 .. 8 /\ 2 \in 1 .. 8 /\ 3 \in 1 .. 8 /\ 4 \in 1 .. 8
      /\ 5 \in 1 .. 8 /\ 6 \in 1 .. 8 /\ 7 \in 1 .. 8 /\ 8 \in 1 .. 8
  OBVIOUS
<1>6. /\ 0 \in Nat /\ 1 \in Nat /\ 2 \in Nat /\ 3 \in Nat /\ 4 \in Nat /\ 5 \in Nat /\ 6 \in Nat /\ 7 \in Nat
      /\ 1 = 0 + 1 /\ 2 = 1 + 1 /\ 3 = 2 + 1 /\ 4 = 3 + 1 /\ 5 = 4 + 1 /\ 6 = 5 + 1 /\ 7 = 6 + 1 /\ 8 = 7 + 1
  OBVIOUS
<1>7. n \in Int /\ n + 1 \in Int /\ n + 1 > 1 /\ (n + 1) - 1 = n
  OBVIOUS
<1>5. \E m \in Int : m > 0 /\ (open = "{" => m = n + 1) /\ (open # "{" => m = n)
  <2>1. CASE open = "{"
    <3>1. n + 1 > 0
      OBVIOUS
    <3>2. QED
      BY <1>7, <2>1, <3>1
  <2>2. CASE open # "{"
    <3>1. n > 0 /\ (open = "{" => n = n + 1) /\ (open # "{" => n = n)
      BY <2>2
    <3>2. QED
      BY <1>7, <3>1
  <2>3. QED
    BY <2>1, <2>2
<1>8. PICK m \in Int : m > 0 /\ (open = "{" => m = n + 1) /\ (open # "{" => m = n)
  BY <1>5
<1> HIDE DEF text
<1>10. Within(s, c, text, 0, open, close, n, FALSE, FALSE, cs)
  BY <1>1, WithinStart
<1>11. Within(s, c, text, 1, open, close, m, FALSE, FALSE, cs)
  <2>1. CASE open = "{"
    <3>1. m = n + 1 /\ text[1] = open
      BY <1>1, <1>8, <2>1
    <3>2. QED
      BY <1>1, <1>4, <1>6, <1>7, <1>10, <3>1, WithinText
  <2>2. CASE open = "["
    <3>1. m = n /\ text[1] \notin {Quote, open, close}
      BY <1>1, <1>2, <1>3, <1>8, <2>2, MarkWords DEF Words
    <3>2. QED
      BY <1>1, <1>4, <1>6, <1>7, <1>10, <3>1, WithinText
  <2>3. QED
    BY <1>3, <2>1, <2>2
<1>12. Within(s, c, text, 2, open, close, m, TRUE, FALSE, cs)
  BY <1>1, <1>4, <1>8, <1>6, <1>11, WithinText
<1>13. Within(s, c, text, 3, open, close, m, TRUE, FALSE, cs)
  BY <1>1, <1>2, <1>4, <1>8, <1>6, <1>12, WithinString
<1>14. Within(s, c, text, 4, open, close, m, TRUE, TRUE, cs)
  BY <1>1, <1>4, <1>8, <1>6, <1>13, WithinString
<1>15. Within(s, c, text, 5, open, close, m, TRUE, FALSE, cs)
  BY <1>1, <1>4, <1>8, <1>6, <1>14, WithinEscaped
<1>16. Within(s, c, text, 6, open, close, m, TRUE, FALSE, cs)
  BY <1>1, <1>2, <1>4, <1>8, <1>6, <1>15, WithinString
<1>17. Within(s, c, text, 7, open, close, m, FALSE, FALSE, cs)
  BY <1>1, <1>4, <1>8, <1>6, <1>16, WithinString
<1>18. Within(s, c, text, 8, open, close, n, FALSE, FALSE, cs)
  <2>1. CASE open = "{"
    <3>1. m > 1 /\ m - 1 = n /\ close = "}"
      BY <1>2, <1>3, <1>8, <1>7, <2>1
    <3>2. QED
      BY <1>1, <1>4, <1>8, <1>6, <1>17, <3>1, WithinText
  <2>2. CASE open = "["
    <3>1. m = n /\ text[8] \notin {Quote, open, close}
      BY <1>1, <1>2, <1>3, <1>8, <2>2, MarkWords DEF Words
    <3>2. QED
      BY <1>1, <1>4, <1>6, <1>8, <1>17, <3>1, WithinText
  <2>3. QED
    BY <1>3, <2>1, <2>2
<1>19. SubSeq(text, 1, 8) = text
  BY <1>1, WholePrefix
<1>20. QED
  BY <1>18, <1>19 DEF Within, At, text

\* A token that neither quotes nor counts, inside of a chunk.
LEMMA TextScan ==
  ASSUME NEW s \in ScanState(Tokens), NEW n \in Nat, n > 0, NEW c \in Seq(Tokens), c # <<>>,
         NEW cs, At(s, n, c, cs), NEW open, NEW close, NEW ch \in Tokens,
         ch \notin {Quote, open, close}
  PROVE  At(Scan(s, ch, open, close), n, Append(c, ch), cs)
<1> DEFINE t == Scan(s, ch, open, close)
<1>1. /\ s.depth = n /\ s.inString = FALSE /\ s.escaped = FALSE /\ s.chunk = c /\ s.chunks = cs
      /\ Grown(s, ch) = Append(c, ch)
  BY StateIs DEF At, Grown
<1>2. t.depth = n /\ t.chunk = Append(c, ch) /\ t.chunks = cs
  BY <1>1, ScanFields
<1>3. t.inString = FALSE
  BY <1>1, ScanFields
<1>4. ~t.escaped
  BY <1>1, ScanFields
<1>5. QED
  BY <1>2, <1>3, <1>4 DEF At

LEMMA OpenScan ==
  ASSUME NEW s \in ScanState(Tokens), NEW cs, At(s, 0, <<>>, cs), NEW open, NEW close, Opens(open, close)
  PROVE  At(Scan(s, open, open, close), 1, One(open), cs)
<1> DEFINE t == Scan(s, open, open, close)
<1>1. /\ s.depth = 0 /\ s.inString = FALSE /\ s.escaped = FALSE /\ s.chunk = <<>> /\ s.chunks = cs
      /\ open # close /\ open # Quote
  BY StateIs, MarkWords DEF At, Opens
<1>2. t.depth = 1 /\ t.chunk = One(open) /\ t.chunks = cs
  BY <1>1, ScanFields
<1>3. t.inString = FALSE
  BY <1>1, ScanFields
<1>4. ~t.escaped
  BY <1>1, ScanFields
<1>5. QED
  BY <1>2, <1>3, <1>4 DEF At

LEMMA CloseScan ==
  ASSUME NEW s \in ScanState(Tokens), NEW c \in Seq(Tokens), c # <<>>, NEW cs, At(s, 1, c, cs),
         NEW open, NEW close, Opens(open, close)
  PROVE  At(Scan(s, close, open, close), 0, <<>>, Append(cs, Append(c, close)))
<1> DEFINE t == Scan(s, close, open, close)
<1>1. /\ s.depth = 1 /\ s.inString = FALSE /\ s.escaped = FALSE /\ s.chunk = c /\ s.chunks = cs
      /\ Grown(s, close) = Append(c, close) /\ open # close /\ close # Quote
  BY StateIs, MarkWords DEF At, Opens, Grown
<1>2. t.depth = 0 /\ t.chunk = <<>> /\ t.chunks = Append(cs, Append(c, close))
  <2>1. s.chunk # <<>> /\ ~ (close = open) /\ 1 - 1 = 0
    BY <1>1
  <2>2. t.depth = s.depth - 1
    BY <1>1, <2>1, ScanFields
  <2>3. t.chunk = <<>>
    BY <1>1, <2>1, ScanFields
  <2>6. ~s.inString /\ ~s.escaped /\ s.depth = 1
    BY <1>1
  <2>7. t.chunks = IF (~s.inString /\ ~s.escaped) /\ close = close /\ s.depth = 1 /\ s.chunk # <<>>
                     THEN Append(s.chunks, Grown(s, close)) ELSE s.chunks
    BY ONLY ScanFields
  <2>4. t.chunks = Append(s.chunks, Grown(s, close))
    BY ONLY <2>1, <2>6, <2>7
  <2>5. QED
    BY <1>1, <2>1, <2>2, <2>3, <2>4
<1>3. t.inString = FALSE
  BY <1>1, ScanFields
<1>4. ~t.escaped
  BY <1>1, ScanFields
<1>5. QED
  BY <1>2, <1>3, <1>4 DEF At

EntryOf == [d \in Diagnostics |-> Entry(d)]

LEMMA EntryOfType == EntryOf \in [Diagnostics -> Seq(Marks)] /\ EntryOf \in [Diagnostics -> Seq(Tokens)]
BY EntryType DEF EntryOf

LEMMA EntriesIs ==
  ASSUME NEW ds \in Seq(Diagnostics)
  PROVE  Entries(ds) = FlattenSeq(Mapped(EntryOf, ds))
<1>1. [k \in DOMAIN ds |-> Entry(ds[k])] = Mapped(EntryOf, ds)
  <2>1. \A k \in DOMAIN ds : ds[k] \in Diagnostics
    OBVIOUS
  <2>2. QED
    BY <2>1 DEF Mapped, EntryOf
<1>2. QED
  BY <1>1 DEF Entries

LEMMA EntriesAppend ==
  ASSUME NEW ds \in Seq(Diagnostics), NEW d \in Diagnostics
  PROVE  Entries(Append(ds, d)) = Entries(ds) \o Entry(d)
<1>1. Mapped(EntryOf, ds) \in Seq(Seq(Tokens))
  BY EntryOfType, MappedType
<1>2. Mapped(EntryOf, Append(ds, d)) = Append(Mapped(EntryOf, ds), EntryOf[d])
  BY EntryOfType, MappedAppend
<1>5. EntryOf[d] = Entry(d)
  BY DEF EntryOf
<1>3. Append(ds, d) \in Seq(Diagnostics) /\ Entry(d) \in Seq(Tokens)
  BY EntryType
<1>4. FlattenSeq(Append(Mapped(EntryOf, ds), Entry(d))) = FlattenSeq(Mapped(EntryOf, ds)) \o Entry(d)
  BY <1>1, <1>3, FlattenAppend
<1>6. QED
  BY <1>2, <1>3, <1>4, <1>5, EntriesIs

LEMMA EntriesEmpty == Entries(<<>>) = <<>>
<1>1. <<>> \in Seq(Diagnostics)
  OBVIOUS
<1>2. QED
  BY <1>1, EntriesIs, MappedEmpty, FlattenEmpty

LEMMA EntriesType ==
  ASSUME NEW ds \in Seq(Diagnostics)
  PROVE  Entries(ds) \in Seq(Marks) /\ Entries(ds) \in Seq(Tokens)
<1>1. Mapped(EntryOf, ds) \in Seq(Seq(Marks)) /\ Mapped(EntryOf, ds) \in Seq(Seq(Tokens))
  BY EntryOfType, MappedType
<1>2. QED
  BY <1>1, EntriesIs, FlattenType

LEMMA Joined ==
  ASSUME NEW S, NEW a \in Seq(S), NEW b \in Seq(S), NEW c \in Seq(S)
  PROVE  /\ a \o b \in Seq(S) /\ a \o (b \o c) = a \o b \o c
         /\ a # <<>> => a \o b # <<>>
OBVIOUS

LEMMA EntriesScanned ==
  ASSUME NEW s \in ScanState(Tokens), NEW n \in Nat, n > 0, NEW c \in Seq(Tokens), c # <<>>,
         NEW cs, At(s, n, c, cs), NEW open, NEW close, Opens(open, close), NEW ds \in Seq(Diagnostics)
  PROVE  At(Scanned(s, Entries(ds), open, close), n, c \o Entries(ds), cs)
<1> DEFINE T == {es \in Seq(Diagnostics) : At(Scanned(s, Entries(es), open, close), n, c \o Entries(es), cs)}
<1>1. <<>> \in T
  <2>1. <<>> \in Seq(Diagnostics) /\ c \o <<>> = c
    OBVIOUS
  <2>2. QED
    BY <2>1, EntriesEmpty, ScannedEmpty
<1>2. ASSUME NEW es \in Seq(Diagnostics), NEW d \in Diagnostics, es \in T
      PROVE  Append(es, d) \in T
  <2> DEFINE a == Entries(es)
             b == Entry(d)
             t == Scanned(s, a, open, close)
             w == c \o a
  <2>1. /\ a \in Seq(Tokens) /\ b \in Seq(Tokens)
        /\ Append(es, d) \in Seq(Diagnostics) /\ Entries(Append(es, d)) = a \o b
    BY EntriesType, EntryType, EntriesAppend
  <2>2. At(t, n, w, cs)
    BY <1>2
  <2>3. t \in ScanState(Tokens)
    BY <2>1, ScannedType
  <2> HIDE DEF a, b
  <2>4. w \in Seq(Tokens) /\ w # <<>> /\ c \o (a \o b) = w \o b
    BY <2>1, Joined
  <2> HIDE DEF w
  <2>5. Scanned(s, a \o b, open, close) = Scanned(t, b, open, close)
    BY <2>1, ScannedConcat
  <2> HIDE DEF t
  <2>6. At(Scanned(t, b, open, close), n, w \o b, cs)
    BY <2>2, <2>3, <2>4, EntryScanned DEF b
  <2>7. QED
    BY <2>1, <2>4, <2>5, <2>6
<1>3. Seq(Diagnostics) \subseteq T
  BY <1>1, <1>2, AppendInduction
<1>4. QED
  BY <1>3

\* A document but for the bracket that closes it, and that bracket.
Open(format)  == IF format = "sarif" THEN "{" ELSE "["
Close(format) == IF format = "sarif" THEN "}" ELSE "]"
Prefix(format) == IF format = "sarif" THEN <<"{", Quote, "runs", Quote, "[", "results">> ELSE <<"[">>
Suffix(format) == IF format = "sarif" THEN <<"]">> ELSE <<>>
Body(format, ds) == Prefix(format) \o Entries(ds) \o Suffix(format)

LEMMA OpenClose ==
  ASSUME NEW format
  PROVE  /\ Opens(Open(format), Close(format))
         /\ Open(format) \in Marks /\ Close(format) \in Marks
BY MarkWords DEF Open, Close, Opens

Two(c, e)          == <<c, e>>
Six(a, q, c, e, r) == <<a, q, c, q, e, r>>

LEMMA OneType ==
  ASSUME NEW S, NEW a \in S
  PROVE  One(a) \in Seq(S) /\ One(a) # <<>> /\ Head(One(a)) = a
BY DEF One

LEMMA SixType ==
  ASSUME NEW S, NEW a \in S, NEW q \in S, NEW c \in S, NEW e \in S, NEW r \in S
  PROVE  Six(a, q, c, e, r) \in Seq(S) /\ Six(a, q, c, e, r) # <<>> /\ Head(Six(a, q, c, e, r)) = a
BY DEF Six

LEMMA AppendNone ==
  ASSUME NEW S, NEW a \in S
  PROVE  Append(<<>>, a) = One(a)
BY DEF One

LEMMA LastTwo ==
  ASSUME NEW S, NEW a \in Seq(S), NEW b \in Seq(S), NEW c \in S, NEW e \in S
  PROVE  /\ a \o b \o Two(c, e) = Append(a \o b \o One(c), e)
         /\ a \o b \o One(e) = Append(a \o b \o <<>>, e)
<1>1. a \o b \in Seq(S)
  OBVIOUS
<1> DEFINE w == a \o b
<1> HIDE DEF w
<1>2. w \in Seq(S)
  BY <1>1 DEF w
<1>3. w \o <<c, e>> = Append(w \o <<c>>, e) /\ w \o <<e>> = Append(w, e) /\ w \o <<>> = w
  BY <1>2
<1>4. QED
  BY <1>3 DEF One, Two, w

LEMMA PrefixType ==
  ASSUME NEW format
  PROVE  /\ Prefix(format) \in Seq(Marks) /\ Suffix(format) \in Seq(Marks)
         /\ Prefix(format) \in Seq(Words) /\ Suffix(format) \in Seq(Words)
         /\ Prefix(format) # <<>> /\ Head(Prefix(format)) = Open(format)
<1>1. /\ "{" \in Marks /\ "[" \in Marks /\ "]" \in Marks /\ Quote \in Marks /\ "runs" \in Marks /\ "results" \in Marks
  BY MarkWords
<1>2. /\ "{" \in Words /\ "[" \in Words /\ "]" \in Words /\ Quote \in Words /\ "runs" \in Words /\ "results" \in Words
  BY DEF Words
<1>3. CASE format = "sarif"
  <2>4. Six("{", Quote, "runs", "[", "results") \in Seq(Marks)
    BY ONLY <1>1, SixType
  <2>6. \A a, q, c, e, r \in Marks : Six(a, q, c, e, r) # <<>> /\ Head(Six(a, q, c, e, r)) = a
    BY ONLY SixType
  <2>7. Six("{", Quote, "runs", "[", "results") # <<>> /\ Head(Six("{", Quote, "runs", "[", "results")) = "{"
    <3>1. PICK a, q, c, e, r \in Marks : a = "{" /\ q = Quote /\ c = "runs" /\ e = "[" /\ r = "results"
      BY ONLY <1>1
    <3>2. Six(a, q, c, e, r) # <<>> /\ Head(Six(a, q, c, e, r)) = a
      BY ONLY <2>6
    <3>3. QED
      BY ONLY <3>1, <3>2
  <2>5. Six("{", Quote, "runs", "[", "results") \in Seq(Words)
    BY ONLY <1>2, SixType
  <2>1. Six("{", Quote, "runs", "[", "results") = <<"{", Quote, "runs", Quote, "[", "results">>
    BY DEF Six
  <2>2. One("]") \in Seq(Marks) /\ One("]") \in Seq(Words)
    BY <1>1, <1>2, OneType
  <2>3. QED
    BY <1>3, <2>1, <2>2, <2>4, <2>5, <2>7 DEF Prefix, Suffix, Open, One
<1>4. CASE format # "sarif"
  <2> DEFINE t == One("[")
  <2>1. t \in Seq(Marks) /\ t \in Seq(Words) /\ t # <<>> /\ Head(t) = "["
    BY <1>1, <1>2, OneType
  <2>2. <<>> \in Seq(Marks) /\ <<>> \in Seq(Words)
    OBVIOUS
  <2>3. QED
    BY <1>4, <2>1, <2>2 DEF Prefix, Suffix, Open, One
<1>5. QED
  BY <1>3, <1>4

LEMMA BodyType ==
  ASSUME NEW format, NEW ds \in Seq(Diagnostics)
  PROVE  /\ Body(format, ds) \in Seq(Marks) /\ Body(format, ds) # <<>>
         /\ Head(Body(format, ds)) = Open(format)
<1>1. Entries(ds) \in Seq(Marks)
  BY EntriesType
<1>2. QED
  BY <1>1, PrefixType DEF Body

LEMMA DocumentIs ==
  ASSUME NEW format \in {"json", "sarif"}, NEW ds \in Seq(Diagnostics)
  PROVE  /\ Document(format, ds) = Append(Body(format, ds), Close(format))
         /\ Front(Document(format, ds)) = Body(format, ds)
         /\ Last(Document(format, ds)) = Close(format)
         /\ Document(format, ds) \in Seq(Marks)
<1>2. /\ Prefix(format) \in Seq(Marks) /\ Entries(ds) \in Seq(Marks)
      /\ "]" \in Marks /\ "}" \in Marks
  BY PrefixType, EntriesType, MarkWords
<1> DEFINE p == Prefix(format)
           m == Entries(ds)
<1> HIDE DEF p, m
<1>7. p \in Seq(Marks) /\ m \in Seq(Marks)
  BY <1>2 DEF p, m
<1>8. "]" \in Marks /\ "}" \in Marks
  BY <1>2
<1>9. \A c, e \in Marks : /\ p \o m \o Two(c, e) = Append(p \o m \o One(c), e)
                         /\ p \o m \o One(e) = Append(p \o m \o <<>>, e)
  BY ONLY <1>7, LastTwo
<1>10. /\ p \o m \o Two("]", "}") = Append(p \o m \o One("]"), "}")
       /\ p \o m \o One("]") = Append(p \o m \o <<>>, "]")
  BY ONLY <1>8, <1>9
<1>1. /\ Prefix(format) \o Entries(ds) \o Two("]", "}") = Append(Prefix(format) \o Entries(ds) \o One("]"), "}")
      /\ Prefix(format) \o Entries(ds) \o One("]") = Append(Prefix(format) \o Entries(ds) \o <<>>, "]")
  BY <1>10 DEF p, m
<1>3. Document(format, ds) = Append(Body(format, ds), Close(format))
  <2>1. CASE format = "sarif"
    <3>1. Document(format, ds) = Prefix(format) \o Entries(ds) \o Two("]", "}")
      BY <2>1 DEF Document, Prefix, Two
    <3>2. Body(format, ds) = Prefix(format) \o Entries(ds) \o One("]")
      BY <2>1 DEF Body, Suffix, One
    <3>3. QED
      BY <1>1, <2>1, <3>1, <3>2 DEF Close
  <2>2. CASE format = "json"
    <3>1. Document(format, ds) = Prefix(format) \o Entries(ds) \o One("]")
      BY <2>2 DEF Document, Prefix, One
    <3>2. Body(format, ds) = Prefix(format) \o Entries(ds) \o <<>>
      BY <2>2 DEF Body, Suffix
    <3>3. QED
      BY <1>1, <2>2, <3>1, <3>2 DEF Close
  <2>3. QED
    BY <2>1, <2>2
<1>4. Body(format, ds) \in Seq(Marks) /\ Close(format) \in Marks
  BY BodyType, OpenClose
<1>5. ASSUME NEW S, NEW a \in Seq(S), NEW e \in S
      PROVE  Front(Append(a, e)) = a /\ Last(Append(a, e)) = e /\ Append(a, e) \in Seq(S)
  BY DEF Front, Last
<1>6. QED
  BY <1>3, <1>4, <1>5

LEMMA PrefixScanned ==
  ASSUME NEW s \in ScanState(Tokens), NEW cs, At(s, 0, <<>>, cs), NEW format
  PROVE  At(Scanned(s, Prefix(format), Open(format), Close(format)), 1, Prefix(format), cs)
<1> DEFINE open  == Open(format)
           close == Close(format)
<1>1. Opens(open, close)
  BY OpenClose
<1>2. At(Scan(s, open, open, close), 1, One(open), cs)
  BY <1>1, OpenScan
<1>3. CASE format # "sarif"
  <2>1. Prefix(format) = One(open)
    BY <1>3 DEF Prefix, One, Open
  <2>2. Scanned(s, One(open), open, close) = Scan(s, open, open, close)
    BY ScannedOne DEF One
  <2>3. QED
    BY <1>2, <2>1, <2>2
<1>4. CASE format = "sarif"
  <2> DEFINE text == Prefix(format)
             none == <<>>
  <2>1. /\ Len(text) = 6 /\ text[1] = open
        /\ text[2] = Quote /\ text[3] = "runs" /\ text[4] = Quote /\ text[5] = "[" /\ text[6] = "results"
    BY <1>4 DEF Prefix, Open
  <2>2. text \in Seq(Tokens) /\ open \in Tokens /\ none \in Seq(Tokens)
    <3>1. text \in Seq(Marks) /\ open \in Marks
      BY PrefixType, OpenClose
    <3>2. Marks \subseteq Tokens /\ text \in Seq(Tokens)
      BY <3>1, MarksType, MarkWords
    <3>3. QED
      BY <3>1, <3>2
  <2>3. /\ "runs" # Quote /\ "runs" # Backslash /\ "results" \notin {Quote, open, close} /\ "[" \notin {Quote, open, close}
        /\ Quote # Backslash
    BY <1>4, MarkWords DEF Open, Close, Quote, Backslash
  <2>4. /\ 1 \in 1 .. 6 /\ 2 \in 1 .. 6 /\ 3 \in 1 .. 6 /\ 4 \in 1 .. 6 /\ 5 \in 1 .. 6 /\ 6 \in 1 .. 6
        /\ 1 \in Nat /\ 2 \in Nat /\ 3 \in Nat /\ 4 \in Nat /\ 5 \in Nat /\ 1 \in Int /\ 1 > 0
        /\ 1 = 0 + 1 /\ 2 = 1 + 1 /\ 3 = 2 + 1 /\ 4 = 3 + 1 /\ 5 = 4 + 1 /\ 6 = 5 + 1
    OBVIOUS
  <2>5. SubSeq(text, 1, 1) = Append(none, open) /\ Append(none, open) = One(open)
    <3>1. 0 \in 0 .. Len(text) - 1 /\ 0 + 1 = 1
      BY <2>1
    <3>2. SubSeq(text, 1, 0 + 1) = Append(SubSeq(text, 1, 0), text[0 + 1]) /\ SubSeq(text, 1, 0) = <<>>
      BY <2>2, <3>1, Longer, WholePrefix
    <3>3. Append(none, open) = One(open)
      BY <2>2, AppendNone
    <3> HIDE DEF text, open, none
    <3>4. QED
      BY <2>1, <3>1, <3>2, <3>3 DEF none
  <2>6. Scanned(s, SubSeq(text, 1, 1), open, close) = Scan(s, open, open, close)
    BY <2>5, ScannedOne DEF One
  <2>7. Scan(s, open, open, close) \in ScanState(Tokens)
    BY <2>2, ScanType
  <2>8. none \o SubSeq(text, 1, 1) = One(open) /\ One(open) # <<>>
    <3>1. One(open) \in Seq(Tokens) /\ One(open) # <<>>
      BY <2>2, OneType
    <3>2. \A o \in Seq(Tokens) : <<>> \o o = o
      OBVIOUS
    <3>3. QED
      BY <2>5, <3>1, <3>2
  <2>9. SubSeq(text, 1, 6) = text /\ none \o SubSeq(text, 1, 6) = text
    BY <2>1, <2>2, WholePrefix
  <2> HIDE DEF text, none, open, close
  <2>10. Within(s, none, text, 1, open, close, 1, FALSE, FALSE, cs)
    <3>1. LET t == Scan(s, open, open, close)
          IN  t.depth = 1 /\ t.inString = FALSE /\ t.escaped = FALSE /\ t.chunk = One(open) /\ t.chunks = cs
      BY <1>2, <2>7, StateIs DEF At
    <3>2. QED
      BY <2>6, <2>8, <3>1 DEF Within
  <2>11. Within(s, none, text, 2, open, close, 1, TRUE, FALSE, cs)
    BY <1>1, <2>1, <2>2, <2>4, <2>10, WithinText
  <2>12. Within(s, none, text, 3, open, close, 1, TRUE, FALSE, cs)
    BY <1>1, <2>1, <2>2, <2>3, <2>4, <2>11, WithinString
  <2>13. Within(s, none, text, 4, open, close, 1, FALSE, FALSE, cs)
    BY <1>1, <2>1, <2>2, <2>4, <2>12, WithinString
  <2>14. Within(s, none, text, 5, open, close, 1, FALSE, FALSE, cs)
    BY <1>1, <2>1, <2>2, <2>3, <2>4, <2>13, WithinText
  <2>15. Within(s, none, text, 6, open, close, 1, FALSE, FALSE, cs)
    BY <1>1, <2>1, <2>2, <2>3, <2>4, <2>14, WithinText
  <2>16. At(Scanned(s, text, open, close), 1, text, cs)
    BY <2>9, <2>15 DEF Within, At
  <2>17. QED
    BY <2>16 DEF text, open, close
<1>5. QED
  BY <1>3, <1>4

\* The first line of a document: all of it but the closing bracket.
LEMMA BodyScanned ==
  ASSUME NEW s \in ScanState(Tokens), NEW cs, At(s, 0, <<>>, cs), NEW format,
         NEW ds \in Seq(Diagnostics)
  PROVE  LET body == Body(format, ds)
         IN  At(Scanned(s, Append(body, Newline), Open(format), Close(format)), 1, Append(body, Newline), cs)
<1> DEFINE open  == Open(format)
           close == Close(format)
           p == Prefix(format)
           m == Entries(ds)
           q == Suffix(format)
           pm == p \o m
           body == pm \o q
           s1 == Scanned(s, p, open, close)
           s2 == Scanned(s1, m, open, close)
           s3 == Scanned(s2, q, open, close)
<1>1. Opens(open, close)
  BY OpenClose
<1>2. p \in Seq(Tokens) /\ p # <<>> /\ m \in Seq(Tokens) /\ q \in Seq(Tokens) /\ Newline \in Tokens
  <2>1. p \in Seq(Marks) /\ p # <<>> /\ m \in Seq(Tokens) /\ q \in Seq(Marks)
    BY PrefixType, EntriesType
  <2>2. QED
    BY <2>1, MarksType, MarkWords
<1>3. At(s1, 1, p, cs)
  BY PrefixScanned
<1>4. body = Body(format, ds)
  BY DEF Body
<1>5. q = <<>> \/ (q = One("]") /\ "]" \notin {Quote, open, close} /\ "]" \in Tokens)
  BY MarkWords DEF Suffix, One, Open, Close
<1>6. Newline \notin {Quote, open, close}
  BY DEF Newline, Quote, Open, Close
<1> HIDE DEF open, close, p, m, q
<1>7. s1 \in ScanState(Tokens)
  BY <1>2, ScannedType
<1>8. s2 \in ScanState(Tokens)
  BY <1>2, <1>7, ScannedType
<1>9. s3 \in ScanState(Tokens)
  BY <1>2, <1>8, ScannedType
<1>10. pm \in Seq(Tokens) /\ pm # <<>> /\ body \in Seq(Tokens) /\ body # <<>>
  BY <1>2
<1>11. s3 = Scanned(s, body, open, close)
  <2>1. Scanned(s, pm, open, close) = s2
    BY <1>2, ScannedConcat
  <2> HIDE DEF pm
  <2>2. Scanned(s, pm \o q, open, close) = Scanned(Scanned(s, pm, open, close), q, open, close)
    BY <1>2, <1>10, ScannedConcat
  <2>3. QED
    BY <2>1, <2>2
<1> HIDE DEF s1
<1>12. At(s2, 1, pm, cs)
  <2>1. 1 \in Nat /\ 1 > 0
    OBVIOUS
  <2>2. QED
    BY <1>1, <1>2, <1>3, <1>7, <2>1, EntriesScanned DEF m
<1> HIDE DEF s2, pm
<1>13. At(s3, 1, body, cs)
  <2>1. CASE q = <<>>
    <3>1. s3 = s2 /\ body = pm
      BY <1>10, <2>1, ScannedEmpty
    <3>2. QED
      BY <1>12, <3>1
  <2>2. CASE q = One("]") /\ "]" \notin {Quote, open, close} /\ "]" \in Tokens
    <3>1. s3 = Scan(s2, "]", open, close)
      BY <2>2, ScannedOne DEF One
    <3>2. body = Append(pm, "]")
      BY <1>10, <2>2 DEF One
    <3>3. 1 \in Nat /\ 1 > 0
      OBVIOUS
    <3>4. At(Scan(s2, "]", open, close), 1, Append(pm, "]"), cs)
      BY <1>8, <1>10, <1>12, <2>2, <3>3, TextScan
    <3>5. QED
      BY <3>1, <3>2, <3>4
  <2>3. QED
    BY <1>5, <2>1, <2>2
<1> HIDE DEF s3, body
<1>14. Scanned(s, Append(body, Newline), open, close) = Scan(s3, Newline, open, close)
  BY <1>2, <1>10, <1>11, ScannedAppend
<1>15. At(Scan(s3, Newline, open, close), 1, Append(body, Newline), cs)
  <2>1. 1 \in Nat /\ 1 > 0
    OBVIOUS
  <2>2. QED
    BY <1>2, <1>6, <1>9, <1>10, <1>13, <2>1, TextScan
<1>16. QED
  BY <1>4, <1>14, <1>15 DEF open, close

\* The second line: the bracket that ends the chunk.
LEMMA CloseScanned ==
  ASSUME NEW s \in ScanState(Tokens), NEW c \in Seq(Tokens), c # <<>>, NEW cs \in Seq(Seq(Tokens)),
         At(s, 1, c, cs), NEW format
  PROVE  LET close == Close(format)
         IN  At(Scanned(s, Append(One(close), Newline), Open(format), close), 0, <<>>, Append(cs, Append(c, close)))
<1> DEFINE open  == Open(format)
           close == Close(format)
           t == Scan(s, close, open, close)
           ds == Append(cs, Append(c, close))
<1>1. Opens(open, close) /\ close \in Tokens /\ Newline \in Tokens
  BY OpenClose, MarkWords
<1>2. Newline # Quote /\ Newline # open /\ Newline # close
  BY DEF Newline, Quote, Open, Close
<1> HIDE DEF open, close
<1>3. At(t, 0, <<>>, ds)
  BY <1>1, CloseScan
<1>4. t \in ScanState(Tokens)
  BY <1>1, ScanType
<1>5. One(close) \in Seq(Tokens) /\ Scanned(s, One(close), open, close) = t
  BY <1>1, OneType, ScannedOne DEF One
<1>6. Scanned(s, Append(One(close), Newline), open, close) = Scan(t, Newline, open, close)
  BY <1>1, <1>5, ScannedAppend
<1> HIDE DEF t, ds
<1>7. At(t, 0, <<>>, t.chunks)
  BY <1>3 DEF At
<1>8. Scan(t, Newline, open, close) = t
  BY <1>1, <1>2, <1>4, <1>7, QuietScan
<1>9. QED
  BY <1>3, <1>6, <1>8 DEF ds, open, close

-----------------------------------------------------------------------------
(* Lines and what is read from them.                                       *)

Said    == Diagnostics \cup {None}
LineSet == [text : Seq(Tokens), noise : BOOLEAN, states : Said, cmake : Said]

LEMMA LineFields ==
  ASSUME NEW l \in LineSet
  PROVE  l.text \in Seq(Tokens) /\ l.noise \in BOOLEAN /\ l.states \in Said /\ l.cmake \in Said
BY DEF LineSet

LEMMA LineIs ==
  ASSUME NEW text \in Seq(Tokens)
  PROVE  /\ Line(text) \in LineSet
         /\ Line(text).text = text /\ Line(text).noise = FALSE
         /\ Line(text).states = None /\ Line(text).cmake = None
BY DEF Line, LineSet, Said

LEMMA NoiseIs ==
  ASSUME NEW text \in Seq(Tokens)
  PROVE  /\ Noise(text) \in LineSet
         /\ Noise(text).text = text /\ Noise(text).noise = TRUE
         /\ Noise(text).states = None /\ Noise(text).cmake = None
BY DEF Noise, Line, LineSet, Said

LEMMA PlainLineIs ==
  ASSUME NEW d \in Diagnostics
  PROVE  /\ PlainLine(d) \in LineSet
         /\ PlainLine(d).text = One("words") /\ PlainLine(d).noise = FALSE
         /\ PlainLine(d).states = d /\ PlainLine(d).cmake = None
<1>1. One("words") \in Seq(Tokens)
  <2>1. "words" \in Tokens
    BY MarkWords
  <2>2. QED
    BY <2>1, OneType
<1>2. QED
  BY <1>1 DEF PlainLine, Line, LineSet, Said, One

LEMMA CMakeLineIs ==
  ASSUME NEW text \in Seq(Tokens), NEW d \in Diagnostics
  PROVE  /\ CMakeLine(text, d) \in LineSet
         /\ CMakeLine(text, d).text = text /\ CMakeLine(text, d).noise = FALSE
         /\ CMakeLine(text, d).states = None /\ CMakeLine(text, d).cmake = d
BY DEF CMakeLine, Line, LineSet, Said

TextOf == [l \in LineSet |-> Append(l.text, Newline)]

LEMMA LineText ==
  ASSUME NEW l \in LineSet
  PROVE  Append(l.text, Newline) \in Seq(Tokens)
<1>1. l.text \in Seq(Tokens) /\ Newline \in Tokens
  BY LineFields, MarkWords
<1>2. QED
  BY <1>1

LEMMA TextOfType == TextOf \in [LineSet -> Seq(Tokens)]
BY LineText DEF TextOf

LEMMA TextIs ==
  ASSUME NEW s \in Seq(LineSet)
  PROVE  Text(s) = FlattenSeq(Mapped(TextOf, s)) /\ Mapped(TextOf, s) \in Seq(Seq(Tokens))
<1>1. [k \in DOMAIN s |-> Append(s[k].text, Newline)] = Mapped(TextOf, s)
  <2>1. \A k \in DOMAIN s : s[k] \in LineSet
    OBVIOUS
  <2>2. QED
    BY <2>1 DEF Mapped, TextOf
<1>2. QED
  BY <1>1, TextOfType, MappedType DEF Text

LEMMA TextType ==
  ASSUME NEW s \in Seq(LineSet)
  PROVE  Text(s) \in Seq(Tokens)
BY TextIs, FlattenType

LEMMA TextEmpty == Text(<<>>) = <<>>
<1>1. <<>> \in Seq(LineSet)
  OBVIOUS
<1>2. QED
  BY <1>1, TextIs, MappedEmpty, FlattenEmpty

LEMMA TextConcat ==
  ASSUME NEW s \in Seq(LineSet), NEW t \in Seq(LineSet)
  PROVE  Text(s \o t) = Text(s) \o Text(t)
<1> DEFINE a == Mapped(TextOf, s)
           b == Mapped(TextOf, t)
<1>1. a \in Seq(Seq(Tokens)) /\ b \in Seq(Seq(Tokens))
  BY TextIs
<1>2. Mapped(TextOf, s \o t) = a \o b
  BY MappedConcat
<1>3. s \o t \in Seq(LineSet)
  OBVIOUS
<1>4. Text(s) = FlattenSeq(a) /\ Text(t) = FlattenSeq(b) /\ Text(s \o t) = FlattenSeq(a \o b)
  BY <1>2, <1>3, TextIs
<1> HIDE DEF a, b
<1>5. QED
  BY <1>1, <1>4, FlattenConcat

LEMMA TextAppend ==
  ASSUME NEW s \in Seq(LineSet), NEW l \in LineSet
  PROVE  Text(Append(s, l)) = Text(s) \o Append(l.text, Newline)
<1> DEFINE a == Mapped(TextOf, s)
           b == Append(l.text, Newline)
<1>1. a \in Seq(Seq(Tokens)) /\ b \in Seq(Tokens)
  BY TextIs, LineText
<1>2. Mapped(TextOf, Append(s, l)) = Append(a, b)
  <2>1. Mapped(TextOf, Append(s, l)) = Append(a, TextOf[l])
    BY MappedAppend
  <2>2. QED
    BY <2>1 DEF TextOf
<1>3. Append(s, l) \in Seq(LineSet)
  OBVIOUS
<1>4. Text(s) = FlattenSeq(a) /\ Text(Append(s, l)) = FlattenSeq(Append(a, b))
  BY <1>2, <1>3, TextIs
<1> HIDE DEF a, b
<1>5. Text(Append(s, l)) = Text(s) \o b
  BY <1>1, <1>4, FlattenAppend
<1>6. QED
  BY <1>5 DEF b

\* Lines that are left when the noise is stripped.
Silent == {l \in LineSet : ~l.noise}

LEMMA StripIs ==
  ASSUME NEW s \in Seq(LineSet)
  PROVE  stripNinjaNoise(s) = Only(Silent, s) /\ stripNinjaNoise(s) \in Seq(LineSet)
<1>1. {k \in DOMAIN s : ~s[k].noise} = {k \in DOMAIN s : s[k] \in Silent}
  BY DEF Silent
<1>2. stripNinjaNoise(s) = Only(Silent, s)
  BY <1>1 DEF stripNinjaNoise, Only
<1>3. Only(Silent, s) \in Seq(LineSet \cap Silent)
  BY OnlyType
<1>4. QED
  BY <1>2, <1>3

LEMMA StripConcat ==
  ASSUME NEW s \in Seq(LineSet), NEW t \in Seq(LineSet)
  PROVE  stripNinjaNoise(s \o t) = stripNinjaNoise(s) \o stripNinjaNoise(t)
<1>1. s \o t \in Seq(LineSet) /\ Only(Silent, s \o t) = Only(Silent, s) \o Only(Silent, t)
  BY OnlyConcat
<1>2. QED
  BY <1>1, StripIs

LEMMA StripMeets ==
  ASSUME NEW s \in Seq(LineSet), NEW V
  PROVE  Meets(V, stripNinjaNoise(s)) <=> Meets(V \cap Silent, s)
BY StripIs, OnlyMeets

\* What the RegexParser and the parser of CMake's messages read.
Stating  == {l \in LineSet : l.states # None}
StatesOf == [l \in LineSet |-> l.states]
CMakes   == {l \in LineSet : l.cmake # None}
CMakeOf  == [l \in LineSet |-> l.cmake]

LEMMA StatedIs ==
  ASSUME NEW s \in Seq(LineSet)
  PROVE  Stated(s) = Chosen(Stating, StatesOf, s) /\ Stated(s) \in Seq(Diagnostics)
<1> DEFINE ls == Kept(s, {k \in DOMAIN s : s[k].states # None})
<1>1. {k \in DOMAIN s : s[k].states # None} = {k \in DOMAIN s : s[k] \in Stating}
  BY DEF Stating
<1>2. ls = Only(Stating, s) /\ Only(Stating, s) \in Seq(LineSet \cap Stating)
  BY <1>1, OnlyType DEF Only
<1> HIDE DEF ls
<1>3. \A k \in DOMAIN ls : ls[k] \in LineSet /\ ls[k].states \in Diagnostics /\ ls[k].states = StatesOf[ls[k]]
  BY <1>2, LineFields DEF Stating, Said, StatesOf
<1>4. [k \in DOMAIN ls |-> ls[k].states] = Mapped(StatesOf, ls)
  BY <1>3 DEF Mapped
<1>5. Stated(s) = [k \in DOMAIN ls |-> ls[k].states]
  BY DEF Stated, ls
<1>6. Stated(s) \in Seq(Diagnostics)
  BY <1>2, <1>3, <1>5
<1>7. QED
  BY <1>2, <1>4, <1>5, <1>6 DEF Chosen

LEMMA CMakeDiagnosticsIs ==
  ASSUME NEW s \in Seq(LineSet)
  PROVE  CMakeDiagnostics(s) = Chosen(CMakes, CMakeOf, s) /\ CMakeDiagnostics(s) \in Seq(Diagnostics)
<1> DEFINE ls == Kept(s, {k \in DOMAIN s : s[k].cmake # None})
<1>1. {k \in DOMAIN s : s[k].cmake # None} = {k \in DOMAIN s : s[k] \in CMakes}
  BY DEF CMakes
<1>2. ls = Only(CMakes, s) /\ Only(CMakes, s) \in Seq(LineSet \cap CMakes)
  BY <1>1, OnlyType DEF Only
<1> HIDE DEF ls
<1>3. \A k \in DOMAIN ls : ls[k] \in LineSet /\ ls[k].cmake \in Diagnostics /\ ls[k].cmake = CMakeOf[ls[k]]
  BY <1>2, LineFields DEF CMakes, Said, CMakeOf
<1>4. [k \in DOMAIN ls |-> ls[k].cmake] = Mapped(CMakeOf, ls)
  BY <1>3 DEF Mapped
<1>5. CMakeDiagnostics(s) = [k \in DOMAIN ls |-> ls[k].cmake]
  BY DEF CMakeDiagnostics, ls
<1>6. CMakeDiagnostics(s) \in Seq(Diagnostics)
  BY <1>2, <1>3, <1>5
<1>7. QED
  BY <1>2, <1>4, <1>5, <1>6 DEF Chosen

LEMMA StatedConcat ==
  ASSUME NEW s \in Seq(LineSet), NEW t \in Seq(LineSet)
  PROVE  Stated(s \o t) = Stated(s) \o Stated(t)
<1>1. s \o t \in Seq(LineSet)
  OBVIOUS
<1>2. Chosen(Stating, StatesOf, s \o t) = Chosen(Stating, StatesOf, s) \o Chosen(Stating, StatesOf, t)
  BY ChosenConcat
<1>3. QED
  BY <1>1, <1>2, StatedIs

LEMMA CMakeDiagnosticsConcat ==
  ASSUME NEW s \in Seq(LineSet), NEW t \in Seq(LineSet)
  PROVE  CMakeDiagnostics(s \o t) = CMakeDiagnostics(s) \o CMakeDiagnostics(t)
<1>1. s \o t \in Seq(LineSet)
  OBVIOUS
<1>2. Chosen(CMakes, CMakeOf, s \o t) = Chosen(CMakes, CMakeOf, s) \o Chosen(CMakes, CMakeOf, t)
  BY ChosenConcat
<1>3. QED
  BY <1>1, <1>2, CMakeDiagnosticsIs

LEMMA StatedNone ==
  ASSUME NEW s \in Seq(LineSet), \A k \in DOMAIN s : s[k].states = None
  PROVE  Stated(s) = <<>>
<1>1. \A k \in DOMAIN s : s[k] \notin Stating
  BY DEF Stating
<1>2. QED
  BY <1>1, StatedIs, ChosenNone

LEMMA CMakeDiagnosticsNone ==
  ASSUME NEW s \in Seq(LineSet), \A k \in DOMAIN s : s[k].cmake = None
  PROVE  CMakeDiagnostics(s) = <<>>
<1>1. \A k \in DOMAIN s : s[k] \notin CMakes
  BY DEF CMakes
<1>2. QED
  BY <1>1, CMakeDiagnosticsIs, ChosenNone

-----------------------------------------------------------------------------
(* What the parsers return.                                                *)

LEMMA StructuredType ==
  ASSUME NEW s \in Seq(LineSet), NEW t \in Seq(LineSet)
  PROVE  /\ StructuredInput(s, t) \in Seq(LineSet)
         /\ StructuredInput(s, t) \in {stripNinjaNoise(s), stripNinjaNoise(t), <<>>}
<1>1. <<>> \in Seq(LineSet)
  OBVIOUS
<1>2. QED
  BY <1>1, StripIs DEF StructuredInput

LEMMA SplitType ==
  ASSUME NEW s \in Seq(LineSet), NEW open, NEW close
  PROVE  Split(s, open, close) \in Seq(Seq(Tokens))
<1>1. Text(s) \in Seq(Tokens)
  BY TextType
<1>2. Scanning \in ScanState(Tokens)
  BY ScanningType
<1>3. Scanned(Scanning, Text(s), open, close) \in ScanState(Tokens)
  BY <1>1, <1>2, ScannedType
<1>4. QED
  BY <1>3, StateIs DEF Split

Json(chunk) == Kept(chunk, {k \in DOMAIN chunk : chunk[k] # Newline})
Reads(chunk, target, dialect, known) ==
  {ds \in known : Json(chunk) = Document(Piece(target, dialect), ds)}
Empty == {<<"[", "]">>, <<"{", "}">>}

\* What a document says: one of known, as it was read.
First(chunk, target, dialect, known) ==
  CHOOSE ds \in known : ds \in Reads(chunk, target, dialect, known)
Meaning(target, dialect, known) ==
  [chunk \in Seq(Tokens) |-> IF Reads(chunk, target, dialect, known) = {} THEN <<>>
                             ELSE Read(target, dialect, First(chunk, target, dialect, known))]

LEMMA JsonIs ==
  ASSUME NEW chunk \in Seq(Tokens)
  PROVE  Json(chunk) = Only(Marks, chunk)
<1>1. {k \in DOMAIN chunk : chunk[k] # Newline} = {k \in DOMAIN chunk : chunk[k] \in Marks}
  BY DEF Marks
<1>2. QED
  BY <1>1 DEF Json, Only

\* What a parser of target can make of documents in dialect.
Misreadings == {Misread(d) : d \in Diagnostics}
Results(target, dialect) ==
  IF target = dialect THEN Diagnostics ELSE IF dialect = "sarif" THEN {Blank} ELSE Misreadings

\* Whatever may be made of d.
Same(d) == {r \in Readings : r.id = d.id}

\* Of the diagnostics it is d alone.
LEMMA SameOnly ==
  ASSUME NEW d \in Diagnostics, NEW ds \in Seq(Diagnostics)
  PROVE  /\ Meets(Same(d), ds) => Meets({d}, ds)
         /\ OnceIn({d}, ds) => OnceIn(Same(d), ds)
<1>1. \A e \in Diagnostics : e \in Same(d) => e = d
  BY SaidAssumption DEF Same
<1>2. \A k \in DOMAIN ds : ds[k] \in Diagnostics
  OBVIOUS
<1>3. QED
  BY <1>1, <1>2 DEF Meets, OnceIn

LEMMA ResultsType ==
  ASSUME NEW target, NEW dialect
  PROVE  Results(target, dialect) \subseteq Readings /\ Diagnostics \subseteq Readings
BY DEF Results, Readings, Misreadings

\* Every diagnostic that a parser makes of a document is that of one in it, or
\* blank, in the order of the document.
LEMMA ReadIs ==
  ASSUME NEW target, NEW dialect, NEW ds \in Seq(Diagnostics)
  PROVE  LET rs == Read(target, dialect, ds)
         IN  /\ target = dialect => rs = ds
             /\ rs \in Seq(Results(target, dialect))
             /\ \A d \in Diagnostics : /\ Meets(Same(d), rs) => Meets({d}, ds)
                                       /\ OnceIn({d}, ds) => OnceIn(Same(d), rs)
<1> DEFINE rs == Read(target, dialect, ds)
           N  == {e \in Diagnostics : e.severity # "note"}
           top == TopLevel(dialect, ds)
           F  == [e \in Diagnostics |-> Misread(e)]
           V(d) == Same(d)
<1>1. /\ top \in Seq(Diagnostics)
      /\ \A W : (Meets(W, top) => Meets(W, ds)) /\ (OnceIn(W, ds) => OnceIn(W, top))
  <2>1. CASE dialect = "gcc"
    <3>1. {k \in DOMAIN ds : ds[k].severity # "note"} = {k \in DOMAIN ds : ds[k] \in N}
      OBVIOUS
    <3>2. top = Only(N, ds)
      BY <2>1, <3>1 DEF TopLevel, Only
    <3> HIDE DEF N
    <3>3. Only(N, ds) \in Seq(Diagnostics \cap N)
      BY OnlyType
    <3>4. \A W : Meets(W, Only(N, ds)) <=> Meets(W \cap N, ds)
      BY OnlyMeets
    <3>5. \A W : Meets(W \cap N, ds) => Meets(W, ds)
      BY DEF Meets
    <3>6. \A W : OnceIn(W, ds) => OnceIn(W, Only(N, ds))
      BY OnlyOnce
    <3> HIDE DEF top
    <3>7. top \in Seq(Diagnostics)
      BY <3>2, <3>3
    <3>8. QED
      BY <3>2, <3>4, <3>5, <3>6, <3>7
  <2>2. CASE dialect # "gcc"
    BY <2>2 DEF TopLevel
  <2>3. QED
    BY <2>1, <2>2
<1>2. \A d, e \in Diagnostics : (e \in V(d) <=> e = d) /\ (F[e] \in V(d) <=> e = d) /\ F[e] \in Misreadings
  BY SaidAssumption DEF Misread, Readings, Misreadings, Same
<1>3. \A d \in Diagnostics : Blank \notin V(d)
  BY SaidAssumption DEF Same
<1>4. CASE target = dialect
  <2>1. rs = ds
    BY <1>4 DEF Read
  <2>2. \A d \in Diagnostics : (Meets(V(d), ds) => Meets({d}, ds)) /\ (OnceIn({d}, ds) => OnceIn(V(d), ds))
    BY SameOnly
  <2>3. ds \in Seq(Results(target, dialect))
    BY <1>4 DEF Results
  <2> HIDE DEF rs
  <2>4. QED
    BY <2>1, <2>2, <2>3 DEF rs
<1>5. CASE target # dialect /\ dialect = "sarif"
  <2>1. rs = One(Blank)
    BY <1>5 DEF Read, One
  <2>2. One(Blank) \in Seq({Blank})
    BY OneType
  <2>3. \A k \in DOMAIN One(Blank) : One(Blank)[k] = Blank
    BY DEF One
  <2>4. Results(target, dialect) = {Blank}
    BY <1>5 DEF Results
  <2>5. \A d \in Diagnostics : ~ Meets(V(d), One(Blank)) /\ OnceIn(V(d), One(Blank))
    <3> HIDE DEF V
    <3>1. QED
      BY <1>3, <2>3 DEF Meets, OnceIn
  <2> HIDE DEF rs
  <2>6. QED
    BY <1>5, <2>1, <2>2, <2>4, <2>5 DEF rs
<1>6. CASE target # dialect /\ dialect # "sarif"
  <2>1. rs = [k \in DOMAIN top |-> Misread(top[k])]
    BY <1>6 DEF Read
  <2> HIDE DEF top
  <2>2. DOMAIN top = 1 .. Len(top) /\ Len(top) \in Nat /\ \A k \in DOMAIN top : top[k] \in Diagnostics
    BY <1>1
  <2>3. DOMAIN rs = DOMAIN top /\ \A k \in DOMAIN rs : rs[k] = F[top[k]] /\ rs[k] \in Misreadings
    BY <1>2, <2>1, <2>2
  <2>4. rs \in Seq(Misreadings)
    <3>1. F \in [Diagnostics -> Misreadings]
      BY <1>2
    <3>2. rs = Mapped(F, top)
      BY <2>1, <2>2 DEF Mapped
    <3> HIDE DEF rs, F
    <3>3. Mapped(F, top) \in Seq(Misreadings)
      BY <1>1, <3>1, MappedType
    <3>4. QED
      BY <3>2, <3>3
  <2>5. Results(target, dialect) = Misreadings
    BY <1>6 DEF Results
  <2>6. \A d \in Diagnostics : (Meets(V(d), rs) => Meets({d}, top)) /\ (OnceIn({d}, top) => OnceIn(V(d), rs))
    <3> HIDE DEF V, F, rs
    <3>1. QED
      BY <1>2, <2>2, <2>3 DEF Meets, OnceIn
  <2> HIDE DEF rs
  <2>7. QED
    BY <1>1, <1>6, <2>4, <2>5, <2>6 DEF rs
<1>7. QED
  BY <1>4, <1>5, <1>6

LEMMA ParseChunksIs ==
  ASSUME NEW cs \in Seq(Seq(Tokens)), NEW target, NEW dialect, NEW known
  PROVE  \/ ParseChunks(cs, target, dialect, known) = ParseFailure
            /\ \E k \in DOMAIN cs : Reads(cs[k], target, dialect, known) = {}
         \/ ParseChunks(cs, target, dialect, known) = FlattenSeq(Mapped(Meaning(target, dialect, known), cs))
<1> DEFINE M == Meaning(target, dialect, known)
           G == [k \in DOMAIN cs |->
                   IF Reads(cs[k], target, dialect, known) = {} THEN <<>>
                   ELSE Read(target, dialect, First(cs[k], target, dialect, known))]
<1>1. ParseChunks(cs, target, dialect, known) =
        IF \E k \in DOMAIN cs : Reads(cs[k], target, dialect, known) = {} /\ Json(cs[k]) \notin Empty
          THEN ParseFailure
          ELSE FlattenSeq(G)
  BY DEF ParseChunks, Reads, Json, First, Empty
<1>2. G = Mapped(M, cs)
  <2>1. \A k \in DOMAIN cs : cs[k] \in Seq(Tokens)
    OBVIOUS
  <2>2. \A k \in DOMAIN cs : M[cs[k]] = G[k]
    BY <2>1 DEF Meaning
  <2>3. G = [k \in DOMAIN cs |-> G[k]]
    OBVIOUS
  <2> HIDE DEF M, G
  <2>4. QED
    BY <2>2, <2>3 DEF Mapped
<1> HIDE DEF G
<1>3. QED
  BY <1>1, <1>2

LEMMA MeaningIn ==
  ASSUME NEW chunk \in Seq(Tokens), NEW target, NEW dialect, NEW known
  PROVE  LET m == Meaning(target, dialect, known)[chunk]
         IN  IF Reads(chunk, target, dialect, known) = {} THEN m = <<>>
             ELSE \E ds \in known : /\ Json(chunk) = Document(Piece(target, dialect), ds)
                                   /\ m = Read(target, dialect, ds)
<1> DEFINE R == Reads(chunk, target, dialect, known)
           ds == First(chunk, target, dialect, known)
           m == Meaning(target, dialect, known)[chunk]
<1>1. m = IF R = {} THEN <<>> ELSE Read(target, dialect, ds)
  BY DEF Meaning
<1>2. R # {} => ds \in known /\ ds \in R
  <2>1. R # {} => \E es \in known : es \in R
    BY DEF Reads
  <2>2. QED
    BY <2>1 DEF First
<1> HIDE DEF ds, m
<1>3. R # {} => Json(chunk) = Document(Piece(target, dialect), ds)
  BY <1>2 DEF Reads
<1> HIDE DEF R
<1>4. QED
  BY <1>1, <1>2, <1>3 DEF m, R

LEMMA MeaningRead ==
  ASSUME NEW chunk \in Seq(Tokens), NEW target, NEW dialect, NEW known,
         Reads(chunk, target, dialect, known) # {}
  PROVE  \E ds \in known : /\ Json(chunk) = Document(Piece(target, dialect), ds)
                            /\ Meaning(target, dialect, known)[chunk] = Read(target, dialect, ds)
<1>1. LET m == Meaning(target, dialect, known)[chunk]
      IN  IF Reads(chunk, target, dialect, known) = {} THEN m = <<>>
          ELSE \E ds \in known : /\ Json(chunk) = Document(Piece(target, dialect), ds)
                                 /\ m = Read(target, dialect, ds)
  BY MeaningIn
<1>2. QED
  BY <1>1

LEMMA MeaningType ==
  ASSUME NEW cs \in Seq(Seq(Tokens)), NEW target, NEW dialect, NEW known, known \subseteq Seq(Diagnostics),
         NEW S, S = Results(target, dialect) \/ known = {}
  PROVE  Mapped(Meaning(target, dialect, known), cs) \in Seq(Seq(S))
<1> DEFINE m == Meaning(target, dialect, known)
<1>1. \A chunk \in Seq(Tokens) : m[chunk] \in Seq(S)
  <2> SUFFICES ASSUME NEW chunk \in Seq(Tokens) PROVE m[chunk] \in Seq(S)
    OBVIOUS
  <2>1. <<>> \in Seq(S)
    OBVIOUS
  <2>2. m[chunk] = <<>> \/ \E ds \in known : m[chunk] = Read(target, dialect, ds)
    BY MeaningIn
  <2>3. ASSUME NEW ds \in known PROVE Read(target, dialect, ds) \in Seq(S)
    BY ReadIs
  <2>4. QED
    BY <2>1, <2>2, <2>3
<1>2. m = [chunk \in Seq(Tokens) |-> m[chunk]]
  BY DEF Meaning
<1> HIDE DEF m
<1>3. m \in [Seq(Tokens) -> Seq(S)]
  BY <1>1, <1>2
<1>4. QED
  BY <1>3, MappedType DEF m

LEMMA ParseChunksType ==
  ASSUME NEW cs \in Seq(Seq(Tokens)), NEW target, NEW dialect, NEW known, known \subseteq Seq(Diagnostics),
         NEW S, S = Results(target, dialect) \/ known = {}
  PROVE  ParseChunks(cs, target, dialect, known) \in Seq(S) \cup {ParseFailure}
<1> DEFINE m == Mapped(Meaning(target, dialect, known), cs)
<1>1. m \in Seq(Seq(S))
  BY MeaningType
<1> HIDE DEF m
<1>2. FlattenSeq(m) \in Seq(S)
  BY <1>1, FlattenType
<1>3. QED
  BY <1>2, ParseChunksIs DEF m

\* A parser's result is ParseFailure or what can be read.
LEMMA ParseType ==
  ASSUME NEW toolchain, NEW s \in Seq(LineSet), NEW t \in Seq(LineSet),
         NEW known, known \subseteq Seq(Diagnostics), NEW dialect
  PROVE  \/ Parse(toolchain, s, t, known, dialect) = ParseFailure
         \/ Parse(toolchain, s, t, known, dialect) \in Seq(Readings)
<1> DEFINE input == StructuredInput(s, t)
<1>1. input \in Seq(LineSet)
  BY StructuredType
<1> HIDE DEF input
<1>2. Split(input, "[", "]") \in Seq(Seq(Tokens)) /\ Split(input, "{", "}") \in Seq(Seq(Tokens))
  BY <1>1, SplitType
<1>3. ASSUME NEW cs \in Seq(Seq(Tokens)), NEW target
      PROVE  ParseChunks(cs, target, dialect, known) \in Seq(Readings) \cup {ParseFailure}
  <2>1. ParseChunks(cs, target, dialect, known) \in Seq(Results(target, dialect)) \cup {ParseFailure}
    BY ParseChunksType
  <2>2. Results(target, dialect) \subseteq Readings
    BY ResultsType
  <2>3. QED
    BY <2>1, <2>2
<1>4. Stated(t) \in Seq(Diagnostics) /\ Diagnostics \subseteq Readings
  BY StatedIs, ResultsType
<1>5. CASE toolchain = "clang"
  BY <1>2, <1>3, <1>5 DEF Parse, ClangParse, input
<1>6. CASE toolchain = "gcc"
  BY <1>2, <1>3, <1>6 DEF Parse, GCCParse, input
<1>7. CASE toolchain \notin {"clang", "gcc"}
  BY <1>4, <1>7 DEF Parse, RegexParse
<1>8. QED
  BY <1>5, <1>6, <1>7

Severe(severity) == {r \in Readings : r.severity = severity}

LEMMA OfSeverityOf ==
  ASSUME NEW rs \in Seq(Readings), NEW severity
  PROVE  /\ OfSeverity(severity, rs) = Only(Severe(severity), rs)
         /\ OfSeverity(severity, rs) \in Seq(Severe(severity))
         /\ OfSeverity(severity, rs) \in Seq(Readings)
<1>1. {k \in DOMAIN rs : rs[k].severity = severity} = {k \in DOMAIN rs : rs[k] \in Severe(severity)}
  BY DEF Severe
<1>2. OfSeverity(severity, rs) = Only(Severe(severity), rs)
  BY <1>1 DEF OfSeverity, Only
<1>3. Only(Severe(severity), rs) \in Seq(Readings \cap Severe(severity))
  BY OnlyType
<1>4. QED
  BY <1>2, <1>3

LEMMA OfSeverityIs ==
  ASSUME NEW ds \in Seq(Diagnostics), NEW severity
  PROVE  /\ OfSeverity(severity, ds) = Only(Severe(severity), ds)
         /\ OfSeverity(severity, ds) \in Seq(Severe(severity))
         /\ OfSeverity(severity, ds) \in Seq(Diagnostics)
<1>1. ds \in Seq(Readings)
  BY ResultsType
<1>2. Only(Severe(severity), ds) \in Seq(Diagnostics \cap Severe(severity))
  BY OnlyType
<1>3. QED
  BY <1>1, <1>2, OfSeverityOf

LEMMA OfSeverityConcat ==
  ASSUME NEW ds \in Seq(Diagnostics), NEW es \in Seq(Diagnostics), NEW severity
  PROVE  OfSeverity(severity, ds \o es) = OfSeverity(severity, ds) \o OfSeverity(severity, es)
<1>1. ds \o es \in Seq(Diagnostics)
  OBVIOUS
<1>2. Only(Severe(severity), ds \o es) = Only(Severe(severity), ds) \o Only(Severe(severity), es)
  BY OnlyConcat
<1>3. QED
  BY <1>1, <1>2, OfSeverityIs

LEMMA OfSeverityFailure ==
  /\ OfSeverity("error", ParseFailure) = ParseFailure
  /\ OfSeverity("warning", ParseFailure) = <<>>
  /\ ParseFailure # <<>> /\ ParseFailure \o <<>> = ParseFailure
  /\ \A k \in DOMAIN ParseFailure : ParseFailure[k].severity = "error"
<1> DEFINE f == [severity |-> "error", located |-> FALSE, id |-> "Failed to parse"]
<1>1. f.severity = "error"
  OBVIOUS
<1> HIDE DEF f
<1>2. /\ <<f>> \in Seq({f}) /\ <<f>> \o <<>> = <<f>> /\ <<f>> # <<>>
      /\ \A k \in DOMAIN <<f>> : <<f>>[k] = f
  OBVIOUS
<1>3. Kept(<<f>>, {k \in DOMAIN <<f>> : <<f>>[k].severity = "error"}) = <<f>>
  <2>1. DOMAIN <<f>> \subseteq {k \in DOMAIN <<f>> : <<f>>[k].severity = "error"}
    BY <1>1, <1>2
  <2>2. QED
    BY <1>2, <2>1, KeptAll
<1>4. Kept(<<f>>, {k \in DOMAIN <<f>> : <<f>>[k].severity = "warning"}) = <<>>
  <2>1. \A k \in DOMAIN <<f>> : k \notin {j \in DOMAIN <<f>> : <<f>>[j].severity = "warning"}
    BY <1>1, <1>2
  <2>2. QED
    BY <1>2, <2>1, KeptNone
<1>5. ParseFailure = <<f>>
  BY DEF ParseFailure, f
<1>6. QED
  BY <1>1, <1>2, <1>3, <1>4, <1>5 DEF OfSeverity

-----------------------------------------------------------------------------
(* What compilers print.                                                   *)

InputsOK ==
  /\ setup \in Setups /\ work \in Works
  /\ reconfig \in Reconfigs \cup {None}

LEMMA FormatType ==
  ASSUME NEW s \in Setups
  PROVE  Format(s) \in {"json", "sarif", "text", "refused"}
<1>1. IsCompiler(s.compiler)
  BY DiagnoseAssumption
<1>2. ProbedFormat(s.compiler) \in {"json", "sarif", "text"}
  <2>1. \/ s.compiler.family = "cl"
        \/ s.compiler.family # "cl" /\ "json" \in s.compiler.accepts
        \/ s.compiler.family # "cl" /\ "json" \notin s.compiler.accepts /\ s.compiler.accepts = {"sarif"}
        \/ s.compiler.family # "cl" /\ "json" \notin s.compiler.accepts /\ s.compiler.accepts = {}
    BY <1>1 DEF IsCompiler
  <2>2. QED
    BY <2>1 DEF ProbedFormat
<1>3. diagnosticFlag(s) \in {"json", "sarif"}
  BY DEF diagnosticFlag
<1>4. QED
  BY <1>2, <1>3 DEF Format

LEMMA WorkIs ==
  ASSUME NEW w \in Works, NEW u \in Units
  PROVE  /\ w[u].says \in Seq(Diagnostics) /\ w[u].command \in Seq(Words)
         /\ ~ Starts(Line(w[u].command), {"{", "["})
         /\ IsInjective(w[u].says)
<1>1. w \in [Units -> [says : Seq(Diagnostics), command : Seq(Words)]]
  BY SaidAssumption
<1>2. w[u] \in [says : Seq(Diagnostics), command : Seq(Words)]
  BY <1>1
<1>3. w[u].says \in Seq(Diagnostics) /\ w[u].command \in Seq(Words)
  BY <1>2
<1>4. ~ Starts(Line(w[u].command), {"{", "["})
  BY TextAssumption DEF IsText
<1>5. IsInjective(w[u].says)
  BY SaidAssumption
<1>6. QED
  BY <1>3, <1>4, <1>5

LEMMA ReconfigIs ==
  ASSUME NEW r \in Reconfigs \cup {None}, r # None
  PROVE  /\ r.ok \in BOOLEAN /\ r.says \in Seq(Diagnostics) /\ r.text \in Seq(Words)
         /\ ~ Starts(Line(r.text), {"{", "["})
         /\ IsInjective(r.says)
         /\ ~ r.ok => \E d \in ToSet(r.says) : d.severity = "error"
<1>1. r \in [ok : BOOLEAN, says : Seq(Diagnostics), text : Seq(Words)]
  BY SaidAssumption
<1>2. r \in Reconfigs \ {None}
  OBVIOUS
<1>3. r.ok \in BOOLEAN /\ r.says \in Seq(Diagnostics) /\ r.text \in Seq(Words)
  BY <1>1
<1>4. ~ Starts(Line(r.text), {"{", "["}) /\ (~ r.ok => \E d \in ToSet(r.says) : d.severity = "error")
  BY <1>2, TextAssumption DEF IsText
<1>5. IsInjective(r.says)
  BY <1>2, SaidAssumption
<1>6. QED
  BY <1>3, <1>4, <1>5

LEMMA WordsType ==
  ASSUME NEW s \in Seq(Words)
  PROVE  s \in Seq(Tokens)
<1>1. Words \subseteq Tokens
  BY MarkWords
<1>2. QED
  BY <1>1

\* The two lines of a document.
LEMMA DocumentOutput ==
  ASSUME InputsOK, NEW u \in Units, Format(setup) \in {"json", "sarif"}
  PROVE  LET format == Format(setup)
         IN  /\ Len(Output(u)) = 2 /\ DOMAIN Output(u) = {1, 2}
             /\ Output(u)[1] = Line(Body(format, work[u].says))
             /\ Output(u)[2] = Line(One(Close(format)))
             /\ Output(u) = Two(Output(u)[1], Output(u)[2])
<1> DEFINE format == Format(setup)
           ds == work[u].says
<1>1. ds \in Seq(Diagnostics)
  BY WorkIs DEF InputsOK
<1>2. Output(u) = DocumentLines(format, ds) /\ format \in {"json", "sarif"}
  BY DEF Output
<1> HIDE DEF format, ds
<1>3. DocumentLines(format, ds) = <<Line(Body(format, ds)), Line(One(Close(format)))>>
  BY <1>1, <1>2, DocumentIs DEF DocumentLines, One
<1> DEFINE a == Line(Body(format, ds))
           b == Line(One(Close(format)))
<1> HIDE DEF a, b
<1>4. Output(u) = <<a, b>>
  BY <1>2, <1>3 DEF a, b
<1>5. Output(u)[1] = a /\ Output(u)[2] = b /\ Len(Output(u)) = 2 /\ DOMAIN Output(u) = {1, 2}
  BY <1>4
<1>6. QED
  BY <1>4, <1>5 DEF a, b, format, ds, Two

LEMMA TextOutput ==
  ASSUME InputsOK, NEW u \in Units, Format(setup) = "text"
  PROVE  /\ Len(Output(u)) = Len(work[u].says) /\ DOMAIN Output(u) = DOMAIN work[u].says
         /\ \A k \in DOMAIN Output(u) : work[u].says[k] \in Diagnostics /\ Output(u)[k] = PlainLine(work[u].says[k])
<1> DEFINE ds == work[u].says
<1>1. ds \in Seq(Diagnostics)
  BY WorkIs DEF InputsOK
<1>2. Output(u) = [k \in DOMAIN ds |-> PlainLine(ds[k])]
  BY DEF Output
<1> HIDE DEF ds
<1>3. QED
  BY <1>1, <1>2 DEF ds

LEMMA RefusedOutput ==
  ASSUME InputsOK, NEW u \in Units, Format(setup) = "refused"
  PROVE  /\ Len(Output(u)) = 1 /\ DOMAIN Output(u) = {1}
         /\ Output(u)[1] = Line(One("words"))
<1>1. Output(u) = <<Line(One("words"))>>
  BY DEF Output, One
<1> DEFINE a == Line(One("words"))
<1> HIDE DEF a
<1>2. Output(u) = <<a>>
  BY <1>1 DEF a
<1>3. QED
  BY <1>2 DEF a

LEMMA OutputType ==
  ASSUME InputsOK, NEW u \in Units
  PROVE  /\ Output(u) \in Seq(LineSet) /\ Len(Output(u)) \in Nat
         /\ \A k \in DOMAIN Output(u) : Output(u)[k].noise = FALSE /\ Output(u)[k].cmake = None
<1> DEFINE format == Format(setup)
           ds == work[u].says
<1>1. format \in {"json", "sarif", "text", "refused"}
  BY FormatType DEF InputsOK
<1>2. ds \in Seq(Diagnostics)
  BY WorkIs DEF InputsOK
<1>3. CASE format \in {"json", "sarif"}
  <2>1. Body(format, ds) \in Seq(Tokens) /\ One(Close(format)) \in Seq(Tokens)
    <3>1. Close(format) \in Tokens
      BY OpenClose, MarkWords
    <3>2. Body(format, ds) \in Seq(Marks)
      BY <1>2, BodyType
    <3>3. QED
      BY <3>1, <3>2, MarksType, OneType
  <2>2. Output(u)[1] = Line(Body(format, ds)) /\ Output(u)[2] = Line(One(Close(format)))
    BY <1>3, DocumentOutput
  <2>3. /\ Output(u)[1] \in LineSet /\ Output(u)[1].noise = FALSE /\ Output(u)[1].cmake = None
        /\ Output(u)[2] \in LineSet /\ Output(u)[2].noise = FALSE /\ Output(u)[2].cmake = None
    BY <2>1, <2>2, LineIs
  <2>4. DOMAIN Output(u) = {1, 2} /\ Len(Output(u)) = 2 /\ Output(u) = Two(Output(u)[1], Output(u)[2])
    BY <1>3, DocumentOutput
  <2>5. \A a, b \in LineSet : Two(a, b) \in Seq(LineSet)
    BY DEF Two
  <2>6. Output(u) \in Seq(LineSet)
    BY <2>3, <2>4, <2>5
  <2>7. QED
    BY <2>3, <2>4, <2>6
<1>4. CASE format = "text"
  <2>1. \A k \in DOMAIN Output(u) :
          Output(u)[k] \in LineSet /\ Output(u)[k].noise = FALSE /\ Output(u)[k].cmake = None
    <3> SUFFICES ASSUME NEW k \in DOMAIN Output(u)
                 PROVE  Output(u)[k] \in LineSet /\ Output(u)[k].noise = FALSE /\ Output(u)[k].cmake = None
      OBVIOUS
    <3>1. PICK d \in Diagnostics : Output(u)[k] = PlainLine(d)
      BY <1>4, TextOutput
    <3>2. QED
      BY <3>1, PlainLineIs
  <2>2. Output(u) = [k \in DOMAIN ds |-> PlainLine(ds[k])]
    BY <1>4 DEF Output
  <2>3. \A k \in DOMAIN ds : PlainLine(ds[k]) \in LineSet
    <3>1. DOMAIN ds = DOMAIN Output(u) /\ \A k \in DOMAIN ds : PlainLine(ds[k]) = Output(u)[k]
      BY <1>4, TextOutput
    <3>2. QED
      BY <2>1, <3>1
  <2>4. Output(u) \in Seq(LineSet)
    BY <1>2, <2>2, <2>3
  <2>5. QED
    BY <2>1, <2>4
<1>5. CASE format = "refused"
  <2>1. One("words") \in Seq(Tokens)
    <3>1. "words" \in Tokens
      BY MarkWords
    <3>2. QED
      BY <3>1, OneType
  <2>2. Output(u) = <<Line(One("words"))>>
    BY <1>5 DEF Output, One
  <2> DEFINE a == Line(One("words"))
  <2>3. a \in LineSet /\ a.noise = FALSE /\ a.cmake = None
    BY <2>1, LineIs
  <2> HIDE DEF a
  <2>4. Output(u) = <<a>>
    BY <2>2 DEF a
  <2>5. QED
    BY <2>3, <2>4
<1>6. QED
  BY <1>1, <1>3, <1>4, <1>5

LEMMA CompletesType ==
  ASSUME InputsOK, NEW u \in Units, NEW k \in DOMAIN Output(u)
  PROVE  Completes(u, k) \in Seq(Diagnostics)
<1> DEFINE format == Format(setup)
           ds == work[u].says
<1>1. format \in {"json", "sarif", "text", "refused"}
  BY FormatType DEF InputsOK
<1>2. ds \in Seq(Diagnostics) /\ <<>> \in Seq(Diagnostics)
  <2>1. ds \in Seq(Diagnostics)
    BY WorkIs DEF InputsOK
  <2>2. QED
    BY <2>1
<1>3. CASE format \in {"json", "sarif"}
  BY <1>2, <1>3 DEF Completes
<1>4. CASE format = "text"
  <2>1. ds[k] \in Diagnostics
    BY <1>4, TextOutput
  <2> HIDE DEF ds
  <2>2. One(ds[k]) \in Seq(Diagnostics)
    BY <2>1, OneType
  <2>3. QED
    BY <1>4, <2>2 DEF Completes, One, ds
<1>5. CASE format = "refused"
  BY <1>2, <1>5 DEF Completes
<1>6. QED
  BY <1>1, <1>3, <1>4, <1>5

LEMMA CompletedByType ==
  ASSUME InputsOK, NEW u \in Units, NEW k \in 0 .. Len(Output(u))
  PROVE  CompletedBy(u, k) \in Seq(Diagnostics)
<1>1. \A j \in 1 .. k : j \in DOMAIN Output(u)
  BY OutputType
<1>2. \A j \in 1 .. k : Completes(u, j) \in Seq(Diagnostics)
  BY <1>1, CompletesType
<1>3. k \in Nat
  BY OutputType
<1>4. [j \in 1 .. k |-> Completes(u, j)] \in Seq(Seq(Diagnostics))
  BY <1>2, <1>3
<1>5. QED
  BY <1>4, FlattenType DEF CompletedBy

-----------------------------------------------------------------------------
(* Types, and how far the units are.                                       *)

\* A unit that waits has printed nothing, one that ended all; Ninja keeps the
\* output until then.  CMake runs before the units do.
Far ==
  \A u \in Units :
    /\ lines[u] \in 0 .. Len(Output(u))
    /\ unit[u] = "waiting" => lines[u] = 0
    /\ unit[u] \in {"done", "failed"} => lines[u] = Len(Output(u))
    /\ setup.tool = "ninja" /\ exit = "running" /\ unit[u] = "running" => lines[u] = 0
    /\ rerun => unit[u] = "waiting"

TypeInv ==
  /\ InputsOK
  /\ rerun \in BOOLEAN /\ (rerun => reconfig # None)
  /\ unit \in [Units -> {"waiting", "running", "done", "failed"}]
  /\ lines \in [Units -> Nat]
  /\ stdout \in Seq(LineSet) /\ stderr \in Seq(LineSet)
  /\ exit \in {"running", "ok", "failed", "killed"}
  /\ said \in Seq(Diagnostics)
  /\ Far

\* Lines that say nothing and where no document is looked for.
Chat ==
  {l \in LineSet : /\ l.states = None /\ l.cmake = None /\ l.text \in Seq(Words)
                   /\ l.noise \/ ~ Starts(l, {"{", "["})}

Chats(s, t) == \E a \in Seq(Chat) : t = s \o a

\* x is what a unit prints from its line i + 1 to its line k.
Slice(x, u, i, k) ==
  /\ x \in Seq(LineSet) /\ Len(x) = k - i
  /\ \A j \in DOMAIN x : i + j \in DOMAIN Output(u) /\ x[j] = Output(u)[i + j]

Prints(u) ==
  /\ exit = "running" /\ unit[u] = "running"
  /\ UNCHANGED <<inputs, rerun, errs, warns>>
  /\ \E k \in lines[u] .. Len(Output(u)), a \in Seq(Chat), x \in Seq(LineSet) :
       /\ Slice(x, u, lines[u], k)
       /\ lines' = [lines EXCEPT ![u] = k]
       /\ \/ stdout' = stdout \o a \o x /\ stderr' = stderr
          \/ stdout' = stdout /\ stderr' = stderr \o a \o x

Talks ==
  /\ exit = "running"
  /\ UNCHANGED <<inputs, rerun, lines, said, errs, warns>>
  /\ Chats(stdout, stdout') /\ Chats(stderr, stderr')

LEMMA NoChat ==
  ASSUME NEW s \in Seq(LineSet)
  PROVE  Chats(s, s)
<1>1. <<>> \in Seq(Chat) /\ s \o <<>> = s
  OBVIOUS
<1>2. QED
  BY <1>1 DEF Chats

LEMMA OneChat ==
  ASSUME NEW s \in Seq(LineSet), NEW l \in Chat
  PROVE  Chats(s, Append(s, l))
<1>1. One(l) \in Seq(Chat)
  BY OneType
<1>2. s \o One(l) = Append(s, l)
  BY DEF One
<1>3. QED
  BY <1>1, <1>2 DEF Chats

LEMMA Grow ==
  ASSUME NEW S, NEW s \in Seq(S), NEW a \in Seq(S), NEW x \in Seq(S)
  PROVE  s \o a \o x \in Seq(S)
OBVIOUS

LEMMA ChatType ==
  ASSUME NEW a \in Seq(Chat)
  PROVE  a \in Seq(LineSet)
<1>1. Chat \subseteq LineSet
  BY DEF Chat
<1>2. QED
  BY <1>1

\* The lines of the build tools.
LEMMA ToolLines ==
  /\ Progress \in Chat
  /\ Noise(<<"[", "status", "]">>) \in Chat
  /\ Noise(<<"[", "target", "]">>) \in Chat
  /\ Noise(<<"[", "code", "]">>) \in Chat
<1> DEFINE Three(w) == <<"[", w, "]">>
<1>1. ASSUME NEW w \in Words PROVE Noise(Three(w)) \in Chat
  <2>1. "[" \in Words /\ "]" \in Words
    BY DEF Words
  <2>2. ASSUME NEW a \in Words, NEW b \in Words PROVE <<a, w, b>> \in Seq(Words)
    OBVIOUS
  <2>3. Three(w) \in Seq(Words)
    <3>1. PICK a, b \in Words : a = "[" /\ b = "]"
      BY ONLY <2>1
    <3>2. <<a, w, b>> \in Seq(Words)
      BY <2>2
    <3>3. QED
      BY <3>1, <3>2
  <2> HIDE DEF Three
  <2>4. Three(w) \in Seq(Tokens)
    BY <2>3, WordsType
  <2>5. QED
    BY <2>3, <2>4, NoiseIs DEF Chat
<1>2. "count" \in Words /\ "status" \in Words /\ "target" \in Words /\ "code" \in Words
  BY DEF Words
<1>3. /\ Noise(Three("count")) \in Chat /\ Noise(Three("status")) \in Chat
      /\ Noise(Three("target")) \in Chat /\ Noise(Three("code")) \in Chat
  BY <1>1, <1>2
<1>4. QED
  BY <1>3 DEF Progress

LEMMA CommandLine ==
  ASSUME NEW w \in Works, NEW u \in Units
  PROVE  Line(w[u].command) \in Chat
<1>1. w[u].command \in Seq(Words) /\ w[u].command \in Seq(Tokens) /\ ~ Starts(Line(w[u].command), {"{", "["})
  BY WorkIs, WordsType
<1>2. QED
  BY <1>1, LineIs DEF Chat

LEMMA HeadingType ==
  ASSUME InputsOK, NEW u \in Units
  PROVE  Heading(u) \in Seq(Chat)
<1> DEFINE p == Progress
           n == Noise(<<"[", "code", "]">>)
           c == Line(work[u].command)
<1>1. p \in Chat /\ n \in Chat /\ c \in Chat
  BY ToolLines, CommandLine DEF InputsOK
<1>2. Heading(u) = <<p>> \o (IF Fails(u) THEN <<n, c>> ELSE <<>>)
  BY DEF Heading
<1> HIDE DEF p, n, c
<1>3. <<p>> \in Seq(Chat) /\ <<n, c>> \in Seq(Chat) /\ <<>> \in Seq(Chat)
  BY <1>1
<1>4. QED
  BY <1>2, <1>3

LEMMA Unchanged ==
  ASSUME UNCHANGED inputs
  PROVE  /\ InputsOK' = InputsOK
         /\ \A u \in Units : Output(u)' = Output(u)
BY DEF inputs, InputsOK, Output

LEMMA SliceIs ==
  ASSUME InputsOK, NEW u \in Units, NEW k \in 0 .. Len(Output(u))
  PROVE  Slice(SubSeq(Output(u), 1, k), u, 0, k)
<1> DEFINE o == Output(u)
<1>1. o \in Seq(LineSet)
  BY OutputType
<1> HIDE DEF o
<1>2. /\ SubSeq(o, 1, k) \in Seq(LineSet) /\ Len(SubSeq(o, 1, k)) = k - 0
      /\ \A j \in DOMAIN SubSeq(o, 1, k) : 0 + j \in DOMAIN o /\ SubSeq(o, 1, k)[j] = o[0 + j]
  BY <1>1 DEF o
<1>3. QED
  BY <1>2 DEF Slice, o

LEMMA SliceOne ==
  ASSUME InputsOK, NEW u \in Units, NEW i \in 0 .. Len(Output(u)) - 1
  PROVE  Slice(One(Output(u)[i + 1]), u, i, i + 1)
<1> DEFINE o == Output(u)
<1>1. o \in Seq(LineSet)
  BY OutputType
<1> HIDE DEF o
<1>2. i + 1 \in DOMAIN o /\ o[i + 1] \in LineSet
  BY <1>1 DEF o
<1>3. One(o[i + 1]) \in Seq(LineSet)
  BY <1>2, OneType
<1>4. Len(One(o[i + 1])) = 1 /\ \A j \in DOMAIN One(o[i + 1]) : j = 1 /\ One(o[i + 1])[j] = o[i + 1]
  BY DEF One
<1>5. (i + 1) - i = 1
  OBVIOUS
<1>6. QED
  BY <1>2, <1>3, <1>4, <1>5 DEF Slice, o

\* Ninja writes the first k lines of u.
NinjaPrints(u, k) ==
  /\ exit = "running" /\ unit[u] = "running" /\ setup.tool = "ninja"
  /\ UNCHANGED <<inputs, rerun, stderr, errs, warns>>
  /\ lines' = [lines EXCEPT ![u] = k]
  /\ stdout' = stdout \o Heading(u) \o SubSeq(Output(u), 1, k)
  /\ said' = said \o CompletedBy(u, k)

\* When Ninja writes, it is the unit's first line that comes next.
LEMMA NinjaEndsIs ==
  ASSUME TypeInv, NEW u \in Units, NinjaEnds(u)
  PROVE  \E k \in 0 .. Len(Output(u)) : NinjaPrints(u, k)
<1> DEFINE k == Len(Output(u))
<1>1. Output(u) \in Seq(LineSet) /\ k \in Nat
  BY OutputType DEF TypeInv
<1>2. SubSeq(Output(u), 1, k) = Output(u)
  BY <1>1, WholePrefix
<1>3. NinjaPrints(u, k)
  BY <1>2 DEF NinjaEnds, NinjaPrints
<1>4. k \in 0 .. k
  BY <1>1
<1>5. QED
  BY <1>3, <1>4

LEMMA KillIs ==
  ASSUME Kill
  PROVE  \/ exit = "running" /\ UNCHANGED <<inputs, rerun, unit, lines, stdout, stderr, said, errs, warns>>
         \/ \E u \in Units : \E k \in 0 .. Len(Output(u)) : NinjaPrints(u, k)
<1>1. /\ exit = "running" /\ UNCHANGED <<inputs, rerun, unit, stderr, errs, warns>>
      /\ \/ UNCHANGED <<lines, stdout, said>>
         \/ /\ setup.tool = "ninja"
            /\ \E u \in Units :
                 /\ unit[u] = "running"
                 /\ \E k \in 0 .. Len(Output(u)) :
                      /\ lines' = [lines EXCEPT ![u] = k]
                      /\ stdout' = stdout \o Heading(u) \o SubSeq(Output(u), 1, k)
                      /\ said' = said \o CompletedBy(u, k)
  BY DEF Kill
<1>2. CASE UNCHANGED <<lines, stdout, said>>
  BY <1>1, <1>2
<1>3. CASE ~ UNCHANGED <<lines, stdout, said>>
  <2>0. PICK u \in Units :
          /\ unit[u] = "running"
          /\ \E k \in 0 .. Len(Output(u)) :
               /\ lines' = [lines EXCEPT ![u] = k]
               /\ stdout' = stdout \o Heading(u) \o SubSeq(Output(u), 1, k)
               /\ said' = said \o CompletedBy(u, k)
    BY <1>1, <1>3
  <2>1. PICK k \in 0 .. Len(Output(u)) :
          /\ lines' = [lines EXCEPT ![u] = k]
          /\ stdout' = stdout \o Heading(u) \o SubSeq(Output(u), 1, k)
          /\ said' = said \o CompletedBy(u, k)
    BY <2>0
  <2>2. setup.tool = "ninja"
    BY <1>1, <1>3
  <2>3. NinjaPrints(u, k)
    BY <1>1, <2>0, <2>1, <2>2 DEF NinjaPrints
  <2>4. QED
    BY <2>3
<1>4. QED
  BY <1>2, <1>3

\* Every step but handleBuild's is CMake's, a unit's or Ninja's that prints, or
\* one that at most talks.
LEMMA StepCases ==
  ASSUME TypeInv, DiagnoseNext
  PROVE  \/ Report \/ Talks \/ Reconfigure
         \/ \E u \in Units : Write(u) \/ \E k \in 0 .. Len(Output(u)) : NinjaPrints(u, k)
<1> USE DEF TypeInv
<1>1. CASE Exit
  BY <1>1, NoChat DEF Exit, Talks
<1>2. CASE Kill
  <2>1. CASE exit = "running" /\ UNCHANGED <<inputs, rerun, unit, lines, stdout, stderr, said, errs, warns>>
    BY <2>1, NoChat DEF Talks
  <2>2. QED
    BY <1>2, <2>1, KillIs
<1>3. ASSUME NEW u \in Units, Start(u) PROVE Talks
  <2>1. Progress \in Chat /\ Line(work[u].command) \in Chat
    BY ToolLines, CommandLine DEF InputsOK
  <2>2. setup.tool \in {"ninja", "make", "plain make"}
    BY DiagnoseAssumption DEF InputsOK
  <2>3. Chats(stdout, stdout')
    <3>1. CASE setup.tool = "ninja"
      <4>1. stdout' = stdout
        BY <1>3, <3>1 DEF Start
      <4>2. QED
        BY <4>1, NoChat
    <3>2. CASE setup.tool = "make"
      <4>1. stdout' = Append(stdout, Progress)
        BY <1>3, <3>2 DEF Start
      <4>2. QED
        BY <2>1, <4>1, OneChat
    <3>3. CASE setup.tool = "plain make"
      <4>1. stdout' = Append(stdout, Line(work[u].command))
        BY <1>3, <3>3 DEF Start
      <4>2. QED
        BY <2>1, <4>1, OneChat
    <3>4. QED
      BY <2>2, <3>1, <3>2, <3>3
  <2>4. QED
    BY <1>3, <2>3, NoChat DEF Start, Talks
<1>4. ASSUME NEW u \in Units, MakeEnds(u) PROVE Talks
  <2>1. Chats(stderr, stderr')
    BY <1>4, ToolLines, OneChat, NoChat DEF MakeEnds
  <2>2. QED
    BY <1>4, <2>1, NoChat DEF MakeEnds, Talks
<1>5. QED
  BY <1>1, <1>2, <1>3, <1>4, NinjaEndsIs DEF DiagnoseNext

\* A unit that prints does it after some talk, in one of the streams.
LEMMA StepShape ==
  ASSUME TypeInv, DiagnoseNext
  PROVE  Report \/ Talks \/ Reconfigure \/ \E u \in Units : Prints(u)
<1> USE DEF TypeInv
<1>1. ASSUME NEW u \in Units, Write(u) PROVE Prints(u)
  <2> DEFINE i == lines[u]
             l == Output(u)[i + 1]
  <2>1. i \in 0 .. Len(Output(u)) - 1 /\ i + 1 \in i .. Len(Output(u))
    BY <1>1, OutputType DEF Write, Far
  <2>2. lines' = [lines EXCEPT ![u] = i + 1] /\ lines'[u] = i + 1
    BY <1>1 DEF Write
  <2>3. \/ stdout' = Append(stdout, l) /\ stderr' = stderr
        \/ stdout' = stdout /\ stderr' = Append(stderr, l)
    BY <1>1, <2>2 DEF Write
  <2>4. Slice(One(l), u, i, i + 1)
    BY <2>1, SliceOne
  <2>5. One(l) \in Seq(LineSet)
    BY <2>4 DEF Slice
  <2>6. exit = "running" /\ unit[u] = "running" /\ UNCHANGED <<inputs, rerun, errs, warns>>
    BY <1>1 DEF Write
  <2> HIDE DEF l
  <2>7. <<>> \in Seq(Chat)
    OBVIOUS
  <2>8. \A s \in Seq(LineSet) : s \o <<>> \o One(l) = Append(s, l)
    BY DEF One
  <2>9. \/ stdout' = stdout \o <<>> \o One(l) /\ stderr' = stderr
        \/ stdout' = stdout /\ stderr' = stderr \o <<>> \o One(l)
    BY <2>3, <2>8
  <2>10. QED
    BY <2>1, <2>2, <2>4, <2>5, <2>6, <2>7, <2>9 DEF Prints
<1>2. ASSUME NEW u \in Units, NEW k \in 0 .. Len(Output(u)), NinjaPrints(u, k) PROVE Prints(u)
  <2> DEFINE x == SubSeq(Output(u), 1, k)
  <2>1. /\ exit = "running" /\ unit[u] = "running" /\ setup.tool = "ninja"
        /\ UNCHANGED <<inputs, rerun, stderr, errs, warns>>
        /\ lines' = [lines EXCEPT ![u] = k]
        /\ stdout' = stdout \o Heading(u) \o x
    BY <1>2 DEF NinjaPrints
  <2>2. lines[u] = 0
    BY <2>1 DEF Far
  <2>3. Slice(x, u, lines[u], k)
    BY <2>2, SliceIs
  <2>4. x \in Seq(LineSet)
    BY <2>3 DEF Slice
  <2>5. Heading(u) \in Seq(Chat)
    BY HeadingType
  <2>6. k \in lines[u] .. Len(Output(u))
    BY <2>2
  <2> HIDE DEF x
  <2>7. QED
    BY <2>1, <2>3, <2>4, <2>5, <2>6 DEF Prints
<1>3. QED
  BY <1>1, <1>2, StepCases

LEMMA TypeInit ==
  ASSUME DiagnoseInit
  PROVE  TypeInv
<1>1. InputsOK
  BY DEF DiagnoseInit, InputsOK
<1>2. \A u \in Units : Len(Output(u)) \in Nat
  BY <1>1, OutputType
<1>3. <<>> \in Seq(LineSet) /\ <<>> \in Seq(Diagnostics)
  OBVIOUS
<1>4. Far
  <2>1. ASSUME NEW u \in Units PROVE lines[u] = 0 /\ unit[u] = "waiting" /\ lines[u] \in 0 .. Len(Output(u))
    <3>1. Len(Output(u)) \in Nat
      BY <1>2
    <3>2. lines[u] = 0 /\ unit[u] = "waiting"
      BY DEF DiagnoseInit
    <3>3. QED
      BY <3>1, <3>2
  <2>2. QED
    BY <2>1 DEF Far
<1>5. QED
  BY <1>1, <1>3, <1>4 DEF DiagnoseInit, TypeInv

\* The streams grow.
LEMMA StreamType ==
  ASSUME TypeInv, Report \/ Talks \/ Reconfigure \/ \E u \in Units : Prints(u)
  PROVE  stdout' \in Seq(LineSet) /\ stderr' \in Seq(LineSet)
<1>0. stdout \in Seq(LineSet) /\ stderr \in Seq(LineSet)
  BY DEF TypeInv
<1>1. CASE Report
  BY <1>0, <1>1 DEF Report
<1>2. CASE Talks
  BY <1>0, <1>2, ChatType DEF Talks, Chats
<1>3. CASE Reconfigure
  <2> DEFINE r == reconfig
             m == [k \in DOMAIN r.says |-> CMakeLine(r.text, r.says[k])]
             p == Noise(<<"[", "status", "]">>)
  <2>1. r \in Reconfigs \cup {None} /\ r # None
    BY <1>3 DEF TypeInv, InputsOK, Reconfigure
  <2>2. r.says \in Seq(Diagnostics) /\ r.text \in Seq(Words)
    BY <2>1, ReconfigIs
  <2>3. r.text \in Seq(Tokens)
    BY <2>2, WordsType
  <2>4. \A k \in DOMAIN r.says : r.says[k] \in Diagnostics
    BY <2>2
  <2>5. \A k \in DOMAIN r.says : CMakeLine(r.text, r.says[k]) \in LineSet
    BY <2>3, <2>4, CMakeLineIs
  <2> HIDE DEF r
  <2>6. m \in Seq(LineSet)
    BY <2>2, <2>5
  <2>7. p \in LineSet
    BY ToolLines DEF Chat
  <2>8. \/ stdout' = stdout \o <<p>> \o m /\ stderr' = stderr
        \/ stdout' = stdout \o <<p>> /\ stderr' = stderr \o m
        \/ stdout' = stdout /\ stderr' = stderr \o m
    BY <1>3 DEF Reconfigure, r
  <2> HIDE DEF m, p
  <2>9. <<p>> \in Seq(LineSet)
    BY <2>7
  <2>10. /\ stdout \o <<p>> \o m \in Seq(LineSet) /\ stderr \o m \in Seq(LineSet)
         /\ stdout \o <<p>> \in Seq(LineSet)
    BY <1>0, <2>6, <2>9, Grow
  <2>11. QED
    BY <1>0, <2>8, <2>10
<1>4. CASE \E u \in Units : Prints(u)
  <2>1. PICK u \in Units : Prints(u)
    BY <1>4
  <2>2. PICK a \in Seq(Chat), x \in Seq(LineSet) :
          \/ stdout' = stdout \o a \o x /\ stderr' = stderr
          \/ stdout' = stdout /\ stderr' = stderr \o a \o x
    BY <2>1 DEF Prints
  <2>3. a \in Seq(LineSet)
    BY ChatType
  <2>4. stdout \o a \o x \in Seq(LineSet) /\ stderr \o a \o x \in Seq(LineSet)
    BY <1>0, <2>3, Grow
  <2>5. QED
    BY <1>0, <2>2, <2>4
<1>5. QED
  BY <1>1, <1>2, <1>3, <1>4

LEMMA TypeStep ==
  ASSUME TypeInv, DiagnoseNext
  PROVE  TypeInv'
<1>1. UNCHANGED inputs
  BY DEF DiagnoseNext, Reconfigure, Exit, Kill, Report, Start, Write, MakeEnds, NinjaEnds
<1>2. InputsOK' /\ \A u \in Units : Output(u)' = Output(u)
  BY <1>1, Unchanged DEF TypeInv
<1>3. stdout' \in Seq(LineSet) /\ stderr' \in Seq(LineSet)
  BY StepShape, StreamType
<1>4. \A u \in Units : Len(Output(u)) \in Nat
  BY OutputType DEF TypeInv
<1>5. setup' = setup /\ reconfig' = reconfig
  BY <1>1 DEF inputs
<1>6. InputsOK
  BY DEF TypeInv
<1> DEFINE Rest ==
      /\ rerun' \in BOOLEAN /\ (rerun' => reconfig # None)
      /\ unit' \in [Units -> {"waiting", "running", "done", "failed"}]
      /\ lines' \in [Units -> Nat]
      /\ exit' \in {"running", "ok", "failed", "killed"}
      /\ said' \in Seq(Diagnostics)
    NowFar ==
      \A u \in Units :
        /\ lines'[u] \in 0 .. Len(Output(u))
        /\ unit'[u] = "waiting" => lines'[u] = 0
        /\ unit'[u] \in {"done", "failed"} => lines'[u] = Len(Output(u))
        /\ setup.tool = "ninja" /\ exit' = "running" /\ unit'[u] = "running" => lines'[u] = 0
        /\ rerun' => unit'[u] = "waiting"
<1>7. CASE Reconfigure
  <2>1. Rest
    BY <1>7 DEF TypeInv, Reconfigure
  <2>2. NowFar
    BY <1>7 DEF TypeInv, Far, Reconfigure
  <2>3. QED
    BY <1>2, <1>3, <1>5, <2>1, <2>2 DEF TypeInv, Far
<1>8. CASE Exit
  <2>1. Rest
    BY <1>8 DEF TypeInv, Exit
  <2>2. NowFar
    BY <1>8 DEF TypeInv, Far, Exit
  <2>3. QED
    BY <1>2, <1>3, <1>5, <2>1, <2>2 DEF TypeInv, Far
<1>9. CASE Report
  <2>1. Rest
    BY <1>9 DEF TypeInv, Report
  <2>2. NowFar
    BY <1>9 DEF TypeInv, Far, Report
  <2>3. QED
    BY <1>2, <1>3, <1>5, <2>1, <2>2 DEF TypeInv, Far
<1>10. CASE Kill
  <2>1. exit = "running" /\ exit' = "killed" /\ rerun' = rerun /\ unit' = unit
    BY <1>10 DEF Kill
  <2>2. CASE UNCHANGED <<lines, stdout, said>>
    <3>1. Rest
      BY <2>1, <2>2 DEF TypeInv
    <3>2. NowFar
      BY <2>1, <2>2 DEF TypeInv, Far
    <3>3. QED
      BY <1>2, <1>3, <1>5, <3>1, <3>2 DEF TypeInv, Far
  <2>3. CASE \E u \in Units :
               /\ unit[u] = "running"
               /\ \E k \in 0 .. Len(Output(u)) :
                    lines' = [lines EXCEPT ![u] = k] /\ said' = said \o CompletedBy(u, k)
    <3>1. PICK u \in Units :
               /\ unit[u] = "running"
               /\ \E k \in 0 .. Len(Output(u)) :
                    lines' = [lines EXCEPT ![u] = k] /\ said' = said \o CompletedBy(u, k)
      BY <2>3
    <3>2. PICK k \in 0 .. Len(Output(u)) : lines' = [lines EXCEPT ![u] = k] /\ said' = said \o CompletedBy(u, k)
      BY <3>1
    <3>3. CompletedBy(u, k) \in Seq(Diagnostics) /\ k \in Nat
      BY <1>4, <1>6, CompletedByType
    <3>4. Rest
      BY <2>1, <3>2, <3>3 DEF TypeInv
    <3>5. NowFar
      BY <2>1, <3>1, <3>2, <3>3 DEF TypeInv, Far
    <3>6. QED
      BY <1>2, <1>3, <1>5, <3>4, <3>5 DEF TypeInv, Far
  <2>4. QED
    BY <1>10, <2>2, <2>3 DEF Kill
<1>11. ASSUME NEW u \in Units, Start(u) PROVE TypeInv'
  <2>1. Rest
    BY <1>11 DEF TypeInv, Start
  <2>2. NowFar
    BY <1>11 DEF TypeInv, Far, Start, MayStart
  <2>3. QED
    BY <1>2, <1>3, <1>5, <2>1, <2>2 DEF TypeInv, Far
<1>12. ASSUME NEW u \in Units, Write(u) PROVE TypeInv'
  <2>1. /\ lines[u] + 1 \in DOMAIN Output(u) /\ lines[u] + 1 \in 0 .. Len(Output(u))
        /\ lines' = [lines EXCEPT ![u] = lines[u] + 1] /\ lines'[u] = lines[u] + 1
    <3>1. Output(u) \in Seq(LineSet)
      BY <1>6, OutputType
    <3>2. QED
      BY <1>4, <1>12, <3>1 DEF TypeInv, Far, Write
  <2>2. Completes(u, lines[u] + 1) \in Seq(Diagnostics)
    BY <1>6, <2>1, CompletesType
  <2>3. said' = said \o Completes(u, lines[u] + 1)
    BY <1>12, <2>1 DEF Write
  <2>4. Rest
    BY <1>12, <2>1, <2>2, <2>3 DEF TypeInv, Write
  <2>5. NowFar
    BY <1>12, <2>1 DEF TypeInv, Far, Write
  <2>6. QED
    BY <1>2, <1>3, <1>5, <2>4, <2>5 DEF TypeInv, Far
<1>13. ASSUME NEW u \in Units, MakeEnds(u) PROVE TypeInv'
  <2>1. Ended(u) \in {"done", "failed"}
    BY DEF Ended
  <2>2. Rest
    BY <1>13, <2>1 DEF TypeInv, MakeEnds
  <2>3. NowFar
    BY <1>13, <2>1 DEF TypeInv, Far, MakeEnds
  <2>4. QED
    BY <1>2, <1>3, <1>5, <2>2, <2>3 DEF TypeInv, Far
<1>14. ASSUME NEW u \in Units, NinjaEnds(u) PROVE TypeInv'
  <2>1. Ended(u) \in {"done", "failed"}
    BY DEF Ended
  <2>2. Len(Output(u)) \in 0 .. Len(Output(u))
    BY <1>4
  <2>3. CompletedBy(u, Len(Output(u))) \in Seq(Diagnostics)
    BY <1>6, <2>2, CompletedByType
  <2>4. Rest
    BY <1>4, <1>14, <2>1, <2>3 DEF TypeInv, NinjaEnds
  <2>5. NowFar
    BY <1>14, <2>1, <2>2 DEF TypeInv, Far, NinjaEnds
  <2>6. QED
    BY <1>2, <1>3, <1>5, <2>4, <2>5 DEF TypeInv, Far
<1>15. QED
  BY <1>7, <1>8, <1>9, <1>10, <1>11, <1>12, <1>13, <1>14 DEF DiagnoseNext

-----------------------------------------------------------------------------
(* What handleBuild reports, and when.                                     *)

Parsed == Parse(resolveToolchain(setup), stdout, stderr, Documents, Dialect(setup))
Diags  == Parsed \o Fallback(Parsed)

ReportInv ==
  /\ exit = "running" => errs = None
  /\ errs = None => warns = None
  /\ Reported => errs = OfSeverity("error", Diags) /\ warns = OfSeverity("warning", Diags)

LEMMA DocumentsType ==
  ASSUME InputsOK
  PROVE  Documents \subseteq Seq(Diagnostics)
BY WorkIs DEF InputsOK, Documents

LEMMA FallbackType ==
  ASSUME TypeInv, NEW ds
  PROVE  Fallback(ds) \in Seq(Diagnostics)
<1>1. stdout \o stderr \in Seq(LineSet) /\ <<>> \in Seq(Diagnostics)
  BY DEF TypeInv
<1>2. CMakeDiagnostics(stdout \o stderr) \in Seq(Diagnostics)
  BY <1>1, CMakeDiagnosticsIs
<1>3. QED
  BY <1>1, <1>2 DEF Fallback

\* Either the parser gave up, or there is what it read.
LEMMA DiagsType ==
  ASSUME TypeInv
  PROVE  \/ Parsed = ParseFailure /\ Diags = ParseFailure
         \/ Parsed \in Seq(Readings) /\ Diags \in Seq(Readings)
<1>1. Parsed = ParseFailure \/ Parsed \in Seq(Readings)
  <2>1. stdout \in Seq(LineSet) /\ stderr \in Seq(LineSet) /\ Documents \subseteq Seq(Diagnostics)
    BY DocumentsType DEF TypeInv
  <2>2. QED
    BY <2>1, ParseType DEF Parsed
<1>2. CASE Parsed = ParseFailure
  <2>1. Fallback(Parsed) = <<>>
    BY <1>2, OfSeverityFailure DEF Fallback
  <2>2. QED
    BY <1>2, <2>1, OfSeverityFailure DEF Diags
<1>3. CASE Parsed \in Seq(Readings)
  <2>1. Fallback(Parsed) \in Seq(Diagnostics)
    BY FallbackType
  <2>2. Fallback(Parsed) \in Seq(Readings)
    BY <2>1, ResultsType
  <2>3. QED
    BY <1>3, <2>2 DEF Diags
<1>4. QED
  BY <1>1, <1>2, <1>3

LEMMA ReportsType ==
  ASSUME TypeInv
  PROVE  /\ OfSeverity("error", Diags) # None /\ OfSeverity("warning", Diags) # None
         /\ \A k \in DOMAIN OfSeverity("error", Diags) : OfSeverity("error", Diags)[k].severity = "error"
         /\ \A k \in DOMAIN OfSeverity("warning", Diags) : OfSeverity("warning", Diags)[k].severity = "warning"
<1>1. None \notin Seq(Readings) /\ None # ParseFailure /\ <<>> \in Seq(Readings)
  BY SaidAssumption
<1>2. CASE Diags = ParseFailure
  <2>1. OfSeverity("error", Diags) = ParseFailure /\ OfSeverity("warning", Diags) = <<>>
    BY <1>2, OfSeverityFailure
  <2>2. DOMAIN OfSeverity("warning", Diags) = {}
    BY <2>1
  <2>3. QED
    BY <1>1, <2>1, <2>2, OfSeverityFailure
<1>3. CASE Diags \in Seq(Readings)
  <2>1. ASSUME NEW severity
        PROVE  /\ OfSeverity(severity, Diags) # None
               /\ \A k \in DOMAIN OfSeverity(severity, Diags) : OfSeverity(severity, Diags)[k].severity = severity
    <3>1. OfSeverity(severity, Diags) \in Seq(Readings) /\ OfSeverity(severity, Diags) \in Seq(Severe(severity))
      BY <1>3, OfSeverityOf
    <3>2. \A k \in DOMAIN OfSeverity(severity, Diags) : OfSeverity(severity, Diags)[k] \in Severe(severity)
      BY <3>1
    <3>3. QED
      BY <1>1, <3>1, <3>2 DEF Severe
  <2>2. QED
    BY <2>1
<1>4. QED
  BY <1>2, <1>3, DiagsType

LEMMA ReportInit ==
  ASSUME DiagnoseInit
  PROVE  ReportInv
BY DEF DiagnoseInit, ReportInv, Reported

LEMMA ReportStep ==
  ASSUME TypeInv, ReportInv, [DiagnoseNext]_diagnoseVars
  PROVE  ReportInv'
<1>1. CASE Report
  <2>1. UNCHANGED <<inputs, stdout, stderr, exit>>
    BY <1>1 DEF Report
  <2>2. Parsed' = Parsed /\ Diags' = Diags
    BY <2>1 DEF Diags, Parsed, Fallback, Documents, Dialect, inputs
  <2>3. errs' = OfSeverity("error", Diags) /\ warns' = OfSeverity("warning", Diags)
    BY <1>1 DEF Report, Diags, Parsed
  <2>4. errs' # None
    BY <2>3, ReportsType
  <2>5. exit' # "running"
    BY <1>1 DEF Report
  <2>6. errs' = OfSeverity("error", Diags') /\ warns' = OfSeverity("warning", Diags')
    BY <2>2, <2>3
  <2>7. QED
    BY <2>4, <2>5, <2>6 DEF ReportInv, Reported
<1>2. CASE DiagnoseNext /\ ~ Report
  <2>1. exit = "running" /\ errs' = errs /\ warns' = warns
    BY <1>2 DEF DiagnoseNext, Reconfigure, Exit, Kill, Start, Write, MakeEnds, NinjaEnds
  <2>2. QED
    BY <2>1 DEF ReportInv, Reported
<1>3. CASE UNCHANGED diagnoseVars
  <2>1. UNCHANGED <<inputs, stdout, stderr, exit, errs, warns>>
    BY <1>3 DEF diagnoseVars
  <2>2. Parsed' = Parsed /\ Diags' = Diags
    BY <2>1 DEF Diags, Parsed, Fallback, Documents, Dialect, inputs
  <2>3. QED
    BY <2>1, <2>2 DEF ReportInv, Reported
<1>4. QED
  BY <1>1, <1>2, <1>3

LEMMA TypeStutter ==
  ASSUME TypeInv, UNCHANGED diagnoseVars
  PROVE  TypeInv'
BY DEF TypeInv, InputsOK, Far, diagnoseVars, inputs, Output

\* What is reported are errors and warnings, both when handleBuild is done, of
\* a build whose units have printed no more than they have to say
\* (main.go:493-523, FinishBuild).
THEOREM DiagnoseTypes == DiagnoseSpec => []DiagnoseTypeOK
<1>1. DiagnoseInit => TypeInv /\ ReportInv
  BY TypeInit, ReportInit
<1>2. TypeInv /\ ReportInv /\ [DiagnoseNext]_diagnoseVars => (TypeInv /\ ReportInv)'
  BY TypeStep, TypeStutter, ReportStep
<1>3. TypeInv /\ ReportInv => DiagnoseTypeOK
  <2> SUFFICES ASSUME TypeInv, ReportInv PROVE DiagnoseTypeOK
    OBVIOUS
  <2>1. errs = None <=> warns = None
    BY ReportsType DEF ReportInv, Reported
  <2>2. Reported => /\ \A k \in DOMAIN errs : errs[k].severity = "error"
                    /\ \A k \in DOMAIN warns : warns[k].severity = "warning"
    BY ReportsType DEF ReportInv
  <2>3. QED
    BY <2>1, <2>2 DEF DiagnoseTypeOK, TypeInv, Far
<1>4. QED
  BY <1>1, <1>2, <1>3, PTL DEF DiagnoseSpec

-----------------------------------------------------------------------------
(* What CMake says.                                                        *)

\* Where no document is looked for, and nothing is stated.
Plain ==
  {l \in LineSet : /\ l.states = None /\ l.text \in Seq(Words)
                   /\ l.noise \/ ~ Starts(l, {"{", "["})}

Messages == [k \in DOMAIN reconfig.says |-> CMakeLine(reconfig.text, reconfig.says[k])]
Status   == Noise(<<"[", "status", "]">>)

LEMMA SeqIs ==
  ASSUME NEW S, NEW s \in Seq(S)
  PROVE  s = [k \in DOMAIN s |-> s[k]]
OBVIOUS

LEMMA MessagesAre ==
  ASSUME InputsOK, reconfig # None
  PROVE  /\ Messages \in Seq(LineSet) /\ Messages \in Seq(Plain)
         /\ \A k \in DOMAIN Messages : Messages[k].noise = FALSE /\ Messages[k].text = reconfig.text
         /\ CMakeDiagnostics(Messages) = reconfig.says
         /\ reconfig.says \in Seq(Diagnostics)
<1> DEFINE r == reconfig
           ds == r.says
<1>1. r \in Reconfigs \cup {None}
  BY DEF InputsOK
<1>2. ds \in Seq(Diagnostics) /\ r.text \in Seq(Words) /\ ~ Starts(Line(r.text), {"{", "["})
  BY <1>1, ReconfigIs
<1>3. r.text \in Seq(Tokens)
  BY <1>2, WordsType
<1>4. ASSUME NEW d \in Diagnostics
      PROVE  /\ CMakeLine(r.text, d) \in LineSet /\ CMakeLine(r.text, d) \in Plain
             /\ CMakeLine(r.text, d).noise = FALSE /\ CMakeLine(r.text, d).text = r.text
             /\ CMakeLine(r.text, d).cmake = d
  <2>1. /\ CMakeLine(r.text, d) \in LineSet /\ CMakeLine(r.text, d).text = r.text
        /\ CMakeLine(r.text, d).states = None /\ CMakeLine(r.text, d).cmake = d
        /\ CMakeLine(r.text, d).noise = FALSE
    BY <1>3, CMakeLineIs
  <2>2. Line(r.text).text = r.text
    BY <1>3, LineIs
  <2>3. ~ Starts(CMakeLine(r.text, d), {"{", "["})
    BY <1>2, <2>1, <2>2 DEF Starts
  <2>4. QED
    BY <1>2, <2>1, <2>3 DEF Plain
<1>6. Messages = [k \in DOMAIN ds |-> CMakeLine(r.text, ds[k])]
  BY DEF Messages
<1> HIDE DEF ds
<1>0. ds \in Seq(Diagnostics)
  BY <1>2 DEF ds
<1> HIDE DEF r
<1>5. \A k \in DOMAIN ds : ds[k] \in Diagnostics
  BY <1>0
<1>7. /\ DOMAIN Messages = DOMAIN ds
      /\ \A k \in DOMAIN ds : /\ Messages[k] \in LineSet /\ Messages[k] \in Plain
                              /\ Messages[k].noise = FALSE /\ Messages[k].text = r.text
                              /\ Messages[k].cmake = ds[k] /\ ds[k] \in Diagnostics
  BY <1>4, <1>5, <1>6
<1>8. Messages \in Seq(LineSet) /\ Messages \in Seq(Plain)
  <2>1. DOMAIN ds = 1 .. Len(ds) /\ Len(ds) \in Nat
    BY <1>0
  <2>2. Messages = [k \in 1 .. Len(ds) |-> Messages[k]]
    BY <1>6, <2>1
  <2>3. QED
    BY <1>7, <2>1, <2>2
<1>9. CMakeDiagnostics(Messages) = ds
  <2>1. \A k \in DOMAIN Messages : Messages[k] \in CMakes /\ CMakeOf[Messages[k]] = ds[k]
    BY <1>7, SaidAssumption DEF CMakes, CMakeOf
  <2>2. CMakeDiagnostics(Messages) = Mapped(CMakeOf, Messages)
    BY <1>8, <2>1, CMakeDiagnosticsIs, ChosenAll
  <2>3. Mapped(CMakeOf, Messages) = [k \in DOMAIN ds |-> ds[k]]
    BY <1>7, <2>1 DEF Mapped
  <2>4. [k \in DOMAIN ds |-> ds[k]] = ds
    BY <1>0, SeqIs
  <2>5. QED
    BY <2>2, <2>3, <2>4
<1>10. QED
  BY <1>2, <1>7, <1>8, <1>9 DEF r, ds

LEMMA ReconfigureIs ==
  ASSUME TypeInv, Reconfigure
  PROVE  /\ rerun /\ reconfig # None /\ exit = "running" /\ rerun' = FALSE
         /\ UNCHANGED <<inputs, unit, lines, errs, warns, said>>
         /\ exit' = IF reconfig.ok THEN "running" ELSE "failed"
         /\ \/ /\ setup.tool = "ninja"
               /\ stdout' = stdout \o One(Status) \o Messages /\ stderr' = stderr
            \/ /\ setup.tool = "ninja"
               /\ stdout' = stdout \o One(Status) /\ stderr' = stderr \o Messages
            \/ /\ setup.tool # "ninja"
               /\ stdout' = stdout /\ stderr' = stderr \o Messages
BY DEF Reconfigure, TypeInv, One, Status, Messages

\* It is on one of the streams.
CMakeInv ==
  \/ CMakeDiagnostics(stdout) = CMakeSaid /\ CMakeDiagnostics(stderr) = <<>>
  \/ CMakeDiagnostics(stdout) = <<>> /\ CMakeDiagnostics(stderr) = CMakeSaid

\* CMake failed, or a unit did.
FailInv ==
  exit = "failed" => \/ \E u \in Units : unit[u] = "failed"
                     \/ reconfig # None /\ ~ rerun /\ ~ reconfig.ok

\* As long as no unit has printed anything.
MuteInv ==
  (\A u \in Units : lines[u] = 0) => stdout \in Seq(Plain) /\ stderr \in Seq(Plain)

LEMMA CMakeSaidType ==
  ASSUME InputsOK
  PROVE  CMakeSaid \in Seq(Diagnostics)
<1>1. <<>> \in Seq(Diagnostics)
  OBVIOUS
<1>2. QED
  BY <1>1, ReconfigIs DEF CMakeSaid, InputsOK

\* What is not CMake's.
LEMMA GrowsPlainly ==
  ASSUME NEW s \in Seq(LineSet), NEW a \in Seq(LineSet), \A k \in DOMAIN a : a[k].cmake = None
  PROVE  CMakeDiagnostics(s \o a) = CMakeDiagnostics(s)
<1> DEFINE c == CMakeDiagnostics(s)
<1>1. CMakeDiagnostics(s \o a) = c \o CMakeDiagnostics(a)
  BY CMakeDiagnosticsConcat
<1>2. CMakeDiagnostics(a) = <<>>
  BY CMakeDiagnosticsNone
<1>3. c \in Seq(Diagnostics)
  BY CMakeDiagnosticsIs
<1> HIDE DEF c
<1>4. c \o <<>> = c
  BY <1>3
<1>5. QED
  BY <1>1, <1>2, <1>4 DEF c

LEMMA ChatCMake ==
  ASSUME NEW s \in Seq(LineSet), NEW a \in Seq(Chat)
  PROVE  CMakeDiagnostics(s \o a) = CMakeDiagnostics(s)
<1>1. a \in Seq(LineSet)
  BY ChatType
<1>2. \A k \in DOMAIN a : a[k].cmake = None
  <2>1. \A k \in DOMAIN a : a[k] \in Chat
    OBVIOUS
  <2>2. QED
    BY <2>1 DEF Chat
<1>3. QED
  BY <1>1, <1>2, GrowsPlainly

LEMMA SliceCMake ==
  ASSUME InputsOK, NEW u \in Units, NEW i, NEW k, NEW s \in Seq(LineSet), NEW x, Slice(x, u, i, k)
  PROVE  CMakeDiagnostics(s \o x) = CMakeDiagnostics(s)
<1>1. x \in Seq(LineSet) /\ \A j \in DOMAIN x : x[j].cmake = None
  BY OutputType DEF Slice
<1>2. QED
  BY <1>1, GrowsPlainly

LEMMA CMakeInit ==
  ASSUME DiagnoseInit
  PROVE  CMakeInv /\ FailInv /\ MuteInv
<1>1. <<>> \in Seq(LineSet) /\ <<>> \in Seq(Plain) /\ DOMAIN <<>> = {}
  OBVIOUS
<1>2. CMakeDiagnostics(<<>>) = <<>>
  BY <1>1, CMakeDiagnosticsNone
<1>3. CMakeSaid = <<>>
  BY DEF DiagnoseInit, CMakeSaid
<1>4. QED
  BY <1>1, <1>2, <1>3 DEF DiagnoseInit, CMakeInv, FailInv, MuteInv

LEMMA CMakeStep ==
  ASSUME TypeInv, CMakeInv, DiagnoseNext
  PROVE  CMakeInv'
<1>1. stdout \in Seq(LineSet) /\ stderr \in Seq(LineSet) /\ InputsOK
  BY DEF TypeInv
<1>2. CASE Report
  BY <1>2 DEF Report, CMakeInv, CMakeSaid, inputs
<1>3. CASE Talks
  <2>1. /\ CMakeDiagnostics(stdout') = CMakeDiagnostics(stdout)
        /\ CMakeDiagnostics(stderr') = CMakeDiagnostics(stderr)
    BY <1>1, <1>3, ChatCMake DEF Talks, Chats
  <2>2. QED
    BY <1>3, <2>1 DEF Talks, CMakeInv, CMakeSaid, inputs
<1>4. CASE Reconfigure
  <2>1. rerun /\ reconfig # None /\ rerun' = FALSE /\ UNCHANGED inputs
    BY <1>4, ReconfigureIs
  <2>2. /\ CMakeSaid = <<>> /\ CMakeSaid' = reconfig.says
        /\ setup' = setup
    BY <2>1 DEF CMakeSaid, inputs
  <2>3. /\ Messages \in Seq(LineSet) /\ CMakeDiagnostics(Messages) = reconfig.says
        /\ reconfig.says \in Seq(Diagnostics)
    BY <1>1, <2>1, MessagesAre
  <2>4. CMakeDiagnostics(stdout) = <<>> /\ CMakeDiagnostics(stderr) = <<>>
    BY <2>2 DEF CMakeInv
  <2>5. One(Status) \in Seq(Chat)
    BY ToolLines, OneType DEF Status, Chat
  <2>6. stdout \o One(Status) \in Seq(LineSet) /\ CMakeDiagnostics(stdout \o One(Status)) = <<>>
    BY <1>1, <2>4, <2>5, ChatType, ChatCMake
  <2>7. ASSUME NEW s \in Seq(LineSet), CMakeDiagnostics(s) = <<>>
        PROVE  CMakeDiagnostics(s \o Messages) = reconfig.says
    <3>1. CMakeDiagnostics(s \o Messages) = CMakeDiagnostics(s) \o CMakeDiagnostics(Messages)
      BY <2>3, CMakeDiagnosticsConcat
    <3>2. \A ds \in Seq(Diagnostics) : <<>> \o ds = ds
      OBVIOUS
    <3>3. QED
      BY <2>3, <2>7, <3>1, <3>2
  <2> DEFINE p == stdout \o One(Status)
  <2>8. \/ stdout' = p \o Messages /\ stderr' = stderr
        \/ stdout' = p /\ stderr' = stderr \o Messages
        \/ stdout' = stdout /\ stderr' = stderr \o Messages
    BY <1>4, ReconfigureIs
  <2>9. p \in Seq(LineSet) /\ CMakeDiagnostics(p) = <<>>
    BY <2>6
  <2> HIDE DEF p
  <2>10. /\ CMakeDiagnostics(p \o Messages) = reconfig.says
         /\ CMakeDiagnostics(stderr \o Messages) = reconfig.says
    BY <1>1, <2>4, <2>7, <2>9
  <2>11. QED
    BY <2>2, <2>4, <2>8, <2>9, <2>10 DEF CMakeInv
<1>5. ASSUME NEW u \in Units, Prints(u) PROVE CMakeInv'
  <2>1. PICK k \in lines[u] .. Len(Output(u)), a \in Seq(Chat), x \in Seq(LineSet) :
          /\ Slice(x, u, lines[u], k)
          /\ \/ stdout' = stdout \o a \o x /\ stderr' = stderr
             \/ stdout' = stdout /\ stderr' = stderr \o a \o x
    BY <1>5 DEF Prints
  <2>2. ASSUME NEW s \in Seq(LineSet)
        PROVE  CMakeDiagnostics(s \o a \o x) = CMakeDiagnostics(s)
    <3>1. s \o a \in Seq(LineSet)
      BY ChatType
    <3>2. CMakeDiagnostics(s \o a) = CMakeDiagnostics(s)
      BY ChatCMake
    <3> DEFINE t == s \o a
    <3> HIDE DEF t
    <3>3. t \in Seq(LineSet)
      BY <3>1 DEF t
    <3>4. CMakeDiagnostics(t \o x) = CMakeDiagnostics(t)
      BY <1>1, <2>1, <3>3, SliceCMake
    <3>5. QED
      BY <3>2, <3>4 DEF t
  <2>3. /\ CMakeDiagnostics(stdout') = CMakeDiagnostics(stdout)
        /\ CMakeDiagnostics(stderr') = CMakeDiagnostics(stderr)
    BY <1>1, <2>1, <2>2
  <2>4. QED
    BY <1>5, <2>3 DEF Prints, CMakeInv, CMakeSaid, inputs
<1>6. QED
  BY <1>2, <1>3, <1>4, <1>5, StepShape

LEMMA FailStep ==
  ASSUME TypeInv, FailInv, DiagnoseNext
  PROVE  FailInv'
<1>1. CASE Reconfigure
  BY <1>1, ReconfigureIs DEF FailInv, inputs
<1>2. CASE Exit
  BY <1>2 DEF Exit, FailInv
<1>3. CASE Kill
  BY <1>3 DEF Kill, FailInv
<1>4. CASE Report
  BY <1>4 DEF Report, FailInv, inputs
<1>5. CASE \E u \in Units : Start(u) \/ Write(u) \/ MakeEnds(u) \/ NinjaEnds(u)
  BY <1>5 DEF Start, Write, MakeEnds, NinjaEnds, FailInv
<1>6. QED
  BY <1>1, <1>2, <1>3, <1>4, <1>5 DEF DiagnoseNext

LEMMA MuteStep ==
  ASSUME TypeInv, MuteInv, DiagnoseNext
  PROVE  MuteInv'
<1> SUFFICES ASSUME \A u \in Units : lines'[u] = 0
             PROVE  stdout' \in Seq(Plain) /\ stderr' \in Seq(Plain)
  BY DEF MuteInv
<1>1. Chat \subseteq Plain
  BY DEF Chat, Plain
<1>2. CASE Report
  BY <1>2 DEF Report, MuteInv
<1>3. CASE Talks
  <2>1. stdout \in Seq(Plain) /\ stderr \in Seq(Plain)
    BY <1>3 DEF Talks, MuteInv
  <2>2. QED
    BY <1>1, <1>3, <2>1 DEF Talks, Chats
<1>4. CASE Reconfigure
  <2>1. reconfig # None /\ lines' = lines
    BY <1>4, ReconfigureIs
  <2>2. stdout \in Seq(Plain) /\ stderr \in Seq(Plain)
    BY <2>1 DEF MuteInv
  <2>3. Messages \in Seq(Plain)
    BY <2>1, MessagesAre DEF TypeInv
  <2>4. One(Status) \in Seq(Plain)
    <3>1. Status \in Plain
      BY <1>1, ToolLines DEF Status
    <3>2. QED
      BY <3>1, OneType
  <2>5. /\ stdout \o One(Status) \o Messages \in Seq(Plain)
        /\ stdout \o One(Status) \in Seq(Plain)
        /\ stderr \o Messages \in Seq(Plain)
    BY <2>2, <2>3, <2>4, Grow
  <2>6. QED
    BY <1>4, <2>2, <2>5, ReconfigureIs
<1>5. ASSUME NEW u \in Units, Prints(u) PROVE stdout' \in Seq(Plain) /\ stderr' \in Seq(Plain)
  <2>1. PICK k \in lines[u] .. Len(Output(u)), a \in Seq(Chat), x \in Seq(LineSet) :
          /\ Slice(x, u, lines[u], k)
          /\ lines' = [lines EXCEPT ![u] = k]
          /\ \/ stdout' = stdout \o a \o x /\ stderr' = stderr
             \/ stdout' = stdout /\ stderr' = stderr \o a \o x
    BY <1>5 DEF Prints
  <2>2. lines \in [Units -> Nat]
    BY DEF TypeInv
  <2>3. k = 0 /\ lines[u] = 0 /\ \A v \in Units : lines[v] = 0
    <3>1. lines'[u] = k /\ \A v \in Units \ {u} : lines'[v] = lines[v]
      BY <2>1, <2>2
    <3>2. k = 0 /\ lines[u] \in Nat /\ lines[u] <= k
      BY <2>1, <2>2, <3>1
    <3>3. QED
      BY <3>1, <3>2
  <2>4. stdout \in Seq(Plain) /\ stderr \in Seq(Plain)
    BY <2>3 DEF MuteInv
  <2>5. x = <<>>
    BY <2>1, <2>3 DEF Slice
  <2>6. a \in Seq(Plain) /\ x \in Seq(Plain)
    BY <1>1, <2>5
  <2>7. stdout \o a \o x \in Seq(Plain) /\ stderr \o a \o x \in Seq(Plain)
    BY <2>4, <2>6, Grow
  <2>8. QED
    BY <2>1, <2>4, <2>7
<1>6. QED
  BY <1>2, <1>3, <1>4, <1>5, StepShape

LEMMA CMakeStutter ==
  ASSUME CMakeInv, FailInv, MuteInv, UNCHANGED diagnoseVars
  PROVE  (CMakeInv /\ FailInv /\ MuteInv)'
BY DEF CMakeInv, CMakeSaid, FailInv, MuteInv, diagnoseVars, inputs

LEMMA PlainSilent ==
  ASSUME NEW s \in Seq(Plain)
  PROVE  /\ s \in Seq(LineSet) /\ Stated(s) = <<>>
         /\ ~ hasStructuredContent(stripNinjaNoise(s))
<1>1. Plain \subseteq LineSet
  BY DEF Plain
<1>2. s \in Seq(LineSet)
  BY <1>1
<1>3. \A k \in DOMAIN s : s[k] \in Plain
  OBVIOUS
<1>4. Stated(s) = <<>>
  BY <1>2, <1>3, StatedNone DEF Plain
<1>5. ~ hasStructuredContent(stripNinjaNoise(s))
  <2> DEFINE V == {l \in LineSet : Starts(l, {"{", "["})}
             t == stripNinjaNoise(s)
  <2>1. t \in Seq(LineSet)
    BY <1>2, StripIs
  <2> HIDE DEF t
  <2>2. ~ Meets(V \cap Silent, s)
    BY <1>3 DEF Meets, Plain, Silent
  <2>3. ~ Meets(V, t)
    BY <1>2, <2>2, StripMeets DEF t
  <2>4. \A k \in DOMAIN t : t[k] \in LineSet
    BY <2>1
  <2> HIDE DEF V
  <2>5. \A k \in DOMAIN t : t[k] \notin V
    BY <2>3 DEF Meets
  <2>7. \A k \in DOMAIN t : ~ Starts(t[k], {"{", "["})
    BY <2>4, <2>5 DEF V
  <2>6. QED
    BY <2>7 DEF hasStructuredContent, t
<1>6. QED
  BY <1>2, <1>4, <1>5

\* There is nothing to parse in an empty input.
LEMMA EmptyInput ==
  ASSUME NEW open, NEW close, NEW target, NEW dialect, NEW known
  PROVE  ParseChunks(Split(<<>>, open, close), target, dialect, known) = <<>>
<1>1. Split(<<>>, open, close) = <<>>
  BY TextEmpty, ScannedEmpty DEF Split, Scanning
<1>2. <<>> \in Seq(Seq(Tokens)) /\ DOMAIN <<>> = {}
  OBVIOUS
<1>3. ParseChunks(<<>>, target, dialect, known)
        = FlattenSeq(Mapped(Meaning(target, dialect, known), <<>>))
  BY <1>2, ParseChunksIs
<1>4. QED
  BY <1>1, <1>3, MappedEmpty, FlattenEmpty

LEMMA NothingParsed ==
  ASSUME NEW toolchain, NEW s \in Seq(Plain), NEW t \in Seq(Plain), NEW known, NEW dialect
  PROVE  Parse(toolchain, s, t, known, dialect) = <<>>
<1>1. StructuredInput(s, t) = <<>>
  BY PlainSilent DEF StructuredInput
<1>2. Stated(t) = <<>>
  BY PlainSilent
<1>3. ClangParse(s, t, known, dialect) = <<>>
  BY <1>1, EmptyInput DEF ClangParse
<1>4. GCCParse(s, t, known, dialect) = <<>>
  BY <1>1, EmptyInput DEF GCCParse
<1>5. CASE toolchain = "clang"
  BY <1>3, <1>5 DEF Parse
<1>6. CASE toolchain = "gcc"
  BY <1>4, <1>6 DEF Parse
<1>7. CASE toolchain \notin {"clang", "gcc"}
  BY <1>2, <1>7 DEF Parse, RegexParse
<1>8. QED
  BY <1>5, <1>6, <1>7

LEMMA AllCMakeDiagnostics ==
  ASSUME TypeInv, CMakeInv
  PROVE  CMakeDiagnostics(stdout \o stderr) = CMakeSaid
<1> DEFINE c == CMakeSaid
<1>1. CMakeDiagnostics(stdout \o stderr) = CMakeDiagnostics(stdout) \o CMakeDiagnostics(stderr)
  BY CMakeDiagnosticsConcat DEF TypeInv
<1>2. c \in Seq(Diagnostics)
  BY CMakeSaidType DEF TypeInv
<1> HIDE DEF c
<1>3. c \o <<>> = c /\ <<>> \o c = c
  BY <1>2
<1>4. QED
  BY <1>1, <1>3 DEF CMakeInv, c

LEMMA ReconfigureIsExplained ==
  ASSUME TypeInv, ReportInv, CMakeInv, FailInv, MuteInv
  PROVE  ReconfigureExplained
<1> SUFFICES ASSUME Reported, exit = "failed", \A u \in Units : unit[u] = "waiting"
             PROVE  errs # <<>> /\ errs = OfSeverity("error", CMakeSaid)
  BY DEF ReconfigureExplained
<1>1. \A u \in Units : lines[u] = 0
  BY DEF TypeInv, Far
<1>2. Parsed = <<>>
  BY <1>1, NothingParsed DEF MuteInv, Parsed
<1>3. <<>> \in Seq(Diagnostics)
  OBVIOUS
<1>4. OfSeverity("error", <<>>) = <<>>
  BY <1>3, OfSeverityIs, OnlyEmpty
<1>5. Fallback(Parsed) = CMakeSaid
  BY <1>2, <1>4, AllCMakeDiagnostics DEF Fallback
<1>6. CMakeSaid \in Seq(Diagnostics)
  BY CMakeSaidType DEF TypeInv
<1>7. Diags = CMakeSaid
  <2> DEFINE c == CMakeSaid
  <2>1. c \in Seq(Diagnostics)
    BY <1>6
  <2> HIDE DEF c
  <2>2. <<>> \o c = c
    BY <2>1
  <2>3. QED
    BY <1>2, <1>5, <2>2 DEF Diags, c
<1>8. errs = OfSeverity("error", CMakeSaid)
  BY <1>7 DEF ReportInv
<1>9. reconfig # None /\ ~ rerun /\ ~ reconfig.ok
  BY DEF FailInv
<1>10. CMakeSaid = reconfig.says
  BY <1>9 DEF CMakeSaid
<1>11. \E d \in ToSet(reconfig.says) : d.severity = "error"
  BY <1>9, ReconfigIs DEF TypeInv, InputsOK
<1>12. PICK k \in DOMAIN CMakeSaid : CMakeSaid[k].severity = "error"
  BY <1>10, <1>11 DEF ToSet
<1>13. k \in {j \in DOMAIN CMakeSaid : CMakeSaid[j].severity = "error"}
  BY <1>12
<1>14. \E p \in DOMAIN OfSeverity("error", CMakeSaid) : OfSeverity("error", CMakeSaid)[p] = CMakeSaid[k]
  BY <1>6, <1>13, KeptHas DEF OfSeverity
<1>15. OfSeverity("error", CMakeSaid) # <<>>
  BY <1>14
<1>16. QED
  BY <1>8, <1>15

\* Whatever the compiler, the parser and the setup, a build that a failing CMake
\* ended reports CMake's errors and no other (main.go:506-523).
THEOREM ReconfigureErrors == DiagnoseSpec => []ReconfigureExplained
<1> DEFINE Inv == TypeInv /\ ReportInv /\ CMakeInv /\ FailInv /\ MuteInv
<1>1. DiagnoseInit => Inv
  BY TypeInit, ReportInit, CMakeInit
<1>2. Inv /\ [DiagnoseNext]_diagnoseVars => Inv'
  BY TypeStep, TypeStutter, ReportStep, CMakeStep, FailStep, MuteStep, CMakeStutter
<1>3. Inv => ReconfigureExplained
  BY ReconfigureIsExplained
<1>4. QED
  BY <1>1, <1>2, <1>3, PTL DEF DiagnoseSpec

-----------------------------------------------------------------------------
(* Where a diagnostic is in the output.                                    *)

Id(d) == {d.id}

LEMMA WordsMeet ==
  ASSUME NEW s \in Seq(Words), NEW d \in Diagnostics
  PROVE  ~ Meets(Id(d), s) /\ OnceIn(Id(d), s)
<1>1. d.id \notin Words
  BY SaidAssumption
<1>2. \A k \in DOMAIN s : s[k] \in Words
  OBVIOUS
<1>3. QED
  BY <1>1, <1>2 DEF Meets, OnceIn, Id

LEMMA EntryMeets ==
  ASSUME NEW e \in Diagnostics, NEW d \in Diagnostics
  PROVE  /\ Meets(Id(d), Entry(e)) <=> e = d
         /\ OnceIn(Id(d), Entry(e))
<1> DEFINE t == Entry(e)
<1>1. /\ DOMAIN t = 1 .. 8
      /\ t[1] = "{" /\ t[2] = Quote /\ t[3] = e.id /\ t[4] = Backslash
      /\ t[5] = Quote /\ t[6] = "[" /\ t[7] = Quote /\ t[8] = "}"
  BY DEF Entry
<1>2. /\ "{" \in Words /\ Quote \in Words /\ Backslash \in Words /\ "[" \in Words /\ "}" \in Words
  BY DEF Words
<1>3. d.id \notin Words /\ (e.id = d.id <=> e = d)
  BY SaidAssumption
<1> HIDE DEF t
<1>4. \A k \in DOMAIN t : k # 3 => t[k] \in Words
  <2> SUFFICES ASSUME NEW k \in DOMAIN t, k # 3
               PROVE  t[k] \in Words
    OBVIOUS
  <2>0. k \in 1 .. 8
    BY <1>1, Zenon
  <2>1. k = 1 \/ k = 2 \/ k = 4 \/ k = 5 \/ k = 6 \/ k = 7 \/ k = 8
    BY <2>0
  <2>2. QED
    BY <1>1, <1>2, <2>1, Zenon
<1>5. \A k \in DOMAIN t : t[k] \in Id(d) => k = 3
  BY <1>3, <1>4 DEF Id
<1>6. 3 \in DOMAIN t /\ (t[3] \in Id(d) <=> e = d)
  <2>1. 3 \in 1 .. 8
    OBVIOUS
  <2>2. t[3] \in Id(d) <=> e.id = d.id
    BY <1>1, Zenon DEF Id
  <2>3. QED
    BY <1>1, <1>3, <2>1, <2>2, Zenon
<1>7. QED
  BY <1>5, <1>6 DEF Meets, OnceIn, t

LEMMA EntriesMeet ==
  ASSUME NEW ds \in Seq(Diagnostics), NEW d \in Diagnostics
  PROVE  /\ Meets(Id(d), Entries(ds)) <=> Meets({d}, ds)
         /\ OnceIn({d}, ds) => OnceIn(Id(d), Entries(ds))
<1> DEFINE m == Mapped(EntryOf, ds)
<1>1. m \in Seq(Seq(Tokens)) /\ Entries(ds) = FlattenSeq(m)
  BY EntryOfType, MappedType, EntriesIs
<1>2. DOMAIN m = DOMAIN ds /\ \A k \in DOMAIN ds : ds[k] \in Diagnostics /\ m[k] = Entry(ds[k])
  BY DEF Mapped, EntryOf
<1> HIDE DEF m
<1>3. \A k \in DOMAIN ds : (Meets(Id(d), m[k]) <=> ds[k] = d) /\ OnceIn(Id(d), m[k])
  BY <1>2, EntryMeets
<1>4. Meets(Id(d), Entries(ds)) <=> \E k \in DOMAIN m : Meets(Id(d), m[k])
  BY <1>1, FlattenMeets
<1>5. Meets(Id(d), Entries(ds)) <=> Meets({d}, ds)
  BY <1>2, <1>3, <1>4 DEF Meets
<1>6. OnceIn({d}, ds) => OnceAmong(Id(d), m)
  BY <1>2, <1>3 DEF OnceIn, OnceAmong
<1>7. OnceAmong(Id(d), m) => OnceIn(Id(d), Entries(ds))
  BY <1>1, FlattenOnce
<1>8. QED
  BY <1>5, <1>6, <1>7

LEMMA BodyMeets ==
  ASSUME NEW format \in {"json", "sarif"}, NEW ds \in Seq(Diagnostics), NEW d \in Diagnostics
  PROVE  /\ Meets(Id(d), Body(format, ds)) <=> Meets({d}, ds)
         /\ OnceIn({d}, ds) => OnceIn(Id(d), Body(format, ds))
         /\ Meets(Id(d), Document(format, ds)) <=> Meets({d}, ds)
<1> DEFINE p == Prefix(format)
           m == Entries(ds)
           q == Suffix(format)
           V == Id(d)
<1>1. p \in Seq(Marks) /\ m \in Seq(Marks) /\ q \in Seq(Marks) /\ p \in Seq(Words) /\ q \in Seq(Words)
  BY PrefixType, EntriesType
<1>2. ~ Meets(V, p) /\ ~ Meets(V, q) /\ OnceIn(V, p) /\ OnceIn(V, q)
  BY <1>1, WordsMeet
<1>3. (Meets(V, m) <=> Meets({d}, ds)) /\ (OnceIn({d}, ds) => OnceIn(V, m))
  BY EntriesMeet
<1>4. Body(format, ds) = p \o m \o q
  BY DEF Body
<1>5. Document(format, ds) = Append(Body(format, ds), Close(format))
  BY DocumentIs
<1>6. Close(format) \in Marks /\ Close(format) \notin V
  <2>1. Close(format) \in Words
    BY DEF Close, Words
  <2>2. QED
    BY <2>1, OpenClose, SaidAssumption DEF Id
<1> HIDE DEF p, m, q, V
<1>7. p \o m \in Seq(Marks)
  BY <1>1
<1>8. Meets(V, p \o m) <=> Meets(V, m)
  BY <1>1, <1>2, MeetsConcat
<1>9. OnceIn(V, m) => OnceIn(V, p \o m)
  BY <1>1, <1>2, OnceConcat
<1> DEFINE pm == p \o m
<1>10. pm \in Seq(Marks)
  BY <1>7
<1> HIDE DEF pm
<1>11. Meets(V, pm \o q) <=> Meets(V, pm)
  BY <1>1, <1>2, <1>10, MeetsConcat
<1>12. OnceIn(V, pm) => OnceIn(V, pm \o q)
  BY <1>1, <1>2, <1>10, OnceConcat
<1> DEFINE b == pm \o q
<1>13. b \in Seq(Marks)
  BY <1>1, <1>10
<1> HIDE DEF b
<1>14. Meets(V, Append(b, Close(format))) <=> Meets(V, b)
  BY <1>6, <1>13, MeetsAppend
<1>15. Body(format, ds) = b
  BY <1>4 DEF b, pm
<1>16. QED
  BY <1>3, <1>5, <1>8, <1>9, <1>11, <1>12, <1>14, <1>15 DEF b, pm, V

\* The lines that have to do with d.
Carries(d) == {l \in LineSet : l.states = d \/ Meets(Id(d), l.text)}

\* Lines that give an id once at the most.
Neat == {l \in LineSet : \A d \in Diagnostics : OnceIn(Id(d), l.text)}

LEMMA PlainCarries ==
  ASSUME NEW l \in LineSet, l.states = None, l.text \in Seq(Words)
  PROVE  l \in Neat /\ \A d \in Diagnostics : l \notin Carries(d)
<1>1. None \notin Diagnostics
  BY SaidAssumption
<1>2. QED
  BY <1>1, WordsMeet DEF Neat, Carries

LEMMA SaysOnce ==
  ASSUME NEW w \in Works, NEW u \in Units, NEW d
  PROVE  /\ OnceIn({d}, w[u].says)
         /\ Meets({d}, w[u].says) <=> d \in ToSet(w[u].says)
<1>1. IsInjective(w[u].says)
  BY WorkIs
<1>2. QED
  BY <1>1 DEF IsInjective, OnceIn, Meets, ToSet

\* What a line of the output of a unit says, the unit has to say, and no other
\* line says it.
LEMMA OutputCarries ==
  ASSUME InputsOK, NEW u \in Units, NEW k \in DOMAIN Output(u)
  PROVE  /\ Output(u)[k] \in Neat
         /\ \A d \in Diagnostics : Output(u)[k] \in Carries(d) =>
              /\ d \in ToSet(work[u].says)
              /\ \A j \in DOMAIN Output(u) : Output(u)[j] \in Carries(d) => j = k
<1> DEFINE format == Format(setup)
           ds == work[u].says
<1>1. format \in {"json", "sarif", "text", "refused"}
  BY FormatType DEF InputsOK
<1>2. ds \in Seq(Diagnostics)
  BY WorkIs DEF InputsOK
<1>3. \A d \in Diagnostics : OnceIn({d}, ds) /\ (Meets({d}, ds) <=> d \in ToSet(ds))
  BY SaysOnce DEF InputsOK
<1>4. \A w \in Words : w \in Tokens /\ One(w) \in Seq(Words) /\ One(w) \in Seq(Tokens)
  BY MarkWords, OneType
<1>5. CASE format \in {"json", "sarif"}
  <2> DEFINE b == Body(format, ds)
             l == Line(b)
             m == Line(One(Close(format)))
  <2>1. DOMAIN Output(u) = {1, 2} /\ Output(u)[1] = l /\ Output(u)[2] = m
    BY <1>5, DocumentOutput
  <2>2. Close(format) \in Words
    BY DEF Close, Words
  <2>3. m \in LineSet /\ m.states = None /\ m.text \in Seq(Words)
    BY <1>4, <2>2, LineIs
  <2>4. m \in Neat /\ \A d \in Diagnostics : m \notin Carries(d)
    BY <2>3, PlainCarries
  <2>5. b \in Seq(Tokens)
    BY <1>2, BodyType, MarksType
  <2>6. l \in LineSet /\ l.states = None /\ l.text = b
    BY <2>5, LineIs
  <2>7. \A d \in Diagnostics : OnceIn(Id(d), b) /\ (Meets(Id(d), b) <=> Meets({d}, ds))
    BY <1>2, <1>3, <1>5, BodyMeets
  <2> HIDE DEF b, l, m, ds
  <2>8. l \in Neat
    BY <2>6, <2>7 DEF Neat
  <2>9. \A d \in Diagnostics : l \in Carries(d) => d \in ToSet(ds)
    <3>1. None \notin Diagnostics
      BY SaidAssumption
    <3>2. QED
      BY <1>3, <2>6, <2>7, <3>1 DEF Carries
  <2>10. QED
    BY <2>1, <2>4, <2>8, <2>9 DEF ds
<1>6. CASE format = "text"
  <2>1. DOMAIN Output(u) = DOMAIN ds
    BY <1>6, TextOutput
  <2>2. ASSUME NEW j \in DOMAIN Output(u)
        PROVE  /\ ds[j] \in Diagnostics /\ Output(u)[j] \in Neat
               /\ \A d \in Diagnostics : Output(u)[j] \in Carries(d) => d = ds[j]
    <3> DEFINE e == ds[j]
               l == PlainLine(e)
    <3>1. e \in Diagnostics /\ Output(u)[j] = l
      BY <1>6, TextOutput
    <3> HIDE DEF e
    <3>2. l \in LineSet /\ l.text = One("words") /\ l.states = e
      BY <3>1, PlainLineIs
    <3>3. "words" \in Words
      BY DEF Words
    <3>4. l.text \in Seq(Words)
      BY <1>4, <3>2, <3>3
    <3> HIDE DEF l
    <3>5. \A d \in Diagnostics : ~ Meets(Id(d), l.text) /\ OnceIn(Id(d), l.text)
      BY <3>4, WordsMeet
    <3>6. QED
      BY <3>1, <3>2, <3>5 DEF Neat, Carries, e
  <2>3. \A j \in DOMAIN ds : ds[j] = ds[k] => j = k
    BY <2>1, WorkIs DEF InputsOK, IsInjective
  <2>4. ds[k] \in ToSet(ds)
    BY <2>1 DEF ToSet
  <2> HIDE DEF ds
  <2>5. QED
    BY <2>1, <2>2, <2>3, <2>4 DEF ds
<1>7. CASE format = "refused"
  <2>1. DOMAIN Output(u) = {1} /\ Output(u)[1] = Line(One("words"))
    BY <1>7, RefusedOutput
  <2>2. "words" \in Words
    BY DEF Words
  <2>3. Output(u)[1] \in LineSet /\ Output(u)[1].states = None /\ Output(u)[1].text \in Seq(Words)
    BY <1>4, <2>1, <2>2, LineIs
  <2>4. Output(u)[1] \in Neat /\ \A d \in Diagnostics : Output(u)[1] \notin Carries(d)
    BY <2>3, PlainCarries
  <2>5. QED
    BY <2>1, <2>4
<1>8. QED
  BY <1>1, <1>5, <1>6, <1>7

\* The first n lines of a unit have to do with d.
Shown(u, n, d) == \E k \in 1 .. n : Output(u)[k] \in Carries(d)

LEMMA ShownBy ==
  ASSUME TypeInv, NEW u \in Units, NEW n \in 0 .. Len(Output(u)), NEW d \in Diagnostics, Shown(u, n, d)
  PROVE  /\ n > 0 /\ d \in ToSet(work[u].says)
         /\ \A v \in Units : \A m \in 0 .. Len(Output(v)) : Shown(v, m, d) => v = u
<1>1. \A v \in Units : Output(v) \in Seq(LineSet) /\ Len(Output(v)) \in Nat
  BY OutputType DEF TypeInv
<1>2. ASSUME NEW v \in Units, NEW m \in 0 .. Len(Output(v)), Shown(v, m, d)
      PROVE  m > 0 /\ d \in ToSet(work[v].says)
  <2>1. PICK k \in 1 .. m : Output(v)[k] \in Carries(d)
    BY <1>2 DEF Shown
  <2>2. k \in DOMAIN Output(v)
    BY <1>1
  <2>3. d \in ToSet(work[v].says)
    BY <2>1, <2>2, OutputCarries DEF TypeInv
  <2>4. QED
    BY <1>1, <2>3
<1>3. \A v \in Units : v # u => ToSet(work[u].says) \cap ToSet(work[v].says) = {}
  BY SaidAssumption DEF TypeInv, InputsOK
<1>4. QED
  BY <1>2, <1>3

LEMMA SliceCarries ==
  ASSUME TypeInv, NEW u \in Units, NEW i \in Nat, NEW k \in i .. Len(Output(u)),
         NEW x \in Seq(LineSet), Slice(x, u, i, k)
  PROVE  /\ x \in Seq(Neat)
         /\ \A d \in Diagnostics :
              /\ OnceIn(Carries(d), x)
              /\ Meets(Carries(d), x) => Shown(u, k, d) /\ ~ Shown(u, i, d)
<1>1. Output(u) \in Seq(LineSet) /\ Len(Output(u)) \in Nat
  BY OutputType DEF TypeInv
<1>2. /\ DOMAIN x = 1 .. k - i
      /\ \A j \in DOMAIN x : i + j \in DOMAIN Output(u) /\ x[j] = Output(u)[i + j]
  BY <1>1 DEF Slice
<1>3. \A j \in DOMAIN x : x[j] \in Neat
  BY <1>2, OutputCarries DEF TypeInv
<1>4. x \in Seq(Neat)
  BY <1>2, <1>3
<1>5. ASSUME NEW d \in Diagnostics, NEW j \in DOMAIN x, x[j] \in Carries(d)
      PROVE  \A p \in DOMAIN Output(u) : Output(u)[p] \in Carries(d) => p = i + j
  BY <1>2, <1>5, OutputCarries DEF TypeInv
<1>6. ASSUME NEW d \in Diagnostics
      PROVE  OnceIn(Carries(d), x)
  <2> SUFFICES ASSUME NEW p \in DOMAIN x, NEW q \in DOMAIN x, x[p] \in Carries(d), x[q] \in Carries(d)
               PROVE  p = q
    BY DEF OnceIn
  <2>1. i + q \in DOMAIN Output(u) /\ Output(u)[i + q] \in Carries(d)
    BY <1>2
  <2>2. i + q = i + p
    BY <1>5, <2>1
  <2>3. p \in Int /\ q \in Int
    BY <1>2
  <2>4. QED
    BY <2>2, <2>3
<1>7. ASSUME NEW d \in Diagnostics, Meets(Carries(d), x)
      PROVE  Shown(u, k, d) /\ ~ Shown(u, i, d)
  <2>1. PICK j \in DOMAIN x : x[j] \in Carries(d)
    BY <1>7 DEF Meets
  <2>2. i + j \in 1 .. k /\ Output(u)[i + j] \in Carries(d) /\ j > 0 /\ j \in Int
    BY <1>2, <2>1
  <2>3. Shown(u, k, d)
    BY <2>2 DEF Shown
  <2>4. ASSUME NEW p \in 1 .. i
        PROVE  Output(u)[p] \notin Carries(d)
    <3>1. p \in DOMAIN Output(u) /\ p # i + j
      BY <1>1, <2>2
    <3>2. QED
      BY <1>5, <2>1, <3>1
  <2>5. QED
    BY <2>3, <2>4 DEF Shown
<1>8. QED
  BY <1>4, <1>6, <1>7

OnceInv ==
  /\ stdout \in Seq(Neat) /\ stderr \in Seq(Neat)
  /\ \A d \in Diagnostics :
       /\ OnceIn(Carries(d), stdout) /\ OnceIn(Carries(d), stderr)
       /\ Meets(Carries(d), stdout) \/ Meets(Carries(d), stderr) =>
            \E u \in Units : Shown(u, lines[u], d)

\* Lines that say nothing change nothing.
LEMMA PlainOnce ==
  ASSUME NEW s \in Seq(Neat), NEW a \in Seq(Plain)
  PROVE  /\ s \o a \in Seq(Neat)
         /\ \A d \in Diagnostics :
              /\ Meets(Carries(d), s \o a) <=> Meets(Carries(d), s)
              /\ OnceIn(Carries(d), s) => OnceIn(Carries(d), s \o a)
<1>1. \A l \in Plain : l \in Neat /\ \A d \in Diagnostics : l \notin Carries(d)
  BY PlainCarries DEF Plain
<1>2. a \in Seq(Neat) /\ \A k \in DOMAIN a : a[k] \in Plain
  BY <1>1
<1>3. \A d \in Diagnostics : ~ Meets(Carries(d), a) /\ OnceIn(Carries(d), a)
  BY <1>1, <1>2 DEF Meets, OnceIn
<1>4. \A d \in Diagnostics : Meets(Carries(d), s \o a) <=> Meets(Carries(d), s)
  BY <1>2, <1>3, MeetsConcat
<1>5. \A d \in Diagnostics : OnceIn(Carries(d), s) => OnceIn(Carries(d), s \o a)
  BY <1>2, <1>3, OnceConcat
<1>6. QED
  BY <1>2, <1>4, <1>5

LEMMA OnceInit ==
  ASSUME DiagnoseInit
  PROVE  OnceInv
<1>1. DOMAIN <<>> = {} /\ <<>> \in Seq(Neat)
  OBVIOUS
<1>2. QED
  BY <1>1 DEF DiagnoseInit, OnceInv, OnceIn, Meets

\* What the step of a unit does to a stream.
LEMMA SliceOnce ==
  ASSUME TypeInv, NEW u \in Units, NEW k \in lines[u] .. Len(Output(u)),
         NEW a \in Seq(Chat), NEW x \in Seq(LineSet), Slice(x, u, lines[u], k),
         NEW s \in Seq(Neat),
         \A d \in Diagnostics : OnceIn(Carries(d), s)
           /\ (Meets(Carries(d), s) => \E v \in Units : Shown(v, lines[v], d))
  PROVE  /\ s \o a \o x \in Seq(Neat)
         /\ \A d \in Diagnostics :
              /\ OnceIn(Carries(d), s \o a \o x)
              /\ Meets(Carries(d), s \o a \o x) => Meets(Carries(d), s) \/ Shown(u, k, d)
<1> DEFINE t == s \o a
<1>1. a \in Seq(Plain)
  <2>1. Chat \subseteq Plain
    BY DEF Chat, Plain
  <2>2. QED
    BY <2>1
<1>2. /\ t \in Seq(Neat)
      /\ \A d \in Diagnostics : /\ Meets(Carries(d), t) <=> Meets(Carries(d), s)
                                /\ OnceIn(Carries(d), t)
  BY <1>1, PlainOnce
<1>3. \A v \in Units : lines[v] \in 0 .. Len(Output(v)) /\ lines[v] \in Nat
  BY DEF TypeInv, Far
<1>4. /\ x \in Seq(Neat)
      /\ \A d \in Diagnostics :
           /\ OnceIn(Carries(d), x)
           /\ Meets(Carries(d), x) => Shown(u, k, d) /\ ~ Shown(u, lines[u], d)
  BY <1>3, SliceCarries
<1>5. k \in 0 .. Len(Output(u))
  BY <1>3, OutputType DEF TypeInv
<1>6. ASSUME NEW d \in Diagnostics, Meets(Carries(d), x), Meets(Carries(d), s)
      PROVE  FALSE
  <2>1. PICK v \in Units : Shown(v, lines[v], d)
    BY <1>6
  <2>2. v = u
    BY <1>3, <1>4, <1>5, <1>6, <2>1, ShownBy
  <2>3. QED
    BY <1>4, <1>6, <2>1, <2>2
<1> HIDE DEF t
<1>7. t \o x \in Seq(Neat)
  BY <1>2, <1>4
<1>8. \A d \in Diagnostics : Meets(Carries(d), t \o x) <=> Meets(Carries(d), t) \/ Meets(Carries(d), x)
  BY <1>2, <1>4, MeetsConcat
<1>9. \A d \in Diagnostics : OnceIn(Carries(d), t \o x)
  BY <1>2, <1>4, <1>6, OnceConcat
<1>10. QED
  BY <1>2, <1>4, <1>7, <1>8, <1>9 DEF t

LEMMA OnceStep ==
  ASSUME TypeInv, OnceInv, DiagnoseNext
  PROVE  OnceInv'
<1>1. UNCHANGED inputs
  BY DEF DiagnoseNext, Reconfigure, Exit, Kill, Report, Start, Write, MakeEnds, NinjaEnds
<1>2. \A u \in Units : Output(u)' = Output(u)
  BY <1>1, Unchanged
<1>3. Chat \subseteq Plain
  BY DEF Chat, Plain
<1> DEFINE Kept2 == \A d \in Diagnostics : \A u \in Units :
                      Shown(u, lines[u], d) => \E v \in Units : \E k \in 1 .. lines'[v] : Output(v)[k] \in Carries(d)
           Now(s) == /\ s \in Seq(Neat)
                     /\ \A d \in Diagnostics :
                          /\ OnceIn(Carries(d), s)
                          /\ Meets(Carries(d), s) =>
                               \E v \in Units : \E k \in 1 .. lines'[v] : Output(v)[k] \in Carries(d)
<1>4. Now(stdout') /\ Now(stderr') => OnceInv'
  BY <1>2 DEF OnceInv, Shown
<1>5. ASSUME lines' = lines
      PROVE  Now(stdout) /\ Now(stderr)
  BY <1>5 DEF OnceInv, Shown
<1>6. ASSUME lines' = lines, NEW s, Now(s), NEW a \in Seq(Plain)
      PROVE  Now(s \o a)
  BY <1>6, PlainOnce
<1> HIDE DEF Now
<1>7. CASE Report
  BY <1>4, <1>5, <1>7 DEF Report
<1>8. CASE Talks
  <2>1. \A s, t : Chats(s, t) => \E a \in Seq(Plain) : t = s \o a
    <3>1. \A a \in Seq(Chat) : a \in Seq(Plain)
      BY <1>3
    <3>2. QED
      BY <3>1 DEF Chats
  <2>2. lines' = lines /\ Chats(stdout, stdout') /\ Chats(stderr, stderr')
    BY <1>8 DEF Talks
  <2>3. PICK a \in Seq(Plain) : stdout' = stdout \o a
    BY <2>1, <2>2
  <2>4. PICK b \in Seq(Plain) : stderr' = stderr \o b
    BY <2>1, <2>2
  <2>5. Now(stdout \o a) /\ Now(stderr \o b)
    BY <1>5, <1>6, <2>2
  <2>6. QED
    BY <1>4, <2>3, <2>4, <2>5
<1>9. CASE Reconfigure
  <2>1. reconfig # None /\ lines' = lines
    BY <1>9, ReconfigureIs
  <2>2. Messages \in Seq(Plain)
    BY <2>1, MessagesAre DEF TypeInv
  <2>3. One(Status) \in Seq(Plain)
    <3>1. Status \in Plain
      BY <1>3, ToolLines DEF Status
    <3>2. QED
      BY <3>1, OneType
  <2>4. Now(stdout \o One(Status)) /\ Now(stderr \o Messages) /\ Now(stdout) /\ Now(stderr)
    BY <1>5, <1>6, <2>1, <2>2, <2>3
  <2>5. Now(stdout \o One(Status) \o Messages)
    BY <1>6, <2>1, <2>2, <2>4
  <2>6. QED
    BY <1>4, <1>9, <2>4, <2>5, ReconfigureIs
<1>10. ASSUME NEW u \in Units, Prints(u) PROVE OnceInv'
  <2>1. PICK k \in lines[u] .. Len(Output(u)), a \in Seq(Chat), x \in Seq(LineSet) :
          /\ Slice(x, u, lines[u], k)
          /\ lines' = [lines EXCEPT ![u] = k]
          /\ \/ stdout' = stdout \o a \o x /\ stderr' = stderr
             \/ stdout' = stdout /\ stderr' = stderr \o a \o x
    BY <1>10 DEF Prints
  <2>2. lines \in [Units -> Nat]
    BY DEF TypeInv
  <2>3. /\ lines'[u] = k /\ \A v \in Units \ {u} : lines'[v] = lines[v]
        /\ k \in Nat /\ lines[u] \in Nat /\ lines[u] <= k
    BY <2>1, <2>2
  <2>4. ASSUME NEW d \in Diagnostics, NEW v \in Units, Shown(v, lines[v], d)
        PROVE  \E w \in Units : \E j \in 1 .. lines'[w] : Output(w)[j] \in Carries(d)
    <3>1. PICK j \in 1 .. lines[v] : Output(v)[j] \in Carries(d)
      BY <2>4 DEF Shown
    <3>2. j \in 1 .. lines'[v]
      BY <2>2, <2>3
    <3>3. QED
      BY <3>1, <3>2
  <2>5. ASSUME NEW d \in Diagnostics, Shown(u, k, d)
        PROVE  \E w \in Units : \E j \in 1 .. lines'[w] : Output(w)[j] \in Carries(d)
    BY <2>3, <2>5 DEF Shown
  <2>6. Now(stdout) /\ Now(stderr)
    BY <2>4 DEF OnceInv, Now
  <2>7. ASSUME NEW s \in Seq(Neat),
               \A d \in Diagnostics : OnceIn(Carries(d), s)
                 /\ (Meets(Carries(d), s) => \E v \in Units : Shown(v, lines[v], d))
        PROVE  Now(s \o a \o x)
    <3>1. /\ s \o a \o x \in Seq(Neat)
          /\ \A d \in Diagnostics :
               /\ OnceIn(Carries(d), s \o a \o x)
               /\ Meets(Carries(d), s \o a \o x) => Meets(Carries(d), s) \/ Shown(u, k, d)
      BY <2>1, <2>7, SliceOnce
    <3>2. QED
      BY <2>4, <2>5, <2>7, <3>1 DEF Now
  <2>8. Now(stdout \o a \o x) /\ Now(stderr \o a \o x)
    BY <2>7 DEF OnceInv
  <2>9. QED
    BY <1>4, <2>1, <2>6, <2>8
<1>11. QED
  BY <1>7, <1>8, <1>9, <1>10, StepShape

LEMMA OnceStutter ==
  ASSUME OnceInv, UNCHANGED diagnoseVars
  PROVE  OnceInv'
BY DEF OnceInv, Shown, Output, diagnoseVars, inputs

-----------------------------------------------------------------------------
(* No parser makes anything up, or says it twice.                          *)

\* All that a scan has kept.
Found(s) == FlattenSeq(s.chunks) \o s.chunk

LEMMA ScanFinds ==
  ASSUME NEW s \in ScanState(Tokens), NEW ch \in Tokens, NEW open, NEW close
  PROVE  LET old == FlattenSeq(s.chunks)
         IN  /\ old \in Seq(Tokens) /\ Found(s) = old \o s.chunk /\ Found(s) \in Seq(Tokens)
             /\ Found(Scan(s, ch, open, close)) \in
                  {Found(s), Append(Found(s), ch), Append(old, ch)}
<1> DEFINE t    == Scan(s, ch, open, close)
           c    == s.chunk
           cs   == s.chunks
           old  == FlattenSeq(cs)
           code == ~s.inString /\ ~s.escaped
           ends == code /\ ch = close /\ s.depth = 1 /\ s.chunk # <<>>
<1>1. c \in Seq(Tokens) /\ cs \in Seq(Seq(Tokens)) /\ old \in Seq(Tokens)
  BY StateIs, FlattenType
<1>2. /\ t.chunk = IF code /\ ch = open /\ s.depth = 0 THEN One(ch)
                   ELSE IF ends THEN <<>> ELSE Grown(s, ch)
      /\ t.chunks = IF ends THEN Append(cs, Grown(s, ch)) ELSE cs
  BY ScanFields
<1>3. Grown(s, ch) = IF c = <<>> THEN <<>> ELSE Append(c, ch)
  BY DEF Grown
<1>4. ends => s.depth # 0 /\ c # <<>>
  OBVIOUS
<1>5. Found(s) = old \o c /\ Found(t) = FlattenSeq(t.chunks) \o t.chunk
  BY DEF Found
<1> HIDE DEF t, c, cs, old, code, ends
<1>6. old \o c \in Seq(Tokens) /\ old \o Append(c, ch) = Append(old \o c, ch)
  BY <1>1, ConcatAppend
<1>7. CASE code /\ ch = open /\ s.depth = 0
  <2>1. t.chunk = One(ch) /\ t.chunks = cs
    BY <1>2, <1>4, <1>7
  <2>2. old \o One(ch) = Append(old, ch)
    BY <1>1 DEF One
  <2>3. QED
    BY <1>1, <1>5, <1>6, <2>1, <2>2 DEF old, t, c, cs
<1>8. CASE ends
  <2>1. t.chunk = <<>> /\ t.chunks = Append(cs, Append(c, ch))
    BY <1>2, <1>3, <1>4, <1>8
  <2>2. Append(c, ch) \in Seq(Tokens)
    BY <1>1
  <2>3. FlattenSeq(t.chunks) = old \o Append(c, ch)
    BY <1>1, <2>1, <2>2, FlattenAppend DEF old
  <2> DEFINE x == Append(old \o c, ch)
  <2>4. x \in Seq(Tokens)
    BY <1>6
  <2> HIDE DEF x
  <2>5. x \o <<>> = x
    BY <2>4
  <2>6. Found(t) = x
    BY <1>5, <1>6, <2>1, <2>3, <2>5 DEF x
  <2>7. QED
    BY <1>1, <1>5, <1>6, <2>6 DEF x, old, t, c, cs
<1>9. CASE ~ ends /\ ~ (code /\ ch = open /\ s.depth = 0)
  <2>1. t.chunk = Grown(s, ch) /\ t.chunks = cs
    BY <1>2, <1>9
  <2>2. Found(t) = old \o Grown(s, ch)
    BY <1>5, <2>1 DEF old
  <2>3. Found(t) = old \o c \/ Found(t) = Append(old \o c, ch)
    BY <1>3, <1>6, <2>2
  <2>4. QED
    BY <1>1, <1>5, <1>6, <2>3 DEF old, t, c, cs
<1>10. QED
  BY <1>7, <1>8, <1>9

LEMMA ScanOnce ==
  ASSUME NEW text \in Seq(Tokens), NEW open, NEW close, NEW V, OnceIn(V, text)
  PROVE  LET s == Scanned(Scanning, text, open, close)
         IN  OnceIn(V, Found(s)) /\ (Meets(V, Found(s)) => Meets(V, text))
<1> DEFINE At1(t) == Scanned(Scanning, t, open, close)
           T == {t \in Seq(Tokens) : OnceIn(V, t) =>
                   OnceIn(V, Found(At1(t))) /\ (Meets(V, Found(At1(t))) => Meets(V, t))}
<1>1. <<>> \in T
  <2>1. At1(<<>>) = Scanning
    BY ScannedEmpty
  <2>2. <<>> \in Seq(Tokens) /\ DOMAIN <<>> = {} /\ <<>> \o <<>> = <<>>
    OBVIOUS
  <2>3. Found(Scanning) = <<>>
    BY <2>2, FlattenEmpty DEF Found, Scanning
  <2>4. OnceIn(V, <<>>) /\ ~ Meets(V, <<>>)
    BY <2>2 DEF OnceIn, Meets
  <2>5. QED
    BY <2>1, <2>2, <2>3, <2>4
<1>2. ASSUME NEW t \in Seq(Tokens), NEW ch \in Tokens, t \in T
      PROVE  Append(t, ch) \in T
  <2> DEFINE s   == At1(t)
             old == FlattenSeq(s.chunks)
             f   == Found(s)
             g   == Found(At1(Append(t, ch)))
  <2>1. Append(t, ch) \in Seq(Tokens)
    OBVIOUS
  <2> SUFFICES ASSUME OnceIn(V, Append(t, ch))
               PROVE  OnceIn(V, g) /\ (Meets(V, g) => Meets(V, Append(t, ch)))
    BY <2>1
  <2>2. OnceIn(V, t) /\ (ch \in V => ~ Meets(V, t))
    BY OnceAppend DEF Meets
  <2>3. OnceIn(V, f) /\ (Meets(V, f) => Meets(V, t))
    BY <1>2, <2>2
  <2>4. s \in ScanState(Tokens)
    BY ScannedType, ScanningType
  <2>5. At1(Append(t, ch)) = Scan(s, ch, open, close)
    BY ScannedAppend
  <2> HIDE DEF s
  <2>6. /\ old \in Seq(Tokens) /\ f = old \o s.chunk /\ f \in Seq(Tokens)
        /\ g \in {f, Append(f, ch), Append(old, ch)}
    BY <2>4, <2>5, ScanFinds
  <2>7. s.chunk \in Seq(Tokens)
    BY <2>4, StateIs
  <2>8. Meets(V, Append(t, ch)) <=> Meets(V, t) \/ ch \in V
    BY MeetsAppend
  <2> HIDE DEF old, f, g
  <2>9. OnceIn(V, old) /\ (Meets(V, old) => Meets(V, f))
    BY <2>3, <2>6, <2>7, OnceParts, MeetsConcat
  <2>10. ASSUME NEW b \in Seq(Tokens), OnceIn(V, b), Meets(V, b) => Meets(V, t)
         PROVE  /\ OnceIn(V, Append(b, ch))
                /\ Meets(V, Append(b, ch)) => Meets(V, t) \/ ch \in V
    <3>1. Meets(V, Append(b, ch)) <=> Meets(V, b) \/ ch \in V
      BY MeetsAppend
    <3>2. OnceIn(V, Append(b, ch)) <=> OnceIn(V, b) /\ (ch \in V => ~ Meets(V, b))
      BY OnceAppend DEF Meets
    <3>3. QED
      BY <2>2, <2>10, <3>1, <3>2
  <2>11. OnceIn(V, Append(f, ch)) /\ OnceIn(V, Append(old, ch))
    BY <2>3, <2>6, <2>9, <2>10
  <2>12. /\ Meets(V, Append(f, ch)) => Meets(V, t) \/ ch \in V
         /\ Meets(V, Append(old, ch)) => Meets(V, t) \/ ch \in V
    BY <2>3, <2>6, <2>9, <2>10
  <2>13. QED
    BY <2>3, <2>6, <2>8, <2>11, <2>12
<1> HIDE DEF T
<1>3. Seq(Tokens) \subseteq T
  BY <1>1, <1>2, AppendInduction
<1>4. text \in T
  BY <1>3
<1>5. QED
  BY <1>4 DEF T

LEMMA SplitOnce ==
  ASSUME NEW input \in Seq(LineSet), NEW open, NEW close, NEW V, OnceIn(V, Text(input))
  PROVE  LET cs == Split(input, open, close)
         IN  OnceAmong(V, cs) /\ \A k \in DOMAIN cs : Meets(V, cs[k]) => Meets(V, Text(input))
<1> DEFINE s  == Scanned(Scanning, Text(input), open, close)
           cs == s.chunks
           c  == s.chunk
           f  == FlattenSeq(cs)
<1>1. Text(input) \in Seq(Tokens)
  BY TextType
<1>2. s \in ScanState(Tokens)
  BY <1>1, ScannedType, ScanningType
<1>3. OnceIn(V, Found(s)) /\ (Meets(V, Found(s)) => Meets(V, Text(input)))
  BY <1>1, ScanOnce
<1> HIDE DEF s
<1>4. cs \in Seq(Seq(Tokens)) /\ c \in Seq(Tokens) /\ f \in Seq(Tokens) /\ Found(s) = f \o c
  BY <1>2, StateIs, FlattenType DEF Found
<1> HIDE DEF cs, c
<1>5. OnceIn(V, f \o c) /\ (Meets(V, f) => Meets(V, Text(input)))
  BY <1>3, <1>4, MeetsConcat
<1>6. OnceIn(V, f)
  BY <1>4, <1>5, OnceParts
<1>7. OnceAmong(V, cs)
  BY <1>4, <1>6, FlattenParts
<1>8. \A k \in DOMAIN cs : Meets(V, cs[k]) => Meets(V, f)
  BY <1>4, FlattenMeets
<1>9. QED
  BY <1>5, <1>7, <1>8 DEF Split, cs, s

\* Text gives an id as often as its lines do.
LEMMA TextOnce ==
  ASSUME NEW input \in Seq(Neat), NEW d \in Diagnostics, OnceIn(Carries(d), input)
  PROVE  /\ input \in Seq(LineSet)
         /\ OnceIn(Id(d), Text(input))
         /\ Meets(Id(d), Text(input)) => Meets(Carries(d), input)
<1> DEFINE m == Mapped(TextOf, input)
           V == Id(d)
<1>1. Neat \subseteq LineSet /\ \A k \in DOMAIN input : input[k] \in Neat
  BY DEF Neat
<1>2. input \in Seq(LineSet)
  BY <1>1
<1>3. Text(input) = FlattenSeq(m) /\ m \in Seq(Seq(Tokens))
  BY <1>2, TextIs
<1>4. DOMAIN m = DOMAIN input /\ \A k \in DOMAIN input : m[k] = Append(input[k].text, Newline)
  <2>1. \A k \in DOMAIN input : input[k] \in LineSet
    BY <1>1
  <2>2. QED
    BY <2>1 DEF Mapped, TextOf
<1>5. Newline \notin V /\ Newline \in Tokens
  <2>1. Newline \in Words
    BY DEF Words
  <2>2. QED
    BY <2>1, SaidAssumption, MarkWords DEF Id
<1> HIDE DEF m, V
<1>6. ASSUME NEW k \in DOMAIN input
      PROVE  OnceIn(V, m[k]) /\ (Meets(V, m[k]) => input[k] \in Carries(d))
  <2> DEFINE l == input[k]
             t == l.text
  <2>1. l \in LineSet /\ t \in Seq(Tokens) /\ OnceIn(V, t)
    BY <1>1, LineFields DEF Neat, V
  <2>2. Meets(V, t) => l \in Carries(d)
    BY <2>1 DEF Carries, V
  <2>3. m[k] = Append(t, Newline)
    BY <1>4
  <2> HIDE DEF l, t
  <2>4. OnceIn(V, Append(t, Newline)) /\ (Meets(V, Append(t, Newline)) <=> Meets(V, t))
    BY <1>5, <2>1, OnceAppend, MeetsAppend
  <2>5. QED
    BY <2>2, <2>3, <2>4 DEF l
<1>7. OnceAmong(V, m)
  BY <1>4, <1>6 DEF OnceAmong, OnceIn
<1>8. OnceIn(V, Text(input))
  BY <1>3, <1>7, FlattenOnce
<1>9. Meets(V, Text(input)) <=> \E k \in DOMAIN m : Meets(V, m[k])
  BY <1>3, FlattenMeets
<1>10. Meets(V, Text(input)) => Meets(Carries(d), input)
  BY <1>4, <1>6, <1>9 DEF Meets
<1>11. QED
  BY <1>2, <1>8, <1>10 DEF V

LEMMA StripOnce ==
  ASSUME NEW s \in Seq(Neat), NEW d \in Diagnostics, OnceIn(Carries(d), s)
  PROVE  /\ stripNinjaNoise(s) \in Seq(Neat)
         /\ OnceIn(Carries(d), stripNinjaNoise(s))
         /\ Meets(Carries(d), stripNinjaNoise(s)) => Meets(Carries(d), s)
<1>1. Neat \subseteq LineSet
  BY DEF Neat
<1>2. s \in Seq(LineSet)
  BY <1>1
<1>3. stripNinjaNoise(s) = Only(Silent, s)
  BY <1>2, StripIs
<1>4. Only(Silent, s) \in Seq(Neat \cap Silent)
  BY OnlyType
<1>5. Only(Silent, s) \in Seq(Neat)
  BY <1>4
<1>6. OnceIn(Carries(d), Only(Silent, s))
  BY <1>2, OnlyOnce
<1>7. Meets(Carries(d), Only(Silent, s)) <=> Meets(Carries(d) \cap Silent, s)
  BY <1>2, OnlyMeets
<1>8. Meets(Carries(d) \cap Silent, s) => Meets(Carries(d), s)
  BY DEF Meets
<1>9. QED
  BY <1>3, <1>5, <1>6, <1>7, <1>8

LEMMA InputOnce ==
  ASSUME NEW s \in Seq(Neat), NEW t \in Seq(Neat), NEW d \in Diagnostics,
         OnceIn(Carries(d), s), OnceIn(Carries(d), t)
  PROVE  LET input == StructuredInput(s, t)
         IN  /\ input \in Seq(Neat)
             /\ OnceIn(Carries(d), input)
             /\ Meets(Carries(d), input) => Meets(Carries(d), s) \/ Meets(Carries(d), t)
<1>1. Neat \subseteq LineSet
  BY DEF Neat
<1>2. s \in Seq(LineSet) /\ t \in Seq(LineSet)
  BY <1>1
<1>3. StructuredInput(s, t) \in {stripNinjaNoise(s), stripNinjaNoise(t), <<>>}
  BY <1>2, StructuredType
<1>4. <<>> \in Seq(Neat) /\ DOMAIN <<>> = {}
  OBVIOUS
<1>5. OnceIn(Carries(d), <<>>) /\ ~ Meets(Carries(d), <<>>)
  BY <1>4 DEF OnceIn, Meets
<1>6. QED
  BY <1>3, <1>4, <1>5, StripOnce

\* A chunk that is a document gives the ids of what is read in it.
LEMMA MeaningOnce ==
  ASSUME NEW chunk \in Seq(Tokens), NEW target, NEW dialect, NEW known, known \subseteq Seq(Diagnostics),
         \A ds \in known : IsInjective(ds), NEW d \in Diagnostics
  PROVE  LET m == Meaning(target, dialect, known)[chunk]
         IN  m \in Seq(Readings) /\ OnceIn(Same(d), m) /\ (Meets(Same(d), m) => Meets(Id(d), chunk))
<1> DEFINE m == Meaning(target, dialect, known)[chunk]
           V == Same(d)
<1>1. m = <<>> \/ \E e \in known : Json(chunk) = Document(Piece(target, dialect), e) /\ m = Read(target, dialect, e)
  BY MeaningIn
<1> HIDE DEF m, V
<1>2. CASE m = <<>>
  <2>1. <<>> \in Seq(Readings) /\ DOMAIN <<>> = {}
    OBVIOUS
  <2>2. QED
    BY <1>2, <2>1 DEF OnceIn, Meets, m, V
<1>3. CASE \E e \in known : Json(chunk) = Document(Piece(target, dialect), e) /\ m = Read(target, dialect, e)
  <2>1. PICK e \in known : Json(chunk) = Document(Piece(target, dialect), e) /\ m = Read(target, dialect, e)
    BY <1>3
  <2>2. e \in Seq(Diagnostics) /\ OnceIn({d}, e)
    BY DEF OnceIn, IsInjective
  <2>3. /\ m \in Seq(Results(target, dialect)) /\ m \in Seq(Readings)
        /\ Meets(V, m) => Meets({d}, e)
        /\ OnceIn({d}, e) => OnceIn(V, m)
    <3>1. Results(target, dialect) \subseteq Readings
      BY ResultsType
    <3>2. m \in Seq(Results(target, dialect)) /\ (Meets(V, m) => Meets({d}, e)) /\ (OnceIn({d}, e) => OnceIn(V, m))
      BY <2>1, <2>2, ReadIs DEF V
    <3>3. QED
      BY <3>1, <3>2
  <2>4. CASE target # dialect /\ dialect = "sarif"
    <3>1. m \in Seq({Blank})
      BY <2>3, <2>4 DEF Results
    <3>2. Blank \notin V
      BY SaidAssumption DEF V, Same
    <3>3. \A k \in DOMAIN m : m[k] = Blank
      BY <3>1
    <3>4. ~ Meets(V, m)
      BY <3>2, <3>3 DEF Meets
    <3>5. QED
      BY <2>2, <2>3, <3>4 DEF m, V
  <2>5. CASE target = dialect \/ dialect # "sarif"
    <3>1. Piece(target, dialect) \in {"json", "sarif"}
      BY <2>5 DEF Piece
    <3>2. Meets(Id(d), Document(Piece(target, dialect), e)) <=> Meets({d}, e)
      BY <2>2, <3>1, BodyMeets
    <3>3. Json(chunk) = Only(Marks, chunk)
      BY JsonIs
    <3>4. Meets(Id(d), Only(Marks, chunk)) <=> Meets(Id(d) \cap Marks, chunk)
      BY OnlyMeets
    <3>5. Meets(Id(d) \cap Marks, chunk) => Meets(Id(d), chunk)
      BY DEF Meets
    <3>6. Meets({d}, e) => Meets(Id(d), chunk)
      BY <2>1, <3>2, <3>3, <3>4, <3>5
    <3>7. QED
      BY <2>2, <2>3, <3>6 DEF m, V
  <2>6. QED
    BY <2>4, <2>5
<1>4. QED
  BY <1>1, <1>2, <1>3

LEMMA ParseChunksOnce ==
  ASSUME NEW cs \in Seq(Seq(Tokens)), NEW target, NEW dialect, NEW known, known \subseteq Seq(Diagnostics),
         \A ds \in known : IsInjective(ds),
         NEW d \in Diagnostics, OnceAmong(Id(d), cs),
         ParseChunks(cs, target, dialect, known) # ParseFailure
  PROVE  LET rs == ParseChunks(cs, target, dialect, known)
         IN  /\ OnceIn(Same(d), rs)
             /\ Meets(Same(d), rs) => \E k \in DOMAIN cs : Meets(Id(d), cs[k])
<1> DEFINE f == Meaning(target, dialect, known)
           m == Mapped(f, cs)
           V == Same(d)
<1>1. ParseChunks(cs, target, dialect, known) = FlattenSeq(m)
  BY ParseChunksIs
<1>2. /\ DOMAIN m = 1 .. Len(cs) /\ DOMAIN cs = 1 .. Len(cs) /\ Len(cs) \in Nat
      /\ \A k \in DOMAIN cs : m[k] = f[cs[k]] /\ cs[k] \in Seq(Tokens)
      /\ m = [k \in 1 .. Len(cs) |-> f[cs[k]]]
  BY DEF Mapped
<1> HIDE DEF m, V
<1>3. ASSUME NEW k \in DOMAIN cs
      PROVE  m[k] \in Seq(Readings) /\ OnceIn(V, m[k]) /\ (Meets(V, m[k]) => Meets(Id(d), cs[k]))
  <2>1. cs[k] \in Seq(Tokens) /\ m[k] = Meaning(target, dialect, known)[cs[k]]
    BY <1>2
  <2>2. QED
    BY <2>1, MeaningOnce DEF V
<1>4. m \in Seq(Seq(Readings))
  BY <1>2, <1>3
<1>5. OnceAmong(V, m)
  <2>1. \A j, k \in DOMAIN cs : Meets(Id(d), cs[j]) /\ Meets(Id(d), cs[k]) => j = k
    BY DEF OnceAmong
  <2>2. QED
    BY <1>2, <1>3, <2>1 DEF OnceAmong
<1>6. OnceIn(V, FlattenSeq(m))
  BY <1>4, <1>5, FlattenOnce
<1>7. Meets(V, FlattenSeq(m)) <=> \E k \in DOMAIN m : Meets(V, m[k])
  BY <1>4, FlattenMeets
<1>8. QED
  BY <1>1, <1>2, <1>3, <1>6, <1>7 DEF V

\* What a parser returns, a line of the output carries, and once.
LEMMA ParseOnce ==
  ASSUME NEW toolchain, NEW s \in Seq(Neat), NEW t \in Seq(Neat),
         NEW known, known \subseteq Seq(Diagnostics), \A ds \in known : IsInjective(ds), NEW dialect,
         NEW d \in Diagnostics, OnceIn(Carries(d), s), OnceIn(Carries(d), t),
         Parse(toolchain, s, t, known, dialect) # ParseFailure
  PROVE  LET rs == Parse(toolchain, s, t, known, dialect)
         IN  /\ OnceIn(Same(d), rs)
             /\ Meets(Same(d), rs) => Meets(Carries(d), s) \/ Meets(Carries(d), t)
<1> DEFINE input == StructuredInput(s, t)
<1>1. /\ input \in Seq(Neat) /\ OnceIn(Carries(d), input)
      /\ Meets(Carries(d), input) => Meets(Carries(d), s) \/ Meets(Carries(d), t)
  BY InputOnce
<1> HIDE DEF input
<1>2. /\ input \in Seq(LineSet) /\ OnceIn(Id(d), Text(input))
      /\ Meets(Id(d), Text(input)) => Meets(Carries(d), input)
  BY <1>1, TextOnce
<1>3. ASSUME NEW open, NEW close, NEW target,
             ParseChunks(Split(input, open, close), target, dialect, known) # ParseFailure
      PROVE  LET rs == ParseChunks(Split(input, open, close), target, dialect, known)
             IN  /\ OnceIn(Same(d), rs)
                 /\ Meets(Same(d), rs) => Meets(Carries(d), s) \/ Meets(Carries(d), t)
  <2> DEFINE cs == Split(input, open, close)
  <2>1. cs \in Seq(Seq(Tokens))
    BY <1>2, SplitType
  <2>2. OnceAmong(Id(d), cs) /\ \A k \in DOMAIN cs : Meets(Id(d), cs[k]) => Meets(Id(d), Text(input))
    BY <1>2, SplitOnce
  <2> DEFINE rs == ParseChunks(cs, target, dialect, known)
  <2>3. rs # ParseFailure
    BY <1>3
  <2> HIDE DEF cs
  <2>4. OnceIn(Same(d), rs) /\ (Meets(Same(d), rs) => \E k \in DOMAIN cs : Meets(Id(d), cs[k]))
    BY <2>1, <2>2, <2>3, ParseChunksOnce
  <2>5. QED
    BY <1>1, <1>2, <2>2, <2>4 DEF cs
<1>4. OnceIn(Same(d), Stated(t)) /\ (Meets(Same(d), Stated(t)) => Meets(Carries(d), t))
  <2> DEFINE W == {x \in LineSet \cap Stating : StatesOf[x] \in {d}}
  <2>1. Neat \subseteq LineSet
    BY DEF Neat
  <2>2. t \in Seq(LineSet)
    BY <2>1
  <2>3. Stated(t) = Chosen(Stating, StatesOf, t) /\ Stated(t) \in Seq(Diagnostics)
    BY <2>2, StatedIs
  <2>4. W \subseteq Carries(d)
    BY DEF StatesOf, Carries
  <2>5. OnceIn(W, t) /\ (Meets(W, t) => Meets(Carries(d), t))
    BY <2>4, OnceLess, MeetsLess
  <2>6. OnceIn({d}, Chosen(Stating, StatesOf, t))
    BY <2>2, <2>5, ChosenOnce
  <2>7. Meets({d}, Chosen(Stating, StatesOf, t)) <=> Meets(W, t)
    BY <2>2, ChosenMeets
  <2>8. OnceIn(Same(d), Stated(t)) /\ (Meets(Same(d), Stated(t)) => Meets({d}, Stated(t)))
    BY <2>3, <2>6, SameOnly
  <2>9. QED
    BY <2>3, <2>5, <2>7, <2>8
<1>5. CASE toolchain = "clang"
  <2>1. Parse(toolchain, s, t, known, dialect)
          \in {ParseChunks(Split(input, "{", "}"), "sarif", dialect, known),
               ParseChunks(Split(input, "[", "]"), "clang", dialect, known)}
    BY <1>5 DEF Parse, ClangParse, input
  <2>2. QED
    BY <1>3, <2>1
<1>6. CASE toolchain = "gcc"
  <2>1. Parse(toolchain, s, t, known, dialect) = ParseChunks(Split(input, "[", "]"), "gcc", dialect, known)
    BY <1>6 DEF Parse, GCCParse, input
  <2>2. QED
    BY <1>3, <2>1
<1>7. CASE toolchain \notin {"clang", "gcc"}
  <2>1. Parse(toolchain, s, t, known, dialect) = Stated(t)
    BY <1>7 DEF Parse, RegexParse
  <2>2. QED
    BY <1>4, <2>1
<1>8. QED
  BY <1>5, <1>6, <1>7

-----------------------------------------------------------------------------
(* NoneLost: what is parsed of a readable output is what was said.         *)

\* What the promised setups print, and what reads it.
LEMMA PromiseIs ==
  ASSUME InputsOK, Promised
  PROVE  /\ Format(setup) = "text" =>
              /\ setup.tool = "make" /\ setup.compiler.stream = "stderr"
              /\ resolveToolchain(setup) \notin {"clang", "gcc"}
         /\ Format(setup) = "refused" => setup.tool = "plain make"
         /\ Format(setup) = "json" =>
              resolveToolchain(setup) \in {"clang", "gcc"} /\ Dialect(setup) = resolveToolchain(setup)
         /\ Format(setup) = "sarif" => resolveToolchain(setup) = "clang" /\ Dialect(setup) = "sarif"
         /\ Format(setup) \in {"json", "sarif"} => setup.tool = "ninja" \/ setup.DiagnosticSerialBuild
<1> DEFINE s == setup
           c == setup.compiler
           kind == Kind(c)
<1>1. /\ s \in Setups /\ IsCompiler(c)
      /\ s.system \in {"clang", "gcc", "gcc-legacy", ""}
      /\ s.Toolchain \in {"auto", "clang", "gcc", "gcc-legacy", "msvc"}
      /\ s.tool \in {"ninja", "make", "plain make"}
  BY DiagnoseAssumption DEF InputsOK
<1>2. Recognised(s) /\ Readable(s) /\ Intact(s)
  BY DEF Promised
<1>3. kind \in {"clang", "gcc", "gcc-legacy", "msvc"}
  BY <1>1 DEF Kind, IsCompiler
<1>4. resolveToolchain(s) = kind
  <2>1. CASE s.Toolchain # "auto"
    BY <1>2, <2>1 DEF Recognised, resolveToolchain
  <2>2. CASE s.Toolchain = "auto" /\ s.tool = "plain make"
    <3>1. s.system = "gcc" /\ kind = "gcc"
      BY <1>2, <2>2 DEF Recognised
    <3>2. DetectToolchain(s) = "gcc"
      BY <2>2, <3>1 DEF DetectToolchain, detectFromCompileCommands
    <3>3. QED
      BY <2>2, <3>1, <3>2 DEF resolveToolchain
  <2>3. CASE s.Toolchain = "auto" /\ s.tool # "plain make"
    <3>1. c.name = c.family
      BY <1>2, <2>3 DEF Recognised
    <3>2. classifyCompiler(c) = kind
      BY <1>1, <3>1 DEF classifyCompiler, Kind, IsCompiler
    <3>3. detectFromCompileCommands(s) = kind
      BY <2>3, <3>2 DEF detectFromCompileCommands
    <3>4. kind # ""
      BY <1>3
    <3>5. DetectToolchain(s) = kind
      BY <3>3, <3>4 DEF DetectToolchain
    <3>6. QED
      BY <2>3, <3>5 DEF resolveToolchain
  <2>4. QED
    BY <2>1, <2>2, <2>3
<1>5. CASE kind \notin {"clang", "gcc"}
  <2>1. (c.accepts = {} \/ ~ s.InjectDiagnosticFlags) /\ s.tool = "make" /\ c.stream = "stderr"
    BY <1>2, <1>5 DEF Readable
  <2>2. c.accepts = {} => ProbedFormat(c) = "text"
    BY <1>1 DEF ProbedFormat, IsCompiler
  <2>3. Format(s) = "text"
    BY <2>1, <2>2 DEF Format
  <2>4. QED
    BY <1>4, <1>5, <2>1, <2>3
<1>6. CASE kind \in {"clang", "gcc"}
  <2>1. s.InjectDiagnosticFlags
    BY <1>2, <1>6 DEF Readable
  <2>2. s.tool = "ninja" \/ s.DiagnosticSerialBuild
    BY <1>2, <1>6 DEF Intact
  <2>3. c.family # "cl"
    BY <1>1, <1>6 DEF Kind, IsCompiler
  <2>4. Format(s) = "sarif" => kind = "clang"
    <3> SUFFICES ASSUME kind = "gcc" PROVE Format(s) # "sarif"
      BY <1>6
    <3>1. "json" \in c.accepts
      BY <1>2 DEF Readable
    <3>2. ProbedFormat(c) = "json"
      BY <2>3, <3>1 DEF ProbedFormat
    <3>3. s.Toolchain # "clang"
      BY <1>2 DEF Recognised
    <3>4. diagnosticFlag(s) = "json"
      BY <3>3 DEF diagnosticFlag
    <3>5. QED
      BY <3>2, <3>4 DEF Format
  <2>9. Dialect(s) = IF Format(s) = "sarif" THEN "sarif" ELSE kind
    <3>1. kind = c.family
      BY <1>1, <1>6 DEF Kind, IsCompiler
    <3>2. QED
      BY <3>1 DEF Dialect
  <2>5. CASE s.tool # "plain make"
    <3>1. c.accepts # {}
      BY <1>2, <1>6, <2>5 DEF Readable
    <3>2. "json" \in c.accepts \/ ("json" \notin c.accepts /\ c.accepts = {"sarif"})
      BY <1>1, <3>1 DEF IsCompiler
    <3>3. ProbedFormat(c) \in {"json", "sarif"}
      BY <2>3, <3>2 DEF ProbedFormat
    <3>4. Format(s) \in {"json", "sarif"}
      BY <2>1, <2>5, <3>3 DEF Format
    <3>5. QED
      BY <1>4, <1>6, <2>2, <2>4, <2>9, <3>4
  <2>6. CASE s.tool = "plain make" /\ kind = "clang"
    <3>1. "sarif" \in c.accepts
      BY <1>2, <2>6 DEF Readable
    <3>2. s.Toolchain = "clang"
      BY <1>2, <2>6 DEF Recognised
    <3>3. Format(s) = "sarif"
      BY <2>1, <2>6, <3>1, <3>2 DEF Format, diagnosticFlag
    <3>4. QED
      BY <1>4, <1>6, <2>2, <2>9, <3>3, <2>6
  <2>7. CASE s.tool = "plain make" /\ kind = "gcc"
    <3>1. s.Toolchain # "clang"
      BY <1>2, <2>7 DEF Recognised
    <3>2. Format(s) \in {"json", "refused"}
      BY <2>1, <2>7, <3>1 DEF Format, diagnosticFlag
    <3>3. QED
      BY <1>4, <2>2, <2>7, <2>9, <3>2
  <2>8. QED
    BY <1>6, <2>5, <2>6, <2>7
<1>7. QED
  BY <1>5, <1>6

Brackets == {"[", "]", "{", "}"}
Calm     == Tokens \ (Brackets \cup {Quote})

\* Lines in which a scan between two documents finds nothing, and which are not
\* taken for the beginning of one.
Noisy == {l \in LineSet : l.noise}
Hush  == {l \in LineSet : l.noise \/ l.text \in Seq(Calm)}

\* The lines that begin a document, and those that begin no other.
Opening(f) == {l \in LineSet : ~ l.noise /\ Starts(l, {Open(f)})}
Fitting(f) == {l \in LineSet : l.noise \/ ~ Starts(l, {"{", "["}) \/ Starts(l, {Open(f)})}

LEMMA HushIs ==
  ASSUME NEW l \in Hush, NEW f
  PROVE  l \in LineSet /\ l \in Fitting(f) /\ (l.noise \/ ~ Starts(l, {"{", "["}))
<1>1. l \in LineSet /\ (l.noise \/ l.text \in Seq(Calm))
  BY DEF Hush
<1>2. ASSUME l.text \in Seq(Calm), l.text # <<>> PROVE Head(l.text) \notin {"{", "["}
  <2> DEFINE t == l.text
  <2>1. t \in Seq(Calm) /\ t # <<>>
    BY <1>2
  <2> HIDE DEF t
  <2>2. Head(t) \in Calm
    BY <2>1
  <2>3. QED
    BY <2>2 DEF t, Calm, Brackets
<1>3. l.noise \/ ~ Starts(l, {"{", "["})
  BY <1>1, <1>2 DEF Starts
<1>4. QED
  BY <1>1, <1>3 DEF Fitting

LEMMA FittingType ==
  ASSUME NEW f, NEW s
  PROVE  /\ s \in Seq(Fitting(f)) => s \in Seq(LineSet)
         /\ s \in Seq(Hush) => s \in Seq(LineSet) /\ s \in Seq(Fitting(f))
         /\ s \in Seq(Noisy) => s \in Seq(Hush)
<1>1. Fitting(f) \subseteq LineSet /\ Noisy \subseteq Hush
  BY DEF Fitting, Noisy, Hush
<1>2. Hush \subseteq LineSet /\ Hush \subseteq Fitting(f)
  BY HushIs
<1>3. QED
  BY <1>1, <1>2

\* The state of the scan after the lines of s.
ScanOf(f, s) == Scanned(Scanning, Text(stripNinjaNoise(s)), Open(f), Close(f))

LEMMA ScanOfType ==
  ASSUME NEW f, NEW s \in Seq(LineSet)
  PROVE  ScanOf(f, s) \in ScanState(Tokens)
BY StripIs, TextType, ScanningType, ScannedType DEF ScanOf

LEMMA ScanOfConcat ==
  ASSUME NEW f, NEW s \in Seq(LineSet), NEW a \in Seq(LineSet)
  PROVE  ScanOf(f, s \o a) = Scanned(ScanOf(f, s), Text(stripNinjaNoise(a)), Open(f), Close(f))
<1>1. stripNinjaNoise(s \o a) = stripNinjaNoise(s) \o stripNinjaNoise(a)
  BY StripConcat
<1>2. stripNinjaNoise(s) \in Seq(LineSet) /\ stripNinjaNoise(a) \in Seq(LineSet)
  BY StripIs
<1>3. Text(stripNinjaNoise(s \o a)) = Text(stripNinjaNoise(s)) \o Text(stripNinjaNoise(a))
  BY <1>1, <1>2, TextConcat
<1>4. Text(stripNinjaNoise(s)) \in Seq(Tokens) /\ Text(stripNinjaNoise(a)) \in Seq(Tokens)
  BY <1>2, TextType
<1>5. QED
  BY <1>3, <1>4, ScannedConcat DEF ScanOf

LEMMA NoisyScan ==
  ASSUME NEW f, NEW s \in Seq(LineSet), NEW a \in Seq(Noisy)
  PROVE  ScanOf(f, s \o a) = ScanOf(f, s)
<1>1. Noisy \subseteq LineSet
  BY DEF Noisy
<1>2. a \in Seq(LineSet)
  BY <1>1
<1>3. \A k \in DOMAIN a : a[k] \in Noisy
  OBVIOUS
<1>4. \A k \in DOMAIN a : a[k] \notin Silent
  BY <1>3 DEF Noisy, Silent
<1>5. stripNinjaNoise(a) = <<>>
  BY <1>2, <1>4, StripIs, OnlyNone
<1>6. QED
  BY <1>2, <1>5, ScanOfConcat, TextEmpty, ScannedEmpty

LEMMA HushText ==
  ASSUME NEW s \in Seq(Hush)
  PROVE  Text(stripNinjaNoise(s)) \in Seq(Calm)
<1> DEFINE t == stripNinjaNoise(s)
           m == Mapped(TextOf, t)
<1>1. s \in Seq(LineSet)
  BY FittingType
<1>2. t = Only(Silent, s) /\ t \in Seq(LineSet)
  BY <1>1, StripIs
<1>3. t \in Seq(Hush \cap Silent)
  BY <1>2, OnlyType
<1> HIDE DEF t
<1>4. Text(t) = FlattenSeq(m)
  BY <1>2, TextIs
<1>7. \A k \in DOMAIN t : t[k] \in Hush \cap Silent
  BY <1>3
<1>8. Newline \in Calm
  BY MarkWords DEF Calm, Brackets, Newline, Quote
<1>9. ASSUME NEW l \in Hush \cap Silent PROVE TextOf[l] \in Seq(Calm)
  <2>1. l \in LineSet /\ l.text \in Seq(Calm)
    BY DEF Hush, Silent
  <2>2. TextOf[l] = Append(l.text, Newline)
    BY <2>1 DEF TextOf
  <2>3. QED
    BY <1>8, <2>1, <2>2
<1>10. \A k \in DOMAIN t : TextOf[t[k]] \in Seq(Calm)
  BY <1>7, <1>9
<1>11. m \in Seq(Seq(Calm))
  BY <1>2, <1>10 DEF Mapped
<1>12. QED
  BY <1>4, <1>11, FlattenType DEF t

LEMMA HushScan ==
  ASSUME NEW f, NEW s \in Seq(LineSet), NEW a \in Seq(Hush), At(ScanOf(f, s), 0, <<>>, ScanOf(f, s).chunks)
  PROVE  ScanOf(f, s \o a) = ScanOf(f, s)
<1> DEFINE text == Text(stripNinjaNoise(a))
<1>1. a \in Seq(LineSet)
  BY FittingType
<1>2. text \in Seq(Calm) /\ text \in Seq(Tokens)
  BY <1>1, HushText, StripIs, TextType
<1> HIDE DEF text
<1>3. \A k \in DOMAIN text : text[k] \in Calm
  BY <1>2
<1>4. Open(f) \in Brackets /\ Close(f) \in Brackets
  BY DEF Open, Close, Brackets
<1>5. \A k \in DOMAIN text : text[k] \notin {Quote, Open(f), Close(f)}
  BY <1>3, <1>4 DEF Calm
<1>6. ScanOf(f, s) \in ScanState(Tokens)
  BY ScanOfType
<1>7. Scanned(ScanOf(f, s), text, Open(f), Close(f)) = ScanOf(f, s)
  BY <1>2, <1>5, <1>6, QuietScanned
<1>8. QED
  BY <1>1, <1>7, ScanOfConcat DEF text

LEMMA LineScan ==
  ASSUME NEW f, NEW s \in Seq(LineSet), NEW l \in LineSet, ~ l.noise
  PROVE  ScanOf(f, Append(s, l)) = Scanned(ScanOf(f, s), Append(l.text, Newline), Open(f), Close(f))
<1>1. One(l) \in Seq(LineSet) /\ Append(s, l) = s \o One(l)
  BY DEF One
<1>2. stripNinjaNoise(One(l)) = One(l)
  <2>1. l \in Silent
    BY DEF Silent
  <2>2. Only(Silent, One(l)) = Append(Only(Silent, <<>>), l)
    <3>1. Append(<<>>, l) = One(l) /\ <<>> \in Seq(LineSet)
      BY AppendNone
    <3>2. Only(Silent, Append(<<>>, l)) = IF l \in Silent THEN Append(Only(Silent, <<>>), l) ELSE Only(Silent, <<>>)
      BY <3>1, OnlyAppend
    <3>3. QED
      BY <2>1, <3>1, <3>2
  <2>3. QED
    BY <1>1, <2>2, StripIs, OnlyEmpty, AppendNone
<1>3. Text(One(l)) = Append(l.text, Newline)
  <2>1. Append(<<>>, l) = One(l) /\ <<>> \in Seq(LineSet)
    BY AppendNone
  <2>2. Text(One(l)) = <<>> \o Append(l.text, Newline)
    BY <2>1, TextAppend, TextEmpty
  <2> DEFINE t == Append(l.text, Newline)
  <2>3. t \in Seq(Tokens)
    BY LineText
  <2> HIDE DEF t
  <2>4. <<>> \o t = t
    BY <2>3
  <2>5. QED
    BY <2>2, <2>4 DEF t
<1>4. QED
  BY <1>1, <1>2, <1>3, ScanOfConcat

SaysOf(w)     == [u \in Units |-> w[u].says]
HalfOf(f, w)  == [u \in Units |-> Append(Body(f, w[u].says), Newline)]
ChunkOf(f, w) == [u \in Units |-> Append(HalfOf(f, w)[u], Close(f))]

\* The documents that the scan of D has found, those of the units us, are what
\* has been said, sd; a unit that has printed the first of its lines, by ln, is
\* where the scan is.
FoundDocs(f, w, D, sd) ==
  \E us \in Seq(Units) : /\ sd = FlattenSeq(Mapped(SaysOf(w), us))
                         /\ ScanOf(f, D).chunks = Mapped(ChunkOf(f, w), us)

Docs(f, w, D, O, ln, sd) ==
  /\ D \in Seq(Fitting(f)) /\ O \in Seq(Hush)
  /\ sd # <<>> \/ (\E u \in Units : ln[u] # 0) => Meets(Opening(f), D)
  /\ FoundDocs(f, w, D, sd)
  /\ \A u \in Units : ln[u] = 1 => At(ScanOf(f, D), 1, HalfOf(f, w)[u], ScanOf(f, D).chunks)
  /\ (\A u \in Units : ln[u] # 1) => At(ScanOf(f, D), 0, <<>>, ScanOf(f, D).chunks)

LEMMA HalfType ==
  ASSUME NEW w \in Works, NEW u \in Units, NEW f
  PROVE  /\ w[u].says \in Seq(Diagnostics) /\ SaysOf(w)[u] = w[u].says
         /\ Body(f, w[u].says) \in Seq(Marks) /\ Body(f, w[u].says) \in Seq(Tokens)
         /\ HalfOf(f, w)[u] = Append(Body(f, w[u].says), Newline)
         /\ HalfOf(f, w)[u] \in Seq(Tokens) /\ HalfOf(f, w)[u] # <<>>
         /\ ChunkOf(f, w)[u] = Append(HalfOf(f, w)[u], Close(f))
         /\ ChunkOf(f, w)[u] \in Seq(Tokens)
<1> DEFINE b == Body(f, w[u].says)
           h == HalfOf(f, w)[u]
<1>1. w[u].says \in Seq(Diagnostics)
  BY WorkIs
<1>2. b \in Seq(Marks) /\ b \in Seq(Tokens)
  BY <1>1, BodyType, MarksType
<1> HIDE DEF b
<1>3. h = Append(b, Newline)
  BY DEF HalfOf, b
<1>4. Newline \in Tokens /\ Close(f) \in Tokens
  BY MarkWords, OpenClose
<1>5. h \in Seq(Tokens) /\ h # <<>>
  BY <1>2, <1>3, <1>4
<1>6. ChunkOf(f, w)[u] = Append(h, Close(f))
  BY DEF ChunkOf
<1> HIDE DEF h
<1>7. Append(h, Close(f)) \in Seq(Tokens)
  BY <1>4, <1>5
<1>8. QED
  BY <1>1, <1>2, <1>3, <1>5, <1>6, <1>7 DEF b, h, SaysOf

\* Nothing is printed yet.
LEMMA DocsInit ==
  ASSUME NEW f, NEW w, NEW ln, \A u \in Units : ln[u] = 0
  PROVE  Docs(f, w, <<>>, <<>>, ln, <<>>)
<1>1. <<>> \in Seq(Fitting(f)) /\ <<>> \in Seq(Hush) /\ <<>> \in Seq(LineSet) /\ <<>> \in Seq(Units)
  OBVIOUS
<1>2. ScanOf(f, <<>>) = Scanning
  BY <1>1, StripIs, OnlyEmpty, TextEmpty, ScannedEmpty DEF ScanOf
<1>3. Scanning.chunks = <<>> /\ At(Scanning, 0, <<>>, Scanning.chunks)
  BY DEF Scanning, At
<1>4. FoundDocs(f, w, <<>>, <<>>)
  BY <1>1, <1>2, <1>3, MappedEmpty, FlattenEmpty DEF FoundDocs
<1>5. QED
  BY <1>1, <1>2, <1>3, <1>4 DEF Docs

LEMMA DocsSide ==
  ASSUME NEW f, NEW w, NEW D, NEW O, NEW ln, NEW sd, Docs(f, w, D, O, ln, sd), NEW b \in Seq(Hush)
  PROVE  Docs(f, w, D, O \o b, ln, sd)
<1>1. O \in Seq(Hush)
  BY DEF Docs
<1>2. O \o b \in Seq(Hush)
  BY <1>1
<1>3. QED
  BY <1>2 DEF Docs

LEMMA MeetsMore ==
  ASSUME NEW S, NEW s \in Seq(S), NEW a \in Seq(S), NEW V, Meets(V, s)
  PROVE  Meets(V, s \o a)
BY MeetsConcat

LEMMA DocsHush ==
  ASSUME NEW f, NEW w, NEW D, NEW O, NEW ln, NEW sd, Docs(f, w, D, O, ln, sd),
         NEW a \in Seq(Hush), a \in Seq(Noisy) \/ \A u \in Units : ln[u] # 1
  PROVE  Docs(f, w, D \o a, O, ln, sd)
<1>1. D \in Seq(Fitting(f)) /\ a \in Seq(Fitting(f)) /\ D \in Seq(LineSet)
  BY FittingType DEF Docs
<1>2. D \o a \in Seq(Fitting(f))
  BY <1>1
<1>3. ScanOf(f, D \o a) = ScanOf(f, D)
  BY <1>1, NoisyScan, HushScan DEF Docs
<1>4. Meets(Opening(f), D) => Meets(Opening(f), D \o a)
  BY <1>1, MeetsMore
<1>5. QED
  BY <1>2, <1>3, <1>4 DEF Docs, FoundDocs

\* A unit prints the first line of its document.
LEMMA DocsFirst ==
  ASSUME NEW f, NEW w \in Works, NEW D, NEW O, NEW ln \in [Units -> Nat], NEW sd, Docs(f, w, D, O, ln, sd),
         NEW u \in Units, \A v \in Units : ln[v] # 1,
         NEW l, l = Line(Body(f, w[u].says))
  PROVE  Docs(f, w, Append(D, l), O, [ln EXCEPT ![u] = 1], sd)
<1> DEFINE b == Body(f, w[u].says)
           t == ScanOf(f, D)
           r == ScanOf(f, Append(D, l))
           m == [ln EXCEPT ![u] = 1]
<1>1. b \in Seq(Marks) /\ b \in Seq(Tokens) /\ b # <<>> /\ Head(b) = Open(f) /\ w[u].says \in Seq(Diagnostics)
  BY HalfType, BodyType
<1>2. HalfOf(f, w)[u] = Append(b, Newline)
  BY HalfType
<1>3. l \in LineSet /\ l.text = b /\ ~ l.noise
  BY <1>1, LineIs
<1>4. l \in Opening(f) /\ l \in Fitting(f)
  BY <1>1, <1>3 DEF Opening, Fitting, Starts
<1>5. D \in Seq(Fitting(f)) /\ D \in Seq(LineSet)
  BY FittingType DEF Docs
<1>6. Append(D, l) \in Seq(Fitting(f))
  BY <1>4, <1>5
<1>7. Meets(Opening(f), Append(D, l))
  BY <1>3, <1>4, <1>5, MeetsAppend
<1>8. At(t, 0, <<>>, t.chunks) /\ t \in ScanState(Tokens)
  BY <1>5, ScanOfType DEF Docs
<1>9. r = Scanned(t, Append(b, Newline), Open(f), Close(f))
  BY <1>3, <1>5, LineScan
<1> HIDE DEF t, r
<1>10. At(r, 1, Append(b, Newline), t.chunks)
  BY <1>1, <1>8, <1>9, BodyScanned
<1>11. r.chunks = t.chunks /\ At(r, 1, HalfOf(f, w)[u], r.chunks)
  BY <1>2, <1>10 DEF At
<1>12. FoundDocs(f, w, Append(D, l), sd)
  BY <1>11 DEF Docs, FoundDocs, r, t
<1>13. m[u] = 1 /\ \A v \in Units : m[v] = 1 => v = u
  OBVIOUS
<1> HIDE DEF m
<1>14. QED
  BY <1>6, <1>7, <1>11, <1>12, <1>13 DEF Docs, m, r

LEMMA MappedMore ==
  ASSUME NEW S, NEW f, NEW us \in Seq(S), NEW u \in S
  PROVE  Append(us, u) \in Seq(S) /\ Mapped(f, Append(us, u)) = Append(Mapped(f, us), f[u])
BY MappedAppend

LEMMA SaidMore ==
  ASSUME NEW w \in Works, NEW us \in Seq(Units), NEW u \in Units
  PROVE  /\ FlattenSeq(Mapped(SaysOf(w), us)) \in Seq(Diagnostics)
         /\ FlattenSeq(Mapped(SaysOf(w), Append(us, u))) = FlattenSeq(Mapped(SaysOf(w), us)) \o w[u].says
<1> DEFINE m == Mapped(SaysOf(w), us)
<1>1. \A v \in Units : SaysOf(w)[v] = w[v].says /\ w[v].says \in Seq(Diagnostics)
  BY HalfType
<1>2. \A k \in DOMAIN us : us[k] \in Units
  OBVIOUS
<1>3. m \in Seq(Seq(Diagnostics))
  BY <1>1, <1>2 DEF Mapped
<1>4. Mapped(SaysOf(w), Append(us, u)) = Append(m, w[u].says)
  BY <1>1, MappedMore
<1> HIDE DEF m
<1>5. FlattenSeq(m) \in Seq(Diagnostics) /\ FlattenSeq(Append(m, w[u].says)) = FlattenSeq(m) \o w[u].says
  BY <1>1, <1>3, FlattenType, FlattenAppend
<1>6. QED
  BY <1>4, <1>5 DEF m

\* It prints the second, and has said what it has to say.
LEMMA DocsSecond ==
  ASSUME NEW f, NEW w \in Works, NEW D, NEW O, NEW ln \in [Units -> Nat], NEW sd, Docs(f, w, D, O, ln, sd),
         NEW u \in Units, ln[u] = 1, \A v \in Units : ln[v] = 1 => v = u,
         NEW l, l = Line(One(Close(f)))
  PROVE  Docs(f, w, Append(D, l), O, [ln EXCEPT ![u] = 2], sd \o w[u].says)
<1> DEFINE c == Close(f)
           h == HalfOf(f, w)[u]
           t == ScanOf(f, D)
           r == ScanOf(f, Append(D, l))
           m == [ln EXCEPT ![u] = 2]
<1>1. c \in Tokens /\ c \notin {"{", "["} /\ One(c) \in Seq(Tokens) /\ Head(One(c)) = c
  <2>1. c \in Tokens
    BY OpenClose, MarkWords
  <2>2. c \notin {"{", "["}
    BY DEF Close
  <2>3. QED
    BY <2>1, <2>2, OneType
<1>2. h \in Seq(Tokens) /\ h # <<>> /\ ChunkOf(f, w)[u] = Append(h, c)
  BY HalfType
<1>3. l \in LineSet /\ l.text = One(c) /\ ~ l.noise
  BY <1>1, LineIs
<1>4. l \in Fitting(f)
  BY <1>1, <1>3 DEF Fitting, Starts
<1>5. D \in Seq(Fitting(f)) /\ D \in Seq(LineSet)
  BY FittingType DEF Docs
<1>6. Append(D, l) \in Seq(Fitting(f))
  BY <1>4, <1>5
<1>7. Meets(Opening(f), Append(D, l))
  <2>1. Meets(Opening(f), D)
    BY DEF Docs
  <2>2. QED
    BY <1>3, <1>5, <2>1, MeetsAppend
<1>8. At(t, 1, h, t.chunks) /\ t \in ScanState(Tokens)
  BY <1>5, ScanOfType DEF Docs
<1>9. t.chunks \in Seq(Seq(Tokens))
  BY <1>8, StateIs
<1>10. r = Scanned(t, Append(One(c), Newline), Open(f), c)
  BY <1>3, <1>5, LineScan
<1>11. PICK us \in Seq(Units) : sd = FlattenSeq(Mapped(SaysOf(w), us)) /\ t.chunks = Mapped(ChunkOf(f, w), us)
  BY DEF Docs, FoundDocs
<1> HIDE DEF t, r, h
<1>12. At(r, 0, <<>>, Append(t.chunks, Append(h, c)))
  BY <1>2, <1>8, <1>9, <1>10, CloseScanned
<1>13. r.chunks = Append(t.chunks, Append(h, c)) /\ At(r, 0, <<>>, r.chunks)
  BY <1>12 DEF At
<1>14. r.chunks = Mapped(ChunkOf(f, w), Append(us, u))
  BY <1>2, <1>11, <1>13, MappedMore
<1>15. FoundDocs(f, w, Append(D, l), sd \o w[u].says)
  <2>1. Append(us, u) \in Seq(Units)
    OBVIOUS
  <2>2. sd \o w[u].says = FlattenSeq(Mapped(SaysOf(w), Append(us, u)))
    BY <1>11, SaidMore
  <2>3. QED
    BY <1>14, <2>1, <2>2 DEF FoundDocs, r
<1>16. \A v \in Units : m[v] # 1
  OBVIOUS
<1> HIDE DEF m
<1>17. QED
  BY <1>6, <1>7, <1>13, <1>15, <1>16 DEF Docs, r, m

-----------------------------------------------------------------------------
(* What the parsers make of such an output.                                *)

LEMMA JsonChunk ==
  ASSUME NEW w \in Works, NEW u \in Units, NEW f \in {"json", "sarif"}
  PROVE  Json(ChunkOf(f, w)[u]) = Document(f, w[u].says)
<1> DEFINE b == Body(f, w[u].says)
           h == HalfOf(f, w)[u]
           c == Close(f)
<1>1. b \in Seq(Marks) /\ b \in Seq(Tokens) /\ h = Append(b, Newline) /\ h \in Seq(Tokens)
      /\ ChunkOf(f, w)[u] = Append(h, c) /\ ChunkOf(f, w)[u] \in Seq(Tokens)
  BY HalfType
<1>2. Document(f, w[u].says) = Append(b, c)
  BY HalfType, DocumentIs
<1>3. c \in Marks /\ c \in Tokens /\ Newline \in Tokens /\ Newline \notin Marks
  BY OpenClose, MarkWords DEF Marks
<1>4. Json(ChunkOf(f, w)[u]) = Only(Marks, ChunkOf(f, w)[u])
  BY <1>1, JsonIs
<1> HIDE DEF b, h, c
<1>5. \A k \in DOMAIN b : b[k] \in Marks
  BY <1>1
<1>6. Only(Marks, b) = b
  BY <1>1, <1>5, OnlyAll
<1>7. Only(Marks, Append(b, Newline)) = b
  BY <1>1, <1>3, <1>6, OnlyAppend
<1>8. Only(Marks, Append(h, c)) = Append(b, c)
  <2>1. Only(Marks, h) = b
    BY <1>1, <1>7
  <2>2. h \in Seq(Tokens) /\ c \in Tokens
    BY <1>1, <1>3
  <2>3. Only(Marks, Append(h, c)) = IF c \in Marks THEN Append(Only(Marks, h), c) ELSE Only(Marks, h)
    BY <2>2, OnlyAppend
  <2>4. QED
    BY <1>3, <2>1, <2>3
<1>9. QED
  BY <1>1, <1>2, <1>4, <1>8 DEF b, c, h

\* Two units whose documents read the same say the same, nothing.
LEMMA SameDocument ==
  ASSUME NEW w \in Works, NEW u \in Units, NEW v \in Units, NEW f \in {"json", "sarif"},
         Document(f, w[u].says) = Document(f, w[v].says)
  PROVE  w[u].says = w[v].says
<1>1. CASE u = v
  BY <1>1
<1>2. CASE u # v
  <2>1. w[u].says \in Seq(Diagnostics) /\ w[v].says \in Seq(Diagnostics)
    BY WorkIs
  <2>2. ToSet(w[u].says) \cap ToSet(w[v].says) = {}
    BY <1>2, SaidAssumption
  <2>3. \A d \in Diagnostics : Meets({d}, w[u].says) <=> Meets({d}, w[v].says)
    BY <2>1, BodyMeets
  <2>4. \A d \in Diagnostics : ~ Meets({d}, w[u].says) /\ ~ Meets({d}, w[v].says)
    BY <2>2, <2>3, SaysOnce
  <2>5. ASSUME NEW s \in Seq(Diagnostics), \A d \in Diagnostics : ~ Meets({d}, s)
        PROVE  s = <<>>
    <3>1. ASSUME s # <<>> PROVE FALSE
      <4>1. s[1] \in Diagnostics /\ 1 \in DOMAIN s
        BY <3>1
      <4>2. Meets({s[1]}, s)
        BY <4>1 DEF Meets
      <4>3. QED
        BY <2>5, <4>1, <4>2
    <3>2. QED
      BY <3>1
  <2>6. w[u].says = <<>> /\ w[v].says = <<>>
    BY <2>1, <2>4, <2>5
  <2>7. QED
    BY <2>6
<1>3. QED
  BY <1>1, <1>2

\* What a parser of target is given of documents in its own dialect.
Own(target) == IF target = "sarif" THEN "sarif" ELSE "json"

LEMMA ChunksParsed ==
  ASSUME NEW w \in Works, NEW us \in Seq(Units), NEW target \in {"gcc", "clang", "sarif"},
         NEW f, f = Own(target),
         NEW known, known = {w[u].says : u \in Units}
  PROVE  ParseChunks(Mapped(ChunkOf(f, w), us), target, target, known) = FlattenSeq(Mapped(SaysOf(w), us))
<1> DEFINE cs == Mapped(ChunkOf(f, w), us)
           M == Meaning(target, target, known)
<1>0. f \in {"json", "sarif"} /\ Piece(target, target) = f
  BY DEF Own, Piece
<1>1. \A k \in DOMAIN us : us[k] \in Units
  OBVIOUS
<1>2. \A u \in Units : ChunkOf(f, w)[u] \in Seq(Tokens)
  BY HalfType
<1>3. cs \in Seq(Seq(Tokens)) /\ DOMAIN cs = DOMAIN us /\ \A k \in DOMAIN us : cs[k] = ChunkOf(f, w)[us[k]]
  BY <1>1, <1>2 DEF Mapped
<1>4. \A u \in Units : w[u].says \in Reads(ChunkOf(f, w)[u], target, target, known)
  BY <1>0, JsonChunk DEF Reads
<1>5. ASSUME NEW u \in Units PROVE M[ChunkOf(f, w)[u]] = SaysOf(w)[u]
  <2>1. Reads(ChunkOf(f, w)[u], target, target, known) # {}
    BY <1>4
  <2> DEFINE chunk == ChunkOf(f, w)[u]
  <2>2. chunk \in Seq(Tokens) /\ Reads(chunk, target, target, known) # {}
    BY <1>2, <2>1
  <2>3. \E ds \in known : /\ Json(chunk) = Document(Piece(target, target), ds)
                          /\ Meaning(target, target, known)[chunk] = Read(target, target, ds)
    <3> HIDE DEF chunk, M
    <3>1. \A c \in Seq(Tokens) : Reads(c, target, target, known) # {} =>
            \E ds \in known : /\ Json(c) = Document(Piece(target, target), ds)
                              /\ Meaning(target, target, known)[c] = Read(target, target, ds)
      BY ONLY MeaningRead
    <3>2. QED
      BY <2>2, <3>1
  <2>4. PICK ds \in known : /\ Json(ChunkOf(f, w)[u]) = Document(f, ds)
                            /\ M[ChunkOf(f, w)[u]] = Read(target, target, ds)
    BY <1>0, <2>3
  <2>5. PICK v \in Units : ds = w[v].says
    BY <2>4
  <2>6. Document(f, w[u].says) = Document(f, w[v].says)
    BY <1>0, <2>4, <2>5, JsonChunk
  <2>7. w[u].says = ds
    BY <1>0, <2>5, <2>6, SameDocument
  <2>8. Read(target, target, ds) = ds
    BY DEF Read
  <2> HIDE DEF M
  <2>9. QED
    BY <2>4, <2>7, <2>8 DEF SaysOf
<1> HIDE DEF cs, M
<1>6. \A k \in DOMAIN cs : Reads(cs[k], target, target, known) # {}
  BY <1>1, <1>3, <1>4
<1>7. ParseChunks(cs, target, target, known) = FlattenSeq(Mapped(M, cs))
  BY <1>3, <1>6, ParseChunksIs DEF M
<1>8. Mapped(M, cs) = Mapped(SaysOf(w), us)
  <2>1. \A k \in DOMAIN us : M[cs[k]] = SaysOf(w)[us[k]]
    BY <1>1, <1>3, <1>5
  <2>2. QED
    BY <1>3, <2>1 DEF Mapped
<1>9. QED
  BY <1>7, <1>8 DEF cs

\* The first line that begins with a bracket, of the ones that are no noise.
LEMMA FittingStart ==
  ASSUME NEW f \in {"json", "sarif"}, NEW D \in Seq(Fitting(f))
  PROVE  LET t == stripNinjaNoise(D)
         IN  /\ hasStructuredContent(t) <=> Meets(Opening(f), D)
             /\ isSARIF(t) <=> f = "sarif" /\ Meets(Opening(f), D)
<1> DEFINE t == stripNinjaNoise(D)
<1>1. D \in Seq(LineSet)
  BY FittingType
<1>2. t = Only(Silent, D) /\ t \in Seq(LineSet)
  BY <1>1, StripIs
<1>3. t \in Seq(Fitting(f) \cap Silent)
  BY <1>2, OnlyType
<1>4. Meets(Opening(f), t) <=> Meets(Opening(f), D)
  <2>1. Opening(f) \cap Silent = Opening(f)
    BY DEF Opening, Silent
  <2>2. QED
    BY <1>1, <2>1, StripMeets
<1> HIDE DEF t
<1>5. \A k \in DOMAIN t : t[k] \in Fitting(f) /\ t[k] \in Silent
  BY <1>3
<1>6. \A k \in DOMAIN t : /\ t[k] \in Opening(f) <=> Starts(t[k], {Open(f)})
                          /\ Starts(t[k], {"{", "["}) <=> Starts(t[k], {Open(f)})
  BY <1>5 DEF Fitting, Silent, Opening, Starts, Open
<1>7. hasStructuredContent(t) <=> Meets(Opening(f), t)
  BY <1>6 DEF hasStructuredContent, Meets
<1>8. CASE f = "sarif"
  <2>1. Open(f) = "{"
    BY <1>8 DEF Open
  <2>2. \A k \in DOMAIN t : ~ Starts(t[k], {"["})
    BY <1>6, <2>1 DEF Starts
  <2>3. isSARIF(t) <=> \E k \in DOMAIN t : Starts(t[k], {"{"})
    <3>1. \A k \in DOMAIN t : \A j \in 1 .. k - 1 : j \in DOMAIN t
      BY <1>2
    <3>2. QED
      BY <2>2, <3>1 DEF isSARIF
  <2>4. QED
    BY <1>4, <1>6, <1>7, <1>8, <2>1, <2>3 DEF Meets, t
<1>9. CASE f = "json"
  <2>1. Open(f) = "["
    BY <1>9 DEF Open
  <2>2. \A k \in DOMAIN t : ~ Starts(t[k], {"{"})
    BY <1>6, <2>1 DEF Starts
  <2>3. ~ isSARIF(t)
    BY <2>2 DEF isSARIF
  <2>4. QED
    BY <1>4, <1>7, <1>9, <2>3 DEF t
<1>10. QED
  BY <1>8, <1>9

LEMMA HushStart ==
  ASSUME NEW O \in Seq(Hush)
  PROVE  ~ hasStructuredContent(stripNinjaNoise(O))
<1> DEFINE t == stripNinjaNoise(O)
<1>1. O \in Seq(LineSet)
  BY FittingType
<1>2. t = Only(Silent, O)
  BY <1>1, StripIs
<1>3. t \in Seq(Hush \cap Silent)
  BY <1>2, OnlyType
<1> HIDE DEF t
<1>4. \A k \in DOMAIN t : t[k] \in Hush /\ t[k] \in Silent
  BY <1>3
<1>5. \A k \in DOMAIN t : ~ Starts(t[k], {"{", "["})
  BY <1>4, HushIs DEF Silent
<1>6. QED
  BY <1>5 DEF hasStructuredContent, t

LEMMA DocsParsed ==
  ASSUME NEW f \in {"json", "sarif"}, NEW w \in Works, NEW D, NEW O, NEW ln, NEW sd,
         Docs(f, w, D, O, ln, sd),
         NEW known, known = {w[u].says : u \in Units},
         NEW toolchain, toolchain = "clang" \/ (toolchain = "gcc" /\ f = "json"),
         NEW dialect, dialect = IF f = "sarif" THEN "sarif" ELSE toolchain,
         NEW s, NEW t, (s = D /\ t = O) \/ (s = O /\ t = D)
  PROVE  Parse(toolchain, s, t, known, dialect) = sd
<1> DEFINE input == StructuredInput(s, t)
<1>1. D \in Seq(Fitting(f)) /\ O \in Seq(Hush)
  BY DEF Docs
<1>2. ~ hasStructuredContent(stripNinjaNoise(O))
  BY <1>1, HushStart
<1>3. hasStructuredContent(stripNinjaNoise(D)) <=> Meets(Opening(f), D)
  BY <1>1, FittingStart
<1>4. CASE Meets(Opening(f), D)
  <2>1. input = stripNinjaNoise(D)
    BY <1>2, <1>3, <1>4 DEF StructuredInput
  <2>2. isSARIF(input) <=> f = "sarif"
    BY <1>1, <1>4, <2>1, FittingStart
  <2>3. PICK us \in Seq(Units) : /\ sd = FlattenSeq(Mapped(SaysOf(w), us))
                                 /\ ScanOf(f, D).chunks = Mapped(ChunkOf(f, w), us)
    BY DEF Docs, FoundDocs
  <2>4. Split(input, Open(f), Close(f)) = Mapped(ChunkOf(f, w), us)
    BY <2>1, <2>3 DEF Split, ScanOf
  <2>5. dialect \in {"gcc", "clang", "sarif"} /\ f = Own(dialect)
    BY DEF Own
  <2>6. ParseChunks(Split(input, Open(f), Close(f)), dialect, dialect, known) = sd
    BY <2>3, <2>4, <2>5, ChunksParsed
  <2> HIDE DEF input
  <2>7. CASE f = "json"
    <3>1. Open(f) = "[" /\ Close(f) = "]"
      BY <2>7 DEF Open, Close
    <3>2. /\ toolchain = "clang" => ClangParse(s, t, known, dialect) = sd
          /\ toolchain = "gcc" => GCCParse(s, t, known, dialect) = sd
      BY <2>2, <2>6, <2>7, <3>1 DEF ClangParse, GCCParse, input
    <3>3. QED
      BY <3>2 DEF Parse
  <2>8. CASE f = "sarif"
    <3>1. Open(f) = "{" /\ Close(f) = "}"
      BY <2>8 DEF Open, Close
    <3>2. ClangParse(s, t, known, dialect) = sd
      BY <2>2, <2>6, <2>8, <3>1 DEF ClangParse, input
    <3>3. toolchain = "clang"
      BY <2>8
    <3>4. QED
      BY <3>2, <3>3 DEF Parse
  <2>9. QED
    BY <2>7, <2>8
<1>5. CASE ~ Meets(Opening(f), D)
  <2>1. input = <<>>
    BY <1>2, <1>3, <1>5 DEF StructuredInput
  <2>2. sd = <<>>
    BY <1>5 DEF Docs
  <2>3. ClangParse(s, t, known, dialect) = <<>> /\ GCCParse(s, t, known, dialect) = <<>>
    BY <2>1, EmptyInput DEF ClangParse, GCCParse
  <2>4. QED
    BY <2>2, <2>3 DEF Parse
<1>6. QED
  BY <1>4, <1>5

-----------------------------------------------------------------------------
(* The invariant of NoneLost.                                              *)

LEMMA CompletedNone ==
  ASSUME NEW u
  PROVE  CompletedBy(u, 0) = <<>>
<1>1. [j \in 1 .. 0 |-> Completes(u, j)] = <<>>
  OBVIOUS
<1>2. QED
  BY <1>1, FlattenEmpty DEF CompletedBy

LEMMA CompletedNext ==
  ASSUME InputsOK, NEW u \in Units, NEW k \in Nat, NEW l \in DOMAIN Output(u), l = k + 1
  PROVE  CompletedBy(u, l) = CompletedBy(u, k) \o Completes(u, l)
<1> DEFINE c == [j \in 1 .. k |-> Completes(u, j)]
           d == [j \in 1 .. l |-> Completes(u, j)]
<1>1. \A j \in 1 .. l : j \in DOMAIN Output(u)
  BY OutputType
<1>2. \A j \in 1 .. l : Completes(u, j) \in Seq(Diagnostics)
  BY <1>1, CompletesType
<1>3. c \in Seq(Seq(Diagnostics)) /\ Completes(u, l) \in Seq(Diagnostics)
  BY <1>2
<1>4. d = Append(c, Completes(u, l))
  BY <1>2
<1> HIDE DEF c, d
<1>5. FlattenSeq(d) = FlattenSeq(c) \o Completes(u, l)
  BY <1>3, <1>4, FlattenAppend
<1>6. QED
  BY <1>5 DEF CompletedBy, c, d

LEMMA DocumentCompletes ==
  ASSUME InputsOK, NEW u \in Units, Format(setup) \in {"json", "sarif"}
  PROVE  /\ Completes(u, 1) = <<>> /\ Completes(u, 2) = work[u].says
         /\ CompletedBy(u, 1) = <<>> /\ CompletedBy(u, 2) = work[u].says
<1>1. Completes(u, 1) = <<>> /\ Completes(u, 2) = work[u].says
  BY DEF Completes
<1>2. work[u].says \in Seq(Diagnostics)
  BY WorkIs DEF InputsOK
<1>3. DOMAIN Output(u) = {1, 2}
  BY DocumentOutput
<1>4. CompletedBy(u, 1) = CompletedBy(u, 0) \o Completes(u, 1)
  BY <1>3, CompletedNext
<1>5. CompletedBy(u, 1) = <<>>
  BY <1>1, <1>4, CompletedNone
<1>6. CompletedBy(u, 2) = CompletedBy(u, 1) \o Completes(u, 2)
  BY <1>3, CompletedNext
<1> DEFINE s == work[u].says
<1> HIDE DEF s
<1>7. <<>> \o s = s
  BY <1>2 DEF s
<1>8. CompletedBy(u, 2) = s
  BY <1>1, <1>5, <1>6, <1>7 DEF s
<1>9. QED
  BY <1>1, <1>5, <1>8 DEF s

\* Documents are in one stream.
InStdout == setup.tool = "ninja" \/ setup.compiler.stream = "stdout"
Main     == IF InStdout THEN stdout ELSE stderr
Side     == IF InStdout THEN stderr ELSE stdout

Structured == Format(setup) \in {"json", "sarif"}

\* With DiagnosticSerialBuild no two units run at the same time.
SerialInv ==
  setup.DiagnosticSerialBuild =>
    \A u, v \in Units : unit[u] = "running" /\ unit[v] = "running" => u = v

\* What is said is what can be read: in documents, in lines, or not at all.
DocsInv ==
  Promised /\ QuietBuild /\ Structured => Docs(Format(setup), work, Main, Side, lines, said)

LinesInv ==
  Promised /\ Format(setup) = "text" => Stated(stderr) = said

RefusedInv ==
  Promised /\ Format(setup) = "refused" =>
    said = <<>> /\ stdout \in Seq(Plain) /\ stderr \in Seq(Plain)

SaidInv == SerialInv /\ DocsInv /\ LinesInv /\ RefusedInv

LEMMA SaidInit ==
  ASSUME DiagnoseInit
  PROVE  SaidInv
<1>1. /\ stdout = <<>> /\ stderr = <<>> /\ said = <<>>
      /\ unit = [u \in Units |-> "waiting"] /\ lines = [u \in Units |-> 0]
  BY DEF DiagnoseInit
<1>2. SerialInv
  BY <1>1 DEF SerialInv
<1>3. DocsInv
  <2>1. \A u \in Units : lines[u] = 0
    BY <1>1
  <2>2. Main = <<>> /\ Side = <<>>
    BY <1>1 DEF Main, Side
  <2>3. QED
    BY <1>1, <2>1, <2>2, DocsInit DEF DocsInv
<1>4. <<>> \in Seq(Plain) /\ Stated(<<>>) = <<>>
  <2>1. <<>> \in Seq(Plain)
    OBVIOUS
  <2>2. QED
    BY <2>1, PlainSilent
<1>5. LinesInv /\ RefusedInv
  BY <1>1, <1>4 DEF LinesInv, RefusedInv
<1>6. QED
  BY <1>2, <1>3, <1>5 DEF SaidInv

LEMMA SerialStep ==
  ASSUME TypeInv, SerialInv, DiagnoseNext
  PROVE  SerialInv'
<1>1. CASE UNCHANGED <<setup, unit>>
  BY <1>1 DEF SerialInv
<1>2. ASSUME NEW u \in Units, Start(u) PROVE SerialInv'
  <2>1. unit' = [unit EXCEPT ![u] = "running"] /\ setup' = setup /\ MayStart(u)
    BY <1>2 DEF Start, inputs
  <2>2. setup.DiagnosticSerialBuild => \A v \in Units : unit[v] # "running"
    BY <2>1 DEF MayStart
  <2>3. \A v \in Units : v # u => unit'[v] = unit[v]
    BY <2>1 DEF TypeInv
  <2>4. QED
    BY <2>1, <2>2, <2>3 DEF SerialInv
<1>3. ASSUME NEW u \in Units, setup' = setup, unit' = [unit EXCEPT ![u] = Ended(u)] PROVE SerialInv'
  <2>1. \A v \in Units : unit'[v] = "running" => unit[v] = "running"
    BY <1>3 DEF TypeInv, Ended
  <2>2. QED
    BY <1>3, <2>1 DEF SerialInv
<1>4. CASE Report \/ Reconfigure \/ Exit \/ Kill \/ \E u \in Units : Write(u)
  BY <1>1, <1>4 DEF Report, Reconfigure, Exit, Kill, Write, inputs
<1>5. ASSUME NEW u \in Units, MakeEnds(u) \/ NinjaEnds(u) PROVE SerialInv'
  BY <1>3, <1>5 DEF MakeEnds, NinjaEnds, inputs
<1>6. QED
  BY <1>2, <1>4, <1>5 DEF DiagnoseNext

LEMMA InputsStay ==
  ASSUME DiagnoseNext
  PROVE  setup' = setup /\ work' = work /\ reconfig' = reconfig
<1>1. CASE Report \/ Reconfigure \/ Exit \/ Kill
  BY <1>1 DEF Report, Reconfigure, Exit, Kill, inputs
<1>2. CASE \E u \in Units : Start(u) \/ Write(u) \/ MakeEnds(u) \/ NinjaEnds(u)
  BY <1>2 DEF Start, Write, MakeEnds, NinjaEnds, inputs
<1>3. QED
  BY <1>1, <1>2 DEF DiagnoseNext

\* Both streams grow by lines that say nothing.
LEMMA DocsTalk ==
  ASSUME NEW f, Docs(f, work, Main, Side, lines, said),
         NEW a \in Seq(Hush), NEW b \in Seq(Hush),
         (a \in Seq(Noisy) /\ b \in Seq(Noisy)) \/ \A u \in Units : lines[u] # 1,
         stdout' = stdout \o a, stderr' = stderr \o b, lines' = lines, said' = said, setup' = setup
  PROVE  Docs(f, work, Main', Side', lines', said')
<1>1. CASE InStdout
  <2>1. Docs(f, work, stdout, stderr, lines, said)
    BY <1>1 DEF Main, Side
  <2>2. Docs(f, work, stdout \o a, stderr, lines, said)
    BY <2>1, DocsHush
  <2>3. Docs(f, work, stdout \o a, stderr \o b, lines, said)
    BY <2>2, DocsSide
  <2>4. Main' = stdout' /\ Side' = stderr'
    BY <1>1 DEF Main, Side, InStdout
  <2>5. QED
    BY <2>3, <2>4
<1>2. CASE ~ InStdout
  <2>1. Docs(f, work, stderr, stdout, lines, said)
    BY <1>2 DEF Main, Side
  <2>2. Docs(f, work, stderr \o b, stdout, lines, said)
    BY <2>1, DocsHush
  <2>3. Docs(f, work, stderr \o b, stdout \o a, lines, said)
    BY <2>2, DocsSide
  <2>4. Main' = stderr' /\ Side' = stdout'
    BY <1>2 DEF Main, Side, InStdout
  <2>5. QED
    BY <2>3, <2>4
<1>3. QED
  BY <1>1, <1>2

LEMMA NoisyLines ==
  ASSUME NEW text \in Seq(Tokens)
  PROVE  Noise(text) \in Noisy /\ One(Noise(text)) \in Seq(Noisy) /\ One(Noise(text)) \in Seq(Hush)
<1>1. Noise(text) \in Noisy
  BY NoiseIs DEF Noisy
<1>2. One(Noise(text)) \in Seq(Noisy)
  BY <1>1, OneType
<1>3. QED
  BY <1>1, <1>2, FittingType

LEMMA QuietLine ==
  ASSUME NEW l \in LineSet, l.text \in Seq(Words), Quiet(l.text)
  PROVE  l \in Hush
<1> DEFINE t == l.text
<1>1. t \in Seq(Words) /\ Words \subseteq Tokens
  BY MarkWords
<1>2. \A k \in DOMAIN t : t[k] \notin {Quote, "[", "]", "{", "}"}
  BY DEF Quiet
<1> HIDE DEF t
<1>3. \A k \in DOMAIN t : t[k] \in Tokens
  BY <1>1
<1>4. \A k \in DOMAIN t : t[k] \in Calm
  BY <1>2, <1>3 DEF Calm, Brackets
<1>5. t \in Seq(Calm)
  BY <1>1, <1>4
<1>6. QED
  BY <1>5 DEF Hush, t

LEMMA MessagesHush ==
  ASSUME InputsOK, reconfig # None, Quiet(reconfig.text)
  PROVE  Messages \in Seq(Hush)
<1> DEFINE m == Messages
<1>1. m \in Seq(LineSet) /\ \A k \in DOMAIN m : m[k].text = reconfig.text
  BY MessagesAre
<1>2. reconfig.text \in Seq(Words)
  BY ReconfigIs DEF InputsOK
<1> HIDE DEF m
<1>3. ASSUME NEW k \in DOMAIN m PROVE m[k] \in Hush
  <2>1. m[k] \in LineSet /\ m[k].text = reconfig.text
    BY <1>1
  <2>2. QED
    BY <1>2, <2>1, QuietLine
<1>4. m \in Seq(Hush)
  BY <1>1, <1>3
<1>5. QED
  BY <1>4 DEF m

LEMMA HeadingHush ==
  ASSUME InputsOK, NEW u \in Units, Quiet(work[u].command)
  PROVE  Heading(u) \in Seq(Hush)
<1> DEFINE p == Progress
           n == Noise(<<"[", "code", "]">>)
           c == Line(work[u].command)
<1>1. p \in LineSet /\ n \in LineSet /\ c \in LineSet
  BY ToolLines, CommandLine DEF InputsOK, Chat
<1>2. p.noise /\ n.noise
  BY DEF Progress, Noise, Line
<1>3. work[u].command \in Seq(Words) /\ c.text = work[u].command
  <2>1. work[u].command \in Seq(Words)
    BY WorkIs DEF InputsOK
  <2>2. QED
    BY <2>1 DEF Line
<1>4. p \in Hush /\ n \in Hush
  BY <1>1, <1>2 DEF Hush
<1>5. c \in Hush
  BY <1>1, <1>3, QuietLine
<1>6. Heading(u) = <<p>> \o IF Fails(u) THEN <<n, c>> ELSE <<>>
  BY DEF Heading
<1> HIDE DEF p, n, c
<1>7. QED
  BY <1>4, <1>5, <1>6

\* Where documents are printed, at most one unit is between its two lines, and
\* under Ninja none is while the build runs.
LEMMA OneBetween ==
  ASSUME TypeInv, SerialInv, Promised, Structured
  PROVE  /\ \A u \in Units : lines[u] \in {0, 1, 2} /\ Len(Output(u)) = 2
         /\ \A u, v \in Units : setup.tool # "ninja" /\ lines[u] = 1 /\ unit[v] = "running" => u = v
         /\ exit = "running" /\ setup.tool = "ninja" => \A u \in Units : lines[u] # 1
<1>1. ASSUME NEW u \in Units
      PROVE  Len(Output(u)) = 2 /\ lines[u] \in {0, 1, 2} /\ (lines[u] = 1 => unit[u] = "running")
  <2>1. Len(Output(u)) = 2
    BY DocumentOutput DEF TypeInv, Structured
  <2>2. unit[u] \in {"waiting", "running", "done", "failed"}
    BY DEF TypeInv
  <2>3. /\ lines[u] \in 0 .. 2
        /\ unit[u] = "waiting" => lines[u] = 0
        /\ unit[u] \in {"done", "failed"} => lines[u] = 2
    BY <2>1 DEF TypeInv, Far
  <2>4. lines[u] \in {0, 1, 2}
    BY <2>3
  <2>5. QED
    BY <2>1, <2>2, <2>3, <2>4
<1>2. setup.tool # "ninja" => setup.DiagnosticSerialBuild
  BY PromiseIs DEF TypeInv, Structured
<1>3. exit = "running" /\ setup.tool = "ninja" => \A u \in Units : lines[u] # 1
  BY <1>1 DEF TypeInv, Far
<1>4. QED
  BY <1>1, <1>2, <1>3 DEF SerialInv

\* A unit under Make prints its next line.
LEMMA DocsWrite ==
  ASSUME TypeInv, SerialInv, Promised, Structured,
         Docs(Format(setup), work, Main, Side, lines, said), NEW u \in Units, Write(u)
  PROVE  Docs(Format(setup), work, Main', Side', lines', said')
<1> DEFINE f == Format(setup)
           k == lines[u] + 1
           l == Output(u)[k]
<1>1. /\ setup' = setup /\ setup.tool # "ninja" /\ unit[u] = "running"
      /\ lines[u] < Len(Output(u)) /\ lines' = [lines EXCEPT ![u] = @ + 1]
  BY DEF Write, inputs
<1>2. lines \in [Units -> Nat] /\ work \in Works
  BY DEF TypeInv, InputsOK
<1>3. lines[u] \in {0, 1} /\ Len(Output(u)) = 2
  BY <1>1, OneBetween
<1>4. lines' = [lines EXCEPT ![u] = k] /\ lines'[u] = k
  BY <1>1, <1>2
<1>5. /\ IF setup.compiler.stream = "stdout"
           THEN stdout' = Append(stdout, l) /\ stderr' = stderr
           ELSE stdout' = stdout /\ stderr' = Append(stderr, l)
      /\ said' = said \o Completes(u, k)
  BY <1>4 DEF Write
<1>6. Main' = Append(Main, l) /\ Side' = Side
  <2>1. InStdout <=> setup.compiler.stream = "stdout"
    BY <1>1 DEF InStdout
  <2>2. InStdout' <=> InStdout
    BY <1>1 DEF InStdout
  <2> HIDE DEF l
  <2>3. QED
    BY <1>5, <2>1, <2>2 DEF Main, Side
<1>7. /\ Output(u)[1] = Line(Body(f, work[u].says)) /\ Output(u)[2] = Line(One(Close(f)))
      /\ Completes(u, 1) = <<>> /\ Completes(u, 2) = work[u].says
  BY DocumentOutput, DocumentCompletes DEF TypeInv, Structured
<1>8. \A v \in Units : lines[v] = 1 => v = u
  BY <1>1, OneBetween
<1>9. CASE lines[u] = 0
  <2>1. k = 1
    BY <1>9
  <2>2. \A v \in Units : lines[v] # 1
    BY <1>8, <1>9
  <2>3. said' = said
    <3>1. said \o <<>> = said
      BY DEF TypeInv
    <3>2. QED
      BY <1>5, <1>7, <2>1, <3>1
  <2>4. l = Line(Body(f, work[u].says))
    BY <1>7, <2>1
  <2>5. Docs(f, work, Append(Main, l), Side, [lines EXCEPT ![u] = 1], said)
    BY <1>2, <2>2, <2>4, DocsFirst
  <2>6. QED
    BY <1>4, <1>6, <2>1, <2>3, <2>5
<1>10. CASE lines[u] = 1
  <2>1. k = 2
    BY <1>10
  <2>2. said' = said \o work[u].says
    BY <1>5, <1>7, <2>1
  <2>3. l = Line(One(Close(f)))
    BY <1>7, <2>1
  <2>4. Docs(f, work, Append(Main, l), Side, [lines EXCEPT ![u] = 2], said \o work[u].says)
    BY <1>2, <1>8, <1>10, <2>3, DocsSecond
  <2>5. QED
    BY <1>4, <1>6, <2>1, <2>2, <2>4
<1>11. QED
  BY <1>3, <1>9, <1>10

LEMMA TwoPrefix ==
  ASSUME NEW l, NEW m
  PROVE  SubSeq(Two(l, m), 1, 1) = One(l) /\ SubSeq(Two(l, m), 1, 2) = Two(l, m)
<1> DEFINE s == Two(l, m)
<1>1. s \in Seq({l, m}) /\ Len(s) = 2 /\ s[1] = l
  BY DEF Two
<1> HIDE DEF s
<1>2. SubSeq(s, 1, 2) = s
  BY <1>1, WholePrefix
<1>3. SubSeq(s, 1, 1) = One(l)
  <2>1. 0 \in 0 .. Len(s) - 1
    BY <1>1
  <2>2. SubSeq(s, 1, 0 + 1) = Append(SubSeq(s, 1, 0), s[0 + 1])
    BY <1>1, <2>1, Longer
  <2>3. 0 + 1 = 1 /\ SubSeq(s, 1, 0) = <<>>
    BY <1>1, WholePrefix
  <2>4. SubSeq(s, 1, 1) = Append(<<>>, l)
    BY <1>1, <2>2, <2>3
  <2>5. QED
    BY <2>4, AppendNone
<1>4. QED
  BY <1>2, <1>3 DEF s

\* Ninja writes what there is of a unit's output.
LEMMA DocsNinja ==
  ASSUME TypeInv, SerialInv, Promised, QuietBuild, Structured,
         Docs(Format(setup), work, Main, Side, lines, said),
         NEW u \in Units, NEW k \in 0 .. Len(Output(u)), NinjaPrints(u, k)
  PROVE  Docs(Format(setup), work, Main', Side', lines', said')
<1> DEFINE f == Format(setup)
           h == Heading(u)
           s == stdout \o h
           l == Line(Body(f, work[u].says))
           m == Line(One(Close(f)))
           ln == [lines EXCEPT ![u] = 1]
<1>1. /\ exit = "running" /\ unit[u] = "running" /\ setup.tool = "ninja"
      /\ setup' = setup /\ stderr' = stderr
      /\ lines' = [lines EXCEPT ![u] = k]
      /\ stdout' = s \o SubSeq(Output(u), 1, k)
      /\ said' = said \o CompletedBy(u, k)
  BY DEF NinjaPrints, inputs
<1>2. lines \in [Units -> Nat] /\ work \in Works /\ stdout \in Seq(LineSet) /\ said \in Seq(Diagnostics)
  BY DEF TypeInv, InputsOK
<1>3. lines[u] = 0 /\ Len(Output(u)) = 2 /\ \A v \in Units : lines[v] # 1
  <2>1. lines[u] = 0
    BY <1>1 DEF TypeInv, Far
  <2>2. QED
    BY <1>1, <2>1, OneBetween
<1>4. Main = stdout /\ Side = stderr /\ Main' = stdout' /\ Side' = stderr
  BY <1>1 DEF Main, Side, InStdout
<1>5. h \in Seq(Hush) /\ h \in Seq(LineSet)
  <2>1. h \in Seq(Hush)
    BY HeadingHush DEF TypeInv, QuietBuild
  <2>2. QED
    BY <2>1, FittingType
<1>6. s \in Seq(LineSet)
  BY <1>2, <1>5
<1>7. Docs(f, work, s, stderr, lines, said)
  BY <1>3, <1>4, <1>5, DocsHush
<1>8. /\ Output(u) = Two(l, m)
      /\ CompletedBy(u, 1) = <<>> /\ CompletedBy(u, 2) = work[u].says
  BY DocumentOutput, DocumentCompletes DEF TypeInv, Structured
<1> HIDE DEF f, h, s, l, m
<1>9. Docs(f, work, Append(s, l), stderr, ln, said)
  BY <1>2, <1>3, <1>7, DocsFirst DEF l
<1>10. said \o <<>> = said
  BY <1>2
<1>11. CASE k = 0
  <2>1. [lines EXCEPT ![u] = 0] = lines
    BY <1>2, <1>3
  <2>2. SubSeq(Output(u), 1, 0) = <<>> /\ s \o <<>> = s
    BY <1>6, <1>8 DEF Two
  <2>3. QED
    BY <1>1, <1>4, <1>7, <1>10, <1>11, <2>1, <2>2, CompletedNone DEF f
<1>12. CASE k = 1
  <2>1. SubSeq(Output(u), 1, 1) = One(l)
    BY <1>8, TwoPrefix
  <2>2. s \o One(l) = Append(s, l)
    BY <1>6 DEF One
  <2>3. QED
    BY <1>1, <1>4, <1>8, <1>9, <1>10, <1>12, <2>1, <2>2 DEF f
<1>13. CASE k = 2
  <2>1. SubSeq(Output(u), 1, 2) = Two(l, m)
    BY <1>8, TwoPrefix
  <2>2. s \o Two(l, m) = Append(Append(s, l), m)
    BY <1>6 DEF Two
  <2>3. ln \in [Units -> Nat] /\ ln[u] = 1 /\ \A v \in Units : ln[v] = 1 => v = u
    BY <1>2, <1>3
  <2>4. [ln EXCEPT ![u] = 2] = [lines EXCEPT ![u] = 2]
    BY <1>2
  <2> HIDE DEF ln
  <2>5. Docs(f, work, Append(Append(s, l), m), stderr, [ln EXCEPT ![u] = 2], said \o work[u].says)
    BY <1>2, <1>9, <2>3, DocsSecond DEF m
  <2>6. QED
    BY <1>1, <1>4, <1>8, <1>13, <2>1, <2>2, <2>4, <2>5 DEF f
<1>14. k \in {0, 1, 2}
  BY <1>3
<1>15. QED
  BY <1>11, <1>12, <1>13, <1>14

LEMMA DocsStep ==
  ASSUME TypeInv, SerialInv, DocsInv, DiagnoseNext
  PROVE  DocsInv'
<1> DEFINE f == Format(setup)
           Goal == Docs(f, work, Main', Side', lines', said')
<1>1. setup' = setup /\ work' = work /\ reconfig' = reconfig
  BY InputsStay
<1>2. /\ Promised' <=> Promised
      /\ QuietBuild' <=> QuietBuild
      /\ Structured' <=> Structured
      /\ Docs(Format(setup), work, Main, Side, lines, said)' <=> Goal
  BY <1>1 DEF Promised, QuietBuild, Structured
<1> SUFFICES ASSUME Promised, QuietBuild, Structured PROVE Goal
  BY <1>2 DEF DocsInv
<1>3. Docs(f, work, Main, Side, lines, said)
  BY DEF DocsInv
<1>4. stdout \in Seq(LineSet) /\ stderr \in Seq(LineSet) /\ InputsOK
  BY DEF TypeInv
<1>5. <<>> \in Seq(Noisy) /\ <<>> \in Seq(Hush) /\ stdout \o <<>> = stdout /\ stderr \o <<>> = stderr
  BY <1>4
<1> HIDE DEF f, Goal
<1>6. ASSUME NEW a \in Seq(Hush), NEW b \in Seq(Hush),
             (a \in Seq(Noisy) /\ b \in Seq(Noisy)) \/ \A u \in Units : lines[u] # 1,
             stdout' = stdout \o a, stderr' = stderr \o b, lines' = lines, said' = said
      PROVE  Goal
  BY <1>1, <1>3, <1>6, DocsTalk DEF Goal
<1>7. CASE UNCHANGED <<lines, stdout, stderr, said>>
  <2>1. stdout' = stdout \o <<>> /\ stderr' = stderr \o <<>>
    BY <1>5, <1>7
  <2>2. QED
    BY <1>5, <1>6, <1>7, <2>1
<1>8. CASE Report \/ Exit
  BY <1>7, <1>8 DEF Report, Exit
<1>9. ASSUME NEW text \in Seq(Words) PROVE One(Noise(text)) \in Seq(Noisy) /\ One(Noise(text)) \in Seq(Hush)
  BY <1>9, WordsType, NoisyLines
<1>10. CASE Reconfigure
  <2>1. /\ rerun /\ reconfig # None /\ lines' = lines /\ said' = said
        /\ \/ stdout' = stdout \o One(Status) \o Messages /\ stderr' = stderr
           \/ stdout' = stdout \o One(Status) /\ stderr' = stderr \o Messages
           \/ stdout' = stdout /\ stderr' = stderr \o Messages
    BY <1>10, ReconfigureIs
  <2>2. \A u \in Units : lines[u] # 1
    BY <2>1 DEF TypeInv, Far
  <2>3. Messages \in Seq(Hush)
    BY <1>4, <2>1, MessagesHush DEF QuietBuild
  <2>4. One(Status) \in Seq(Hush)
    <3>1. <<"[", "status", "]">> \in Seq(Words)
      BY DEF Words
    <3>2. QED
      BY <1>9, <3>1 DEF Status
  <2>5. One(Status) \o Messages \in Seq(Hush) /\ One(Status) \in Seq(LineSet) /\ Messages \in Seq(LineSet)
    BY <2>3, <2>4, FittingType, Joined
  <2>6. stdout \o One(Status) \o Messages = stdout \o (One(Status) \o Messages)
    BY <1>4, <2>5, Joined
  <2>7. CASE stdout' = stdout \o One(Status) \o Messages /\ stderr' = stderr
    <3>1. stdout' = stdout \o (One(Status) \o Messages) /\ stderr' = stderr \o <<>>
      BY <1>5, <2>6, <2>7
    <3>2. QED
      BY <1>5, <1>6, <2>1, <2>2, <2>5, <3>1
  <2>8. CASE stdout' = stdout \o One(Status) /\ stderr' = stderr \o Messages
    BY <1>6, <2>1, <2>2, <2>3, <2>4, <2>8
  <2>9. CASE stdout' = stdout /\ stderr' = stderr \o Messages
    <3>1. stdout' = stdout \o <<>> /\ stderr' = stderr \o Messages
      BY <1>5, <2>9
    <3>2. QED
      BY <1>5, <1>6, <2>1, <2>2, <2>3, <3>1
  <2>10. QED
    BY <2>1, <2>7, <2>8, <2>9
<1>11. ASSUME NEW u \in Units, Start(u) PROVE Goal
  <2>1. /\ lines' = lines /\ stderr' = stderr /\ said' = said /\ MayStart(u)
        /\ stdout' = CASE setup.tool = "ninja"      -> stdout
                       [] setup.tool = "make"       -> Append(stdout, Progress)
                       [] setup.tool = "plain make" -> Append(stdout, Line(work[u].command))
    BY <1>11 DEF Start
  <2>2. CASE setup.tool = "ninja"
    <3>1. stdout' = stdout
      BY <2>1, <2>2
    <3>2. QED
      BY <1>7, <2>1, <3>1
  <2>3. CASE setup.tool = "make"
    <3>1. stdout' = Append(stdout, Progress)
      BY <2>1, <2>3
    <3>2. One(Progress) \in Seq(Noisy) /\ One(Progress) \in Seq(Hush)
      <4>1. <<"[", "count", "]">> \in Seq(Words)
        BY DEF Words
      <4>2. QED
        BY <1>9, <4>1 DEF Progress
    <3>3. stdout' = stdout \o One(Progress)
      BY <1>4, <3>1 DEF One
    <3>4. stderr' = stderr \o <<>>
      BY <1>5, <2>1
    <3>5. QED
      BY <1>5, <1>6, <2>1, <3>2, <3>3, <3>4
  <2>4. CASE setup.tool = "plain make"
    <3> DEFINE c == Line(work[u].command)
    <3>1. stdout' = Append(stdout, c)
      BY <2>1, <2>4
    <3>2. One(c) \in Seq(Hush)
      <4>1. work[u].command \in Seq(Words) /\ c \in LineSet
        BY <1>4, WorkIs, CommandLine DEF InputsOK, Chat
      <4>2. c.text = work[u].command
        BY <4>1 DEF Line
      <4>3. Quiet(work[u].command)
        BY DEF QuietBuild
      <4>4. c \in Hush
        BY <4>1, <4>2, <4>3, QuietLine
      <4>5. QED
        BY <4>4, OneType
    <3> HIDE DEF c
    <3>3. stdout' = stdout \o One(c)
      BY <1>4, <3>1 DEF One
    <3>4. stderr' = stderr \o <<>>
      BY <1>5, <2>1
    <3>5. \A v \in Units : lines[v] # 1
      <4>1. setup.DiagnosticSerialBuild
        BY <1>4, <2>4, PromiseIs DEF Structured
      <4>2. \A v \in Units : unit[v] # "running"
        BY <2>1, <4>1 DEF MayStart
      <4>3. \A v \in Units : lines[v] = 0 \/ lines[v] = 2
        <5> SUFFICES ASSUME NEW v \in Units PROVE lines[v] = 0 \/ lines[v] = 2
          OBVIOUS
        <5>1. unit[v] \in {"waiting", "done", "failed"}
          BY <4>2 DEF TypeInv
        <5>2. Len(Output(v)) = 2
          BY OneBetween
        <5>3. QED
          BY <5>1, <5>2 DEF TypeInv, Far
      <4>4. QED
        BY <4>3
    <3>6. QED
      BY <1>5, <1>6, <2>1, <3>2, <3>3, <3>4, <3>5
  <2>5. setup.tool \in {"ninja", "make", "plain make"}
    BY <1>4, DiagnoseAssumption DEF InputsOK
  <2>6. QED
    BY <2>2, <2>3, <2>4, <2>5
<1>12. ASSUME NEW u \in Units, MakeEnds(u) PROVE Goal
  <2> DEFINE n == Noise(<<"[", "target", "]">>)
  <2>1. /\ lines' = lines /\ stdout' = stdout /\ said' = said
        /\ stderr' = IF Fails(u) THEN Append(stderr, n) ELSE stderr
    BY <1>12 DEF MakeEnds
  <2>2. One(n) \in Seq(Noisy) /\ One(n) \in Seq(Hush)
    <3>1. <<"[", "target", "]">> \in Seq(Words)
      BY DEF Words
    <3>2. QED
      BY <1>9, <3>1
  <2> HIDE DEF n
  <2>3. CASE Fails(u)
    <3>1. stderr' = stderr \o One(n) /\ stdout' = stdout \o <<>>
      BY <1>4, <1>5, <2>1, <2>3 DEF One
    <3>2. QED
      BY <1>5, <1>6, <2>1, <2>2, <3>1
  <2>4. CASE ~ Fails(u)
    BY <1>7, <2>1, <2>4
  <2>5. QED
    BY <2>3, <2>4
<1>13. ASSUME NEW u \in Units, Write(u) PROVE Goal
  BY <1>3, <1>13, DocsWrite DEF f, Goal
<1>14. ASSUME NEW u \in Units, NEW k \in 0 .. Len(Output(u)), NinjaPrints(u, k) PROVE Goal
  BY <1>3, <1>14, DocsNinja DEF f, Goal
<1>15. CASE Kill
  BY <1>7, <1>14, <1>15, KillIs
<1>16. ASSUME NEW u \in Units, NinjaEnds(u) PROVE Goal
  BY <1>14, <1>16, NinjaEndsIs
<1>17. QED
  BY <1>8, <1>10, <1>11, <1>12, <1>13, <1>15, <1>16 DEF DiagnoseNext

\* Where plain lines are read, each line that says something is one more.
LEMMA LinesStep ==
  ASSUME TypeInv, LinesInv, DiagnoseNext
  PROVE  LinesInv'
<1>1. setup' = setup
  BY InputsStay
<1>2. Promised' <=> Promised
  BY <1>1 DEF Promised
<1> SUFFICES ASSUME Promised, Format(setup) = "text" PROVE Stated(stderr') = said'
  BY <1>1, <1>2 DEF LinesInv
<1>3. /\ stderr \in Seq(LineSet) /\ InputsOK /\ Stated(stderr) = said /\ said \in Seq(Diagnostics)
  BY DEF TypeInv, LinesInv
<1>4. setup.tool = "make" /\ setup.compiler.stream = "stderr"
  BY <1>3, PromiseIs
<1>5. said \o <<>> = said
  BY <1>3
<1>6. CASE Report
  BY <1>3, <1>6 DEF Report
<1>7. ASSUME NEW a \in Seq(Plain), stderr' = stderr \o a, said' = said
      PROVE  Stated(stderr') = said'
  <2>1. a \in Seq(LineSet) /\ Stated(a) = <<>>
    BY PlainSilent
  <2>2. Stated(stderr \o a) = Stated(stderr) \o <<>>
    BY <1>3, <2>1, StatedConcat
  <2>3. QED
    BY <1>3, <1>5, <1>7, <2>2
<1>8. CASE Talks
  <2>1. Chat \subseteq Plain
    BY DEF Chat, Plain
  <2>2. PICK a \in Seq(Chat) : stderr' = stderr \o a
    BY <1>8 DEF Talks, Chats
  <2>3. a \in Seq(Plain)
    BY <2>1
  <2>4. said' = said
    BY <1>8 DEF Talks
  <2>5. QED
    BY <1>7, <2>2, <2>3, <2>4
<1>9. CASE Reconfigure
  <2>1. reconfig # None /\ said' = said /\ stderr' = stderr \o Messages
    BY <1>4, <1>9, ReconfigureIs
  <2>2. Messages \in Seq(Plain)
    BY <1>3, <2>1, MessagesAre
  <2>3. QED
    BY <1>7, <2>1, <2>2
<1>10. ASSUME NEW u \in Units, Write(u) PROVE Stated(stderr') = said'
  <2> DEFINE k == lines[u] + 1
             d == work[u].says[k]
             l == PlainLine(d)
  <2>1. lines[u] < Len(Output(u)) /\ lines' = [lines EXCEPT ![u] = @ + 1]
    BY <1>10 DEF Write
  <2>2. lines'[u] = k /\ k \in DOMAIN Output(u)
    <3>1. lines[u] \in Nat /\ lines'[u] = k
      BY <2>1 DEF TypeInv
    <3>2. Output(u) \in Seq(LineSet)
      BY <1>3, OutputType
    <3>3. QED
      BY <2>1, <3>1, <3>2
  <2>3. d \in Diagnostics /\ Output(u)[k] = l
    BY <1>3, <2>2, TextOutput
  <2>4. stderr' = Append(stderr, l) /\ said' = said \o Completes(u, k)
    BY <1>4, <1>10, <2>2, <2>3 DEF Write
  <2>5. Completes(u, k) = One(d)
    BY DEF Completes, One
  <2> HIDE DEF k, d
  <2>6. l \in LineSet /\ l.states = d
    BY <2>3, PlainLineIs
  <2> HIDE DEF l
  <2>7. stderr' = stderr \o One(l)
    BY <1>3, <2>4, <2>6 DEF One
  <2>8. Stated(One(l)) = One(d)
    <3>1. One(l) \in Seq(LineSet) /\ One(l)[1] = l /\ DOMAIN One(l) = {1}
      BY <2>6 DEF One
    <3>2. l \in Stating
      <4>1. d # None
        BY <2>3, SaidAssumption
      <4>2. QED
        BY <2>6, <4>1 DEF Stating
    <3>3. Stated(One(l)) = Mapped(StatesOf, One(l))
      BY <3>1, <3>2, StatedIs, ChosenAll
    <3>4. StatesOf[l] = d
      BY <2>6 DEF StatesOf
    <3>5. Mapped(StatesOf, One(l)) = One(d)
      BY <3>1, <3>4 DEF Mapped, One
    <3>6. QED
      BY <3>3, <3>5
  <2>9. Stated(stderr \o One(l)) = Stated(stderr) \o One(d)
    <3>1. One(l) \in Seq(LineSet)
      BY <2>6, OneType
    <3>2. QED
      BY <1>3, <2>8, <3>1, StatedConcat
  <2>10. QED
    BY <1>3, <2>4, <2>5, <2>7, <2>9
<1>11. ASSUME NEW u \in Units, NEW k \in 0 .. Len(Output(u)), NinjaPrints(u, k) PROVE FALSE
  BY <1>4, <1>11 DEF NinjaPrints
<1>12. QED
  BY <1>6, <1>8, <1>9, <1>10, <1>11, StepCases

\* A compiler that refuses the flag says nothing.
LEMMA RefusedStep ==
  ASSUME TypeInv, RefusedInv, DiagnoseNext
  PROVE  RefusedInv'
<1> DEFINE Goal == said' = <<>> /\ stdout' \in Seq(Plain) /\ stderr' \in Seq(Plain)
<1>1. setup' = setup
  BY InputsStay
<1>2. Promised' <=> Promised
  BY <1>1 DEF Promised
<1> SUFFICES ASSUME Promised, Format(setup) = "refused" PROVE Goal
  BY <1>1, <1>2 DEF RefusedInv
<1>3. InputsOK /\ said = <<>> /\ stdout \in Seq(Plain) /\ stderr \in Seq(Plain)
  BY DEF TypeInv, RefusedInv
<1>4. setup.tool = "plain make"
  BY <1>3, PromiseIs
<1>5. CASE Report
  BY <1>3, <1>5 DEF Report
<1>6. CASE Talks
  <2>1. Chat \subseteq Plain
    BY DEF Chat, Plain
  <2>2. said' = said /\ Chats(stdout, stdout') /\ Chats(stderr, stderr')
    BY <1>6 DEF Talks
  <2>3. PICK a \in Seq(Chat) : stdout' = stdout \o a
    BY <2>2 DEF Chats
  <2>4. PICK b \in Seq(Chat) : stderr' = stderr \o b
    BY <2>2 DEF Chats
  <2>5. a \in Seq(Plain) /\ b \in Seq(Plain)
    BY <2>1
  <2>6. QED
    BY <1>3, <2>2, <2>3, <2>4, <2>5, Joined
<1>7. CASE Reconfigure
  <2>1. reconfig # None /\ said' = said /\ stdout' = stdout /\ stderr' = stderr \o Messages
    BY <1>4, <1>7, ReconfigureIs
  <2>2. Messages \in Seq(Plain)
    BY <1>3, <2>1, MessagesAre
  <2>3. QED
    BY <1>3, <2>1, <2>2, Joined
<1>8. ASSUME NEW u \in Units, Write(u) PROVE Goal
  <2> DEFINE k == lines[u] + 1
             l == Output(u)[k]
  <2>1. lines[u] < Len(Output(u)) /\ lines' = [lines EXCEPT ![u] = @ + 1]
    BY <1>8 DEF Write
  <2>2. lines'[u] = k /\ k \in DOMAIN Output(u)
    <3>1. lines[u] \in Nat /\ lines'[u] = k
      BY <2>1 DEF TypeInv
    <3>2. Output(u) \in Seq(LineSet)
      BY <1>3, OutputType
    <3>3. QED
      BY <2>1, <3>1, <3>2
  <2>3. l = Line(One("words"))
    BY <1>3, <2>2, RefusedOutput
  <2>4. l \in Plain
    <3>1. One("words") \in Seq(Words) /\ One("words") # <<>> /\ Head(One("words")) = "words"
      BY OneType DEF Words
    <3>2. One("words") \in Seq(Tokens)
      BY <3>1, WordsType
    <3>3. l \in LineSet /\ l.text = One("words") /\ l.states = None
      BY <2>3, <3>2, LineIs
    <3>4. ~ Starts(l, {"{", "["})
      BY <3>1, <3>3 DEF Starts
    <3>5. QED
      BY <3>1, <3>3, <3>4 DEF Plain
  <2>5. Completes(u, k) = <<>>
    BY DEF Completes
  <2>6. /\ said' = said \o Completes(u, k)
        /\ \/ stdout' = Append(stdout, l) /\ stderr' = stderr
           \/ stdout' = stdout /\ stderr' = Append(stderr, l)
    BY <1>8, <2>2 DEF Write
  <2> HIDE DEF l
  <2>7. said' = <<>>
    BY <1>3, <2>5, <2>6
  <2>8. Append(stdout, l) \in Seq(Plain) /\ Append(stderr, l) \in Seq(Plain)
    BY <1>3, <2>4
  <2>9. QED
    BY <1>3, <2>6, <2>7, <2>8
<1>9. ASSUME NEW u \in Units, NEW k \in 0 .. Len(Output(u)), NinjaPrints(u, k) PROVE FALSE
  BY <1>4, <1>9 DEF NinjaPrints
<1>10. QED
  BY <1>5, <1>6, <1>7, <1>8, <1>9, StepCases

LEMMA SaidStep ==
  ASSUME TypeInv, SaidInv, [DiagnoseNext]_diagnoseVars
  PROVE  SaidInv'
<1>1. CASE DiagnoseNext
  BY <1>1, SerialStep, DocsStep, LinesStep, RefusedStep DEF SaidInv
<1>2. CASE UNCHANGED diagnoseVars
  <2>1. setup' = setup /\ work' = work /\ reconfig' = reconfig
        /\ UNCHANGED <<unit, lines, stdout, stderr, said>>
    BY <1>2 DEF diagnoseVars, inputs
  <2>2. /\ Promised' <=> Promised
        /\ QuietBuild' <=> QuietBuild
        /\ Structured' <=> Structured
        /\ Main' = Main /\ Side' = Side
    BY <2>1 DEF Promised, QuietBuild, Structured, Main, Side, InStdout
  <2>3. SerialInv' /\ LinesInv' /\ RefusedInv'
    BY <2>1, <2>2 DEF SaidInv, SerialInv, LinesInv, RefusedInv
  <2>4. DocsInv'
    BY <2>1, <2>2 DEF SaidInv, DocsInv
  <2>5. QED
    BY <2>3, <2>4 DEF SaidInv
<1>3. QED
  BY <1>1, <1>2

\* What is parsed is what was said.
LEMMA SaidIsParsed ==
  ASSUME TypeInv, SaidInv, Promised, QuietBuild
  PROVE  Parsed = said
<1>1. InputsOK
  BY DEF TypeInv
<1>2. Format(setup) \in {"json", "sarif", "text", "refused"}
  BY <1>1, FormatType DEF InputsOK
<1>3. CASE Structured
  <2>1. Docs(Format(setup), work, Main, Side, lines, said)
    BY <1>3 DEF SaidInv, DocsInv
  <2>2. /\ \/ resolveToolchain(setup) = "clang"
           \/ resolveToolchain(setup) = "gcc" /\ Format(setup) = "json"
        /\ Dialect(setup) = IF Format(setup) = "sarif" THEN "sarif" ELSE resolveToolchain(setup)
    BY <1>1, <1>3, PromiseIs DEF Structured
  <2>3. (stdout = Main /\ stderr = Side) \/ (stdout = Side /\ stderr = Main)
    BY DEF Main, Side
  <2>4. work \in Works /\ Documents = {work[u].says : u \in Units}
    BY <1>1, <1>3 DEF InputsOK, Documents, Structured
  <2>5. QED
    BY <1>3, <2>1, <2>2, <2>3, <2>4, DocsParsed DEF Parsed, Structured
<1>4. CASE Format(setup) = "text"
  <2>1. resolveToolchain(setup) \notin {"clang", "gcc"}
    BY <1>1, <1>4, PromiseIs
  <2>2. Parsed = Stated(stderr)
    BY <2>1 DEF Parsed, Parse, RegexParse
  <2>3. QED
    BY <1>4, <2>2 DEF SaidInv, LinesInv
<1>5. CASE Format(setup) = "refused"
  BY <1>5, NothingParsed DEF SaidInv, RefusedInv, Parsed
<1>6. QED
  BY <1>2, <1>3, <1>4, <1>5 DEF Structured

LEMMA NoneIsLostSaid ==
  ASSUME TypeInv, ReportInv, CMakeInv, SaidInv
  PROVE  NoneLost
<1> DEFINE rest == IF exit # "ok" /\ OfSeverity("error", said) = <<>> THEN CMakeSaid ELSE <<>>
           expected == said \o rest
<1> SUFFICES ASSUME Reported, Promised, QuietBuild
             PROVE  errs = OfSeverity("error", expected) /\ warns = OfSeverity("warning", expected)
  BY DEF NoneLost
<1>1. Parsed = said
  BY SaidIsParsed
<1>2. CMakeDiagnostics(stdout \o stderr) = CMakeSaid
  BY AllCMakeDiagnostics
<1>3. Fallback(Parsed) = rest
  BY <1>1, <1>2 DEF Fallback
<1>4. Diags = expected
  BY <1>1, <1>3 DEF Diags
<1>5. QED
  BY <1>4 DEF ReportInv

\* In every promised setup, for any units, compilers and diagnostics, a build
\* reports each diagnostic whose text was complete, in that order and no other,
\* and CMake's where there is no error (main.go:493-523).
THEOREM NoneIsLost == DiagnoseSpec => []NoneLost
<1> DEFINE Inv == TypeInv /\ ReportInv /\ CMakeInv /\ FailInv /\ MuteInv /\ SaidInv
<1>1. DiagnoseInit => Inv
  BY TypeInit, ReportInit, CMakeInit, SaidInit
<1>2. Inv /\ [DiagnoseNext]_diagnoseVars => Inv'
  BY TypeStep, TypeStutter, ReportStep, CMakeStep, FailStep, MuteStep, CMakeStutter, SaidStep
<1>3. Inv => NoneLost
  BY NoneIsLostSaid
<1>4. QED
  BY <1>1, <1>2, <1>3, PTL DEF DiagnoseSpec

-----------------------------------------------------------------------------
(* What is reported was said.                                              *)

\* No line begins a document in another format than the one of the build.
FitInv ==
  Structured => stdout \in Seq(Fitting(Format(setup))) /\ stderr \in Seq(Fitting(Format(setup)))

LEMMA PlainFits ==
  ASSUME NEW f
  PROVE  Plain \subseteq Fitting(f) /\ Chat \subseteq Fitting(f)
BY DEF Plain, Chat, Fitting

LEMMA OutputFits ==
  ASSUME InputsOK, Structured, NEW u \in Units, NEW k \in DOMAIN Output(u)
  PROVE  Output(u)[k] \in Fitting(Format(setup))
<1> DEFINE f == Format(setup)
           b == Body(f, work[u].says)
           c == Close(f)
<1>1. DOMAIN Output(u) = {1, 2} /\ Output(u)[1] = Line(b) /\ Output(u)[2] = Line(One(c))
  BY DocumentOutput DEF Structured
<1>2. work[u].says \in Seq(Diagnostics)
  BY WorkIs DEF InputsOK
<1>3. b \in Seq(Tokens) /\ b # <<>> /\ Head(b) = Open(f)
  BY <1>2, BodyType, MarksType
<1>4. One(c) \in Seq(Tokens) /\ Head(One(c)) = c /\ c \notin {"{", "["}
  <2>1. c \in Tokens
    BY OpenClose, MarkWords
  <2>2. c \notin {"{", "["}
    BY DEF Close
  <2> HIDE DEF c
  <2>3. QED
    BY <2>1, <2>2, OneType
<1>5. Line(b) \in LineSet /\ Line(b).text = b
  BY <1>3, LineIs
<1>6. Line(One(c)) \in LineSet /\ Line(One(c)).text = One(c)
  BY <1>4, LineIs
<1> HIDE DEF f, b, c
<1>7. Line(b) \in Fitting(f)
  BY <1>3, <1>5 DEF Fitting, Starts
<1>8. Line(One(c)) \in Fitting(f)
  BY <1>4, <1>6 DEF Fitting, Starts
<1>9. QED
  BY <1>1, <1>7, <1>8 DEF f

LEMMA FitInit ==
  ASSUME DiagnoseInit
  PROVE  FitInv
<1>1. \A f : <<>> \in Seq(Fitting(f))
  OBVIOUS
<1>2. QED
  BY <1>1 DEF DiagnoseInit, FitInv

LEMMA FitStep ==
  ASSUME TypeInv, FitInv, DiagnoseNext
  PROVE  FitInv'
<1> DEFINE F == Fitting(Format(setup))
<1>1. (Structured' <=> Structured) /\ Fitting(Format(setup))' = F
  BY InputsStay DEF Structured
<1> SUFFICES ASSUME Structured PROVE stdout' \in Seq(F) /\ stderr' \in Seq(F)
  BY <1>1 DEF FitInv
<1>2. stdout \in Seq(F) /\ stderr \in Seq(F)
  BY DEF FitInv
<1>3. Plain \subseteq F /\ Chat \subseteq F
  BY PlainFits
<1>4. ASSUME NEW u \in Units, NEW k \in DOMAIN Output(u) PROVE Output(u)[k] \in F
  BY OutputFits DEF TypeInv
<1> HIDE DEF F
<1>5. CASE Report
  BY <1>2, <1>5 DEF Report
<1>6. CASE Talks
  BY <1>2, <1>3, <1>6 DEF Talks, Chats
<1>7. CASE Reconfigure
  <2>1. reconfig # None
    BY <1>7, ReconfigureIs
  <2>2. Messages \in Seq(F)
    BY <1>3, <2>1, MessagesAre DEF TypeInv
  <2>3. One(Status) \in Seq(F)
    BY <1>3, ToolLines, OneType DEF Status
  <2>4. /\ stdout \o One(Status) \o Messages \in Seq(F)
        /\ stdout \o One(Status) \in Seq(F) /\ stderr \o Messages \in Seq(F)
    BY <1>2, <2>2, <2>3, Grow
  <2>5. QED
    BY <1>2, <1>7, <2>4, ReconfigureIs
<1>8. ASSUME NEW u \in Units, Prints(u) PROVE stdout' \in Seq(F) /\ stderr' \in Seq(F)
  <2>1. PICK k \in lines[u] .. Len(Output(u)), a \in Seq(Chat), x \in Seq(LineSet) :
          /\ Slice(x, u, lines[u], k)
          /\ \/ stdout' = stdout \o a \o x /\ stderr' = stderr
             \/ stdout' = stdout /\ stderr' = stderr \o a \o x
    BY <1>8 DEF Prints
  <2>2. \A j \in DOMAIN x : x[j] \in F
    BY <1>4, <2>1 DEF Slice
  <2>3. a \in Seq(F) /\ x \in Seq(F)
    BY <1>3, <2>2
  <2>4. stdout \o a \o x \in Seq(F) /\ stderr \o a \o x \in Seq(F)
    BY <1>2, <2>3, Grow
  <2>5. QED
    BY <1>2, <2>1, <2>4
<1>9. QED
  BY <1>5, <1>6, <1>7, <1>8, StepShape

LEMMA FitStutter ==
  ASSUME FitInv, UNCHANGED diagnoseVars
  PROVE  FitInv'
BY DEF FitInv, Structured, diagnoseVars, inputs

\* ClangParser takes no document for one in another format.
LEMMA InputStart ==
  ASSUME NEW f \in {"json", "sarif"}, NEW s \in Seq(Fitting(f)), NEW t \in Seq(Fitting(f))
  PROVE  LET input == StructuredInput(s, t)
         IN  input = <<>> \/ (isSARIF(input) <=> f = "sarif")
BY FittingStart DEF StructuredInput

\* What the elements of Parsed are.
Yield ==
  IF Understood THEN Diagnostics ELSE IF Dialect(setup) = "sarif" THEN {Blank} ELSE Misreadings

LEMMA ParsedYields ==
  ASSUME TypeInv, FitInv, Parsed # ParseFailure
  PROVE  Parsed \in Seq(Yield)
<1> DEFINE tc == resolveToolchain(setup)
           d  == Dialect(setup)
           input == StructuredInput(stdout, stderr)
           Of(target, open, close) == ParseChunks(Split(input, open, close), target, d, Documents)
<1>1. stdout \in Seq(LineSet) /\ stderr \in Seq(LineSet) /\ Documents \subseteq Seq(Diagnostics)
  BY DocumentsType DEF TypeInv
<1>2. input \in Seq(LineSet)
  BY <1>1, StructuredType
<1> HIDE DEF input
<1>3. ASSUME NEW target, NEW open, NEW close, NEW S, S = Results(target, d) \/ Documents = {}
      PROVE  Of(target, open, close) \in Seq(S) \cup {ParseFailure}
  BY <1>1, <1>2, <1>3, SplitType, ParseChunksType
<1>4. /\ tc = "gcc" => Parsed = Of("gcc", "[", "]")
      /\ tc = "clang" => Parsed = IF isSARIF(input) THEN Of("sarif", "{", "}") ELSE Of("clang", "[", "]")
      /\ tc \notin {"clang", "gcc"} => Parsed = Stated(stderr)
  BY DEF Parsed, Parse, GCCParse, ClangParse, RegexParse, input
<1>5. input = <<>> => \A target, open, close : Of(target, open, close) = <<>>
  BY EmptyInput
<1> HIDE DEF Of
<1>6. CASE tc \notin {"clang", "gcc"}
  <2>1. Stated(stderr) \in Seq(Diagnostics)
    BY <1>1, StatedIs
  <2>2. QED
    BY <1>4, <1>6, <2>1 DEF Yield, Understood
<1>7. CASE tc \in {"clang", "gcc"} /\ ~ Structured
  <2>1. Documents = {} /\ Yield = Diagnostics
    BY <1>7 DEF Documents, Structured, Yield, Understood
  <2>2. /\ Of("gcc", "[", "]") \in Seq(Diagnostics) \cup {ParseFailure}
        /\ Of("clang", "[", "]") \in Seq(Diagnostics) \cup {ParseFailure}
        /\ Of("sarif", "{", "}") \in Seq(Diagnostics) \cup {ParseFailure}
    BY <1>3, <2>1
  <2>3. QED
    BY <1>4, <1>7, <2>1, <2>2
<1>8. CASE tc = "gcc" /\ Structured
  <2>1. Results("gcc", d) = Yield
    BY <1>8 DEF Yield, Understood, Results, Structured
  <2>2. QED
    BY <1>3, <1>4, <1>8, <2>1
<1>9. CASE tc = "clang" /\ Structured
  <2>1. Format(setup) \in {"json", "sarif"} /\ stdout \in Seq(Fitting(Format(setup))) /\ stderr \in Seq(Fitting(Format(setup)))
    BY <1>9 DEF FitInv, Structured
  <2>2. input = <<>> \/ (isSARIF(input) <=> Format(setup) = "sarif")
    BY <2>1, InputStart DEF input
  <2>3. CASE input = <<>>
    <3>1. Parsed = <<>>
      BY <1>4, <1>5, <1>9, <2>3
    <3>2. QED
      BY <3>1
  <2>4. CASE isSARIF(input) /\ Format(setup) = "sarif"
    <3>1. Results("sarif", d) = Yield
      BY <1>9, <2>4 DEF Yield, Understood, Results, Dialect
    <3>2. QED
      BY <1>3, <1>4, <1>9, <2>4, <3>1
  <2>5. CASE ~ isSARIF(input) /\ Format(setup) = "json"
    <3>1. d # "sarif"
      BY <2>5, DiagnoseAssumption DEF Dialect, TypeInv, InputsOK, IsCompiler
    <3>2. Results("clang", d) = Yield
      BY <1>9, <2>1, <3>1 DEF Yield, Understood, Results
    <3>3. QED
      BY <1>3, <1>4, <1>9, <2>5, <3>2
  <2>6. QED
    BY <2>1, <2>2, <2>3, <2>4, <2>5
<1>10. QED
  BY <1>6, <1>7, <1>8, <1>9

\* Of each diagnostic there is one that may be made of it, and someone said it.
LEMMA DiagsOnce ==
  ASSUME TypeInv, CMakeInv, OnceInv, Diags # ParseFailure, NEW d \in Diagnostics
  PROVE  OnceIn(Same(d), Diags) /\ (Meets(Same(d), Diags) => d \in Sources)
<1> DEFINE p == Parsed
           q == Fallback(Parsed)
<1>1. p # ParseFailure /\ p \in Seq(Readings) /\ Diags = p \o q
  <2>1. Parsed # ParseFailure
    BY OfSeverityFailure DEF Fallback, Diags
  <2>2. QED
    BY <2>1, DiagsType DEF Diags
<1>2. q \in Seq(Diagnostics) /\ q \in Seq(Readings)
  BY FallbackType, ResultsType
<1>3. Documents \subseteq Seq(Diagnostics) /\ \A ds \in Documents : IsInjective(ds)
  BY DocumentsType, WorkIs DEF TypeInv, InputsOK, Documents
<1>4. OnceIn(Same(d), p) /\ (Meets(Same(d), p) => Meets(Carries(d), stdout) \/ Meets(Carries(d), stderr))
  BY <1>1, <1>3, ParseOnce DEF OnceInv, Parsed
<1>5. Meets(Same(d), p) => \E u \in Units : unit[u] # "waiting" /\ d \in ToSet(work[u].says)
  <2> SUFFICES ASSUME Meets(Same(d), p)
               PROVE  \E u \in Units : unit[u] # "waiting" /\ d \in ToSet(work[u].says)
    OBVIOUS
  <2>1. PICK u \in Units : Shown(u, lines[u], d)
    BY <1>4 DEF OnceInv
  <2>2. lines[u] \in 0 .. Len(Output(u))
    BY DEF TypeInv, Far
  <2>3. lines[u] > 0 /\ d \in ToSet(work[u].says)
    BY <2>1, <2>2, ShownBy
  <2>4. unit[u] # "waiting"
    BY <2>3 DEF TypeInv, Far
  <2>5. QED
    BY <2>3, <2>4
<1>6. q = <<>> \/ q = CMakeSaid
  BY AllCMakeDiagnostics DEF Fallback
<1>7. DOMAIN <<>> = {}
  OBVIOUS
<1>8. OnceIn({d}, q) /\ (Meets({d}, q) => d \in ToSet(CMakeSaid) /\ reconfig # None /\ d \in ToSet(reconfig.says))
  <2>1. CASE q = <<>>
    BY <1>7, <2>1 DEF OnceIn, Meets
  <2>2. CASE q = CMakeSaid /\ CMakeSaid = <<>>
    BY <1>7, <2>2 DEF OnceIn, Meets
  <2>3. CASE q = CMakeSaid /\ CMakeSaid # <<>>
    <3>1. reconfig # None /\ CMakeSaid = reconfig.says
      BY <2>3 DEF CMakeSaid
    <3>2. IsInjective(reconfig.says)
      BY <3>1, ReconfigIs DEF TypeInv, InputsOK
    <3>3. QED
      BY <2>3, <3>1, <3>2 DEF OnceIn, Meets, IsInjective, ToSet
  <2>4. QED
    BY <1>6, <2>1, <2>2, <2>3
<1> HIDE DEF p, q
<1>9. OnceIn(Same(d), q) /\ (Meets(Same(d), q) => Meets({d}, q))
  BY <1>2, <1>8, SameOnly
<1>10. ~ (Meets(Same(d), p) /\ Meets(Same(d), q))
  <2> SUFFICES ASSUME Meets(Same(d), p), Meets(Same(d), q)
               PROVE  FALSE
    OBVIOUS
  <2>1. PICK u \in Units : d \in ToSet(work[u].says)
    BY <1>5
  <2>2. reconfig \in Reconfigs \ {None} /\ d \in ToSet(reconfig.says)
    BY <1>8, <1>9 DEF TypeInv, InputsOK
  <2>3. ToSet(reconfig.says) \cap ToSet(work[u].says) = {}
    BY <2>2, SaidAssumption DEF TypeInv, InputsOK
  <2>4. QED
    BY <2>1, <2>2, <2>3
<1>11. OnceIn(Same(d), p \o q)
  BY <1>1, <1>2, <1>4, <1>9, <1>10, OnceConcat
<1>12. Meets(Same(d), p \o q) <=> Meets(Same(d), p) \/ Meets(Same(d), q)
  BY <1>1, <1>2, MeetsConcat
<1>13. Meets(Same(d), p \o q) => d \in Sources
  BY <1>5, <1>8, <1>9, <1>12 DEF Sources
<1>14. QED
  BY <1>1, <1>11, <1>13

LEMMA DiagsAccounted ==
  ASSUME TypeInv, CMakeInv, OnceInv, FitInv, Diags # ParseFailure, NEW k \in DOMAIN Diags
  PROVE  Diags[k] \in Accounted
<1> DEFINE r == Diags[k]
<1>1. Parsed # ParseFailure /\ Diags \in Seq(Readings) /\ Diags = Parsed \o Fallback(Parsed)
  <2>1. Parsed # ParseFailure
    BY OfSeverityFailure DEF Fallback, Diags
  <2>2. QED
    BY <2>1, DiagsType DEF Diags
<1>2. Parsed \in Seq(Yield) /\ Fallback(Parsed) \in Seq(Diagnostics)
  BY <1>1, ParsedYields, FallbackType
<1>3. r \in Yield \/ r \in Diagnostics
  BY <1>1, <1>2
<1>4. ASSUME NEW d \in Diagnostics, r.id = d.id PROVE d \in Sources
  <2>1. Meets(Same(d), Diags)
    BY <1>1, <1>4 DEF Meets, Same
  <2>2. QED
    BY <2>1, DiagsOnce
<1> HIDE DEF r
<1>5. CASE r \in Diagnostics
  <2>1. r \in Sources
    BY <1>4, <1>5
  <2>2. QED
    BY <2>1 DEF Accounted, r
<1>6. CASE r \notin Diagnostics
  <2>1. /\ ~ Understood
        /\ \/ Dialect(setup) = "sarif" /\ r = Blank
           \/ Dialect(setup) # "sarif" /\ r \in Misreadings
    BY <1>3, <1>6 DEF Yield
  <2>2. CASE Dialect(setup) = "sarif" /\ r = Blank
    BY <2>1, <2>2 DEF Accounted, r
  <2>3. CASE Dialect(setup) # "sarif" /\ r \in Misreadings
    <3>1. PICK d \in Diagnostics : r = Misread(d)
      BY <2>3 DEF Misreadings
    <3>2. d \in Sources
      BY <1>4, <3>1 DEF Misread
    <3>3. QED
      BY <2>1, <2>3, <3>1, <3>2 DEF Accounted, r
  <2>4. QED
    BY <2>1, <2>2, <2>3
<1>7. QED
  BY <1>5, <1>6

LEMMA NothingIsInventedOnce ==
  ASSUME TypeInv, ReportInv, CMakeInv, OnceInv, FitInv
  PROVE  NothingInvented
<1> DEFINE all == errs \o warns
           E == Severe("error")
           W == Severe("warning")
<1> SUFFICES ASSUME Reported, errs # ParseFailure
             PROVE  /\ ToSet(all) \subseteq Accounted
                    /\ \A j, k \in DOMAIN all : all[j].id = all[k].id /\ all[j] # Blank => j = k
  BY DEF NothingInvented
<1>1. errs = OfSeverity("error", Diags) /\ warns = OfSeverity("warning", Diags)
  BY DEF ReportInv
<1>2. Diags # ParseFailure
  BY <1>1, OfSeverityFailure
<1>3. Diags \in Seq(Readings)
  BY <1>2, DiagsType
<1>4. \A d \in Diagnostics : OnceIn(Same(d), Diags)
  BY <1>2, DiagsOnce
<1>5. errs = Only(E, Diags) /\ warns = Only(W, Diags) /\ errs \in Seq(Readings) /\ warns \in Seq(Readings)
  BY <1>1, <1>3, OfSeverityOf
<1>6. E \cap W = {}
  BY DEF Severe
<1>7. \A k \in DOMAIN Diags : Diags[k] \in Accounted
  BY <1>2, DiagsAccounted
<1> HIDE DEF E, W
<1>8. \A V : (Meets(V, errs) <=> Meets(V \cap E, Diags)) /\ (Meets(V, warns) <=> Meets(V \cap W, Diags))
  BY <1>3, <1>5, OnlyMeets
<1>9. ASSUME NEW d \in Diagnostics PROVE OnceIn(Same(d), all)
  <2> DEFINE V == Same(d)
  <2>1. OnceIn(V, Diags)
    BY <1>4
  <2>2. OnceIn(V, errs) /\ OnceIn(V, warns)
    BY <1>3, <1>5, <2>1, OnlyOnce
  <2> HIDE DEF V
  <2>3. ~ (Meets(V, errs) /\ Meets(V, warns))
    <3> SUFFICES ASSUME Meets(V \cap E, Diags), Meets(V \cap W, Diags) PROVE FALSE
      BY <1>8
    <3>1. PICK j \in DOMAIN Diags : Diags[j] \in V \cap E
      BY DEF Meets
    <3>2. PICK k \in DOMAIN Diags : Diags[k] \in V \cap W
      BY DEF Meets
    <3>3. j = k
      BY <2>1, <3>1, <3>2 DEF OnceIn
    <3>4. QED
      BY <1>6, <3>1, <3>2, <3>3
  <2>4. QED
    BY <1>5, <2>2, <2>3, OnceConcat DEF V
<1>10. \A V : Meets(V, all) => Meets(V, Diags)
  <2> SUFFICES ASSUME NEW V, Meets(V, all) PROVE Meets(V, Diags)
    OBVIOUS
  <2>1. Meets(V, errs) \/ Meets(V, warns)
    BY <1>5, MeetsConcat
  <2>2. Meets(V \cap E, Diags) \/ Meets(V \cap W, Diags)
    BY <1>8, <2>1
  <2>3. QED
    BY <2>2 DEF Meets
<1>11. all \in Seq(Readings)
  BY <1>5
<1> HIDE DEF all
<1>12. \A k \in DOMAIN all : all[k] \in Readings
  BY <1>11
<1>13. ASSUME NEW k \in DOMAIN all PROVE all[k] \in Accounted
  <2>1. Meets({all[k]}, all)
    BY DEF Meets
  <2>2. Meets({all[k]}, Diags)
    BY <1>10, <2>1
  <2>3. QED
    BY <1>7, <2>2 DEF Meets
<1>14. ASSUME NEW j \in DOMAIN all, NEW k \in DOMAIN all, all[j].id = all[k].id, all[j] # Blank
       PROVE  j = k
  <2>1. \E d \in Diagnostics : all[j].id = d.id
    <3>1. all[j] \in Diagnostics \/ \E d \in Diagnostics : all[j] = Misread(d)
      BY <1>12, <1>14 DEF Readings
    <3>2. QED
      BY <3>1 DEF Misread
  <2>2. PICK d \in Diagnostics : all[j].id = d.id
    BY <2>1
  <2>3. all[j] \in Same(d) /\ all[k] \in Same(d)
    BY <1>12, <1>14, <2>2 DEF Same
  <2>4. QED
    BY <1>9, <2>3 DEF OnceIn
<1>15. QED
  BY <1>13, <1>14 DEF ToSet, all

\* In any setup, however documents are mixed up, cut short and surrounded by the
\* lines of the build tools: nothing is made up or given twice.  Where the parser
\* is one for the documents that the compilers print, what is reported is what
\* CMake or the compiler of a unit that was started said, of that severity and at
\* that place; where it is not, each is the message of one of these, as an error
\* with no place (gcc.go:154, clang.go:244), or a blank error for a run of SARIF.
THEOREM NothingIsInvented == DiagnoseSpec => []NothingInvented
<1> DEFINE Inv == TypeInv /\ ReportInv /\ CMakeInv /\ FailInv /\ MuteInv /\ OnceInv /\ FitInv
<1>1. DiagnoseInit => Inv
  BY TypeInit, ReportInit, CMakeInit, OnceInit, FitInit
<1>2. Inv /\ [DiagnoseNext]_diagnoseVars => Inv'
  <2>1. Inv /\ DiagnoseNext => Inv'
    BY TypeStep, ReportStep, CMakeStep, FailStep, MuteStep, OnceStep, FitStep
  <2>2. Inv /\ UNCHANGED diagnoseVars => Inv'
    BY TypeStutter, ReportStep, CMakeStutter, OnceStutter, FitStutter
  <2>3. QED
    BY <2>1, <2>2
<1>3. Inv => NothingInvented
  BY NothingIsInventedOnce
<1>4. QED
  BY <1>1, <1>2, <1>3, PTL DEF DiagnoseSpec

-----------------------------------------------------------------------------
(* A unit that failed has said why.                                        *)

\* A unit fails for its errors; what its lines complete has been said.
CauseInv ==
  /\ \A u \in Units : unit[u] = "failed" => Fails(u)
  /\ \A u \in Units : \A j \in 1 .. lines[u] : \A d \in Diagnostics :
       Meets({d}, Completes(u, j)) => Meets({d}, said)

LEMMA CauseInit ==
  ASSUME DiagnoseInit
  PROVE  CauseInv
<1>1. unit = [u \in Units |-> "waiting"] /\ lines = [u \in Units |-> 0]
  BY DEF DiagnoseInit
<1>2. QED
  BY <1>1 DEF CauseInv

LEMMA FailsStep ==
  ASSUME TypeInv, CauseInv, DiagnoseNext, NEW u \in Units, unit'[u] = "failed"
  PROVE  Fails(u)'
<1>1. setup' = setup /\ work' = work
  BY InputsStay
<1>2. Fails(u)' <=> Fails(u)
  BY <1>1 DEF Fails
<1>3. ASSUME NEW v \in Units, MakeEnds(v) \/ NinjaEnds(v) PROVE Fails(u)
  <2>1. unit' = [unit EXCEPT ![v] = Ended(v)]
    BY <1>3 DEF MakeEnds, NinjaEnds
  <2>2. CASE u # v
    BY <2>1, <2>2 DEF TypeInv, CauseInv
  <2>3. CASE u = v
    BY <2>1, <2>3 DEF TypeInv, Ended
  <2>4. QED
    BY <2>2, <2>3
<1>4. ASSUME NEW v \in Units, Start(v) PROVE Fails(u)
  <2>1. unit' = [unit EXCEPT ![v] = "running"]
    BY <1>4 DEF Start
  <2>2. unit[u] = "failed"
    BY <2>1 DEF TypeInv
  <2>3. QED
    BY <2>2 DEF CauseInv
<1>5. ASSUME unit' = unit PROVE Fails(u)
  BY <1>5 DEF CauseInv
<1>6. ASSUME Report \/ Reconfigure \/ Exit \/ Kill \/ \E v \in Units : Write(v)
      PROVE  Fails(u)
  BY <1>5, <1>6 DEF Report, Reconfigure, Exit, Kill, Write
<1>7. QED
  BY <1>2, <1>3, <1>4, <1>6 DEF DiagnoseNext

LEMMA CompletedHas ==
  ASSUME InputsOK, NEW u \in Units, NEW k \in 0 .. Len(Output(u)), NEW j \in 1 .. k, NEW d,
         Meets({d}, Completes(u, j))
  PROVE  Meets({d}, CompletedBy(u, k))
<1> DEFINE c == [i \in 1 .. k |-> Completes(u, i)]
<1>1. \A i \in 1 .. k : i \in DOMAIN Output(u)
  BY OutputType
<1>2. \A i \in 1 .. k : Completes(u, i) \in Seq(Diagnostics)
  BY <1>1, CompletesType
<1>3. k \in Nat
  BY OutputType
<1>4. c \in Seq(Seq(Diagnostics)) /\ DOMAIN c = 1 .. k /\ c[j] = Completes(u, j)
  BY <1>2, <1>3
<1> HIDE DEF c
<1>5. Meets({d}, FlattenSeq(c))
  BY <1>4, FlattenMeets
<1>6. QED
  BY <1>5 DEF CompletedBy, c

LEMMA CauseStep ==
  ASSUME TypeInv, CauseInv, DiagnoseNext
  PROVE  CauseInv'
<1> DEFINE Told(sd, ln) ==
             \A u \in Units : \A j \in 1 .. ln[u] : \A d \in Diagnostics :
               Meets({d}, Completes(u, j)) => Meets({d}, sd)
<1>1. setup' = setup /\ work' = work
  BY InputsStay
<1>2. \A u \in Units : unit'[u] = "failed" => Fails(u)'
  BY FailsStep
<1>3. Told(said', lines') => CauseInv'
  BY <1>1, <1>2 DEF CauseInv, Completes
<1>4. Told(said, lines) /\ InputsOK /\ lines \in [Units -> Nat] /\ said \in Seq(Diagnostics)
  BY DEF CauseInv, TypeInv
<1>5. CASE Report \/ Talks
  <2>1. said' = said /\ lines' = lines
    BY <1>5 DEF Report, Talks
  <2>2. QED
    BY <1>3, <1>4, <2>1
<1>6. CASE Reconfigure
  <2>1. said' = said /\ lines' = lines
    BY <1>6, ReconfigureIs
  <2>2. QED
    BY <1>3, <1>4, <2>1
<1>7. ASSUME NEW c \in Seq(Diagnostics), said' = said \o c, NEW u \in Units, NEW k \in Nat,
             lines' = [lines EXCEPT ![u] = k],
             \A j \in 1 .. k : j \in 1 .. lines[u] \/ \A d \in Diagnostics : Meets({d}, Completes(u, j)) => Meets({d}, c)
      PROVE  Told(said', lines')
  <2> SUFFICES ASSUME NEW v \in Units, NEW j \in 1 .. lines'[v], NEW d \in Diagnostics, Meets({d}, Completes(v, j))
               PROVE  Meets({d}, said')
    OBVIOUS
  <2>1. Meets({d}, said') <=> Meets({d}, said) \/ Meets({d}, c)
    BY <1>4, <1>7, MeetsConcat
  <2>2. CASE v = u
    <3>1. j \in 1 .. k
      BY <1>4, <1>7, <2>2
    <3>2. j \in 1 .. lines[u] => Meets({d}, said)
      BY <1>4, <2>2
    <3>3. QED
      BY <1>7, <2>1, <2>2, <3>1, <3>2
  <2>3. CASE v # u
    <3>1. j \in 1 .. lines[v]
      BY <1>4, <1>7, <2>3
    <3>2. QED
      BY <1>4, <2>1, <3>1
  <2>4. QED
    BY <2>2, <2>3
<1> HIDE DEF Told
<1>8. ASSUME NEW u \in Units, Write(u) PROVE Told(said', lines')
  <2> DEFINE k == lines[u] + 1
             c == Completes(u, k)
  <2>1. lines[u] < Len(Output(u)) /\ lines' = [lines EXCEPT ![u] = @ + 1]
    BY <1>8 DEF Write
  <2>2. k \in Nat /\ lines' = [lines EXCEPT ![u] = k] /\ lines'[u] = k
    BY <1>4, <2>1
  <2>3. k \in DOMAIN Output(u)
    <3>1. Output(u) \in Seq(LineSet)
      BY <1>4, OutputType
    <3>2. QED
      BY <1>4, <2>1, <3>1
  <2>4. c \in Seq(Diagnostics)
    BY <1>4, <2>3, CompletesType
  <2>5. said' = said \o c
    BY <1>8, <2>2 DEF Write
  <2>6. \A j \in 1 .. k : j \in 1 .. lines[u] \/ j = k
    BY <1>4
  <2> HIDE DEF k
  <2>7. \A j \in 1 .. k : j \in 1 .. lines[u] \/ \A d \in Diagnostics : Meets({d}, Completes(u, j)) => Meets({d}, c)
    BY <2>6
  <2> HIDE DEF c
  <2>8. QED
    BY <1>7, <2>2, <2>4, <2>5, <2>7
<1>9. ASSUME NEW u \in Units, NEW k \in 0 .. Len(Output(u)), NinjaPrints(u, k) PROVE Told(said', lines')
  <2> DEFINE c == CompletedBy(u, k)
  <2>1. lines' = [lines EXCEPT ![u] = k] /\ said' = said \o c
    BY <1>9 DEF NinjaPrints
  <2>2. c \in Seq(Diagnostics) /\ k \in Nat
    BY <1>4, CompletedByType, OutputType
  <2>3. \A j \in 1 .. k : \A d \in Diagnostics : Meets({d}, Completes(u, j)) => Meets({d}, c)
    BY <1>4, CompletedHas
  <2> HIDE DEF c
  <2>4. QED
    BY <1>7, <2>1, <2>2, <2>3
<1>10. QED
  BY <1>3, <1>5, <1>6, <1>8, <1>9, StepCases

LEMMA CauseStutter ==
  ASSUME CauseInv, UNCHANGED diagnoseVars
  PROVE  CauseInv'
BY DEF CauseInv, Fails, Completes, diagnoseVars, inputs

LEMMA HasError ==
  ASSUME NEW ds \in Seq(Diagnostics), NEW d \in Diagnostics, d.severity = "error", Meets({d}, ds)
  PROVE  OfSeverity("error", ds) # <<>>
<1>1. PICK k \in DOMAIN ds : ds[k] = d
  BY DEF Meets
<1>2. k \in {j \in DOMAIN ds : ds[j].severity = "error"}
  BY <1>1
<1>3. \E p \in DOMAIN OfSeverity("error", ds) : OfSeverity("error", ds)[p] = ds[k]
  BY <1>2, KeptHas DEF OfSeverity
<1>4. QED
  BY <1>3

\* The errors of a unit that failed have been said.
LEMMA FailureSaid ==
  ASSUME TypeInv, CauseInv, NEW u \in Units, unit[u] = "failed", Format(setup) # "refused"
  PROVE  OfSeverity("error", said) # <<>>
<1>1. InputsOK /\ said \in Seq(Diagnostics) /\ lines[u] = Len(Output(u))
  BY DEF TypeInv, Far
<1>2. Fails(u)
  BY DEF CauseInv
<1>3. PICK k \in DOMAIN work[u].says : work[u].says[k].severity = "error"
  BY <1>2 DEF Fails
<1> DEFINE d == work[u].says[k]
<1>4. d \in Diagnostics /\ d.severity = "error"
  <2>1. work[u].says \in Seq(Diagnostics)
    BY <1>1, WorkIs DEF InputsOK
  <2>2. QED
    BY <1>3, <2>1
<1>5. \E j \in 1 .. lines[u] : Meets({d}, Completes(u, j))
  <2>1. CASE Structured
    <3>1. Len(Output(u)) = 2 /\ Completes(u, 2) = work[u].says
      BY <1>1, <2>1, DocumentOutput, DocumentCompletes DEF Structured
    <3>2. Meets({d}, work[u].says)
      BY <1>3 DEF Meets
    <3>3. 2 \in 1 .. lines[u]
      BY <1>1, <3>1
    <3>4. QED
      BY <3>1, <3>2, <3>3
  <2>2. CASE Format(setup) = "text"
    <3>1. Completes(u, k) = One(d)
      BY <2>2 DEF Completes, One
    <3>2. Meets({d}, One(d))
      BY DEF Meets, One
    <3>3. k \in 1 .. lines[u]
      <4>1. Len(Output(u)) = Len(work[u].says) /\ work[u].says \in Seq(Diagnostics)
        BY <1>1, <2>2, TextOutput, WorkIs DEF InputsOK
      <4>2. QED
        BY <1>1, <1>3, <4>1
    <3>4. QED
      BY <3>1, <3>2, <3>3
  <2>3. Format(setup) \in {"json", "sarif", "text", "refused"}
    BY <1>1, FormatType DEF InputsOK
  <2>4. QED
    BY <2>1, <2>2, <2>3 DEF Structured
<1> HIDE DEF d
<1>6. Meets({d}, said)
  BY <1>4, <1>5 DEF CauseInv
<1>7. QED
  BY <1>1, <1>4, <1>6, HasError

LEMMA QuietFailureIsExplained ==
  ASSUME TypeInv, ReportInv, CMakeInv, FailInv, SaidInv, CauseInv
  PROVE  QuietFailureExplained
<1> DEFINE rest == IF exit # "ok" /\ OfSeverity("error", said) = <<>> THEN CMakeSaid ELSE <<>>
<1> SUFFICES ASSUME Reported, Promised, QuietBuild, Format(setup) # "refused", exit = "failed"
             PROVE  errs # <<>>
  BY DEF QuietFailureExplained
<1>1. errs = OfSeverity("error", said \o rest)
  BY NoneIsLostSaid DEF NoneLost
<1>2. said \in Seq(Diagnostics) /\ CMakeSaid \in Seq(Diagnostics)
  BY CMakeSaidType DEF TypeInv
<1>3. rest \in Seq(Diagnostics)
  BY <1>2
<1>4. CASE OfSeverity("error", said) # <<>>
  <2> HIDE DEF rest
  <2>1. errs = OfSeverity("error", said) \o OfSeverity("error", rest)
    BY <1>1, <1>2, <1>3, OfSeverityConcat
  <2>2. OfSeverity("error", said) \in Seq(Diagnostics) /\ OfSeverity("error", rest) \in Seq(Diagnostics)
    BY <1>2, <1>3, OfSeverityIs
  <2>3. QED
    BY <1>4, <2>1, <2>2, Joined
<1>5. CASE OfSeverity("error", said) = <<>>
  <2>1. \A u \in Units : unit[u] # "failed"
    BY <1>5, FailureSaid
  <2>2. reconfig # None /\ ~ rerun /\ ~ reconfig.ok
    BY <2>1 DEF FailInv
  <2>3. rest = reconfig.says
    BY <1>5, <2>2 DEF CMakeSaid
  <2>4. reconfig.says \in Seq(Diagnostics) /\ \E d \in ToSet(reconfig.says) : d.severity = "error"
    BY <2>2, ReconfigIs DEF TypeInv, InputsOK
  <2>5. PICK k \in DOMAIN reconfig.says : reconfig.says[k].severity = "error"
    BY <2>4 DEF ToSet
  <2> DEFINE d == reconfig.says[k]
  <2>6. d \in Diagnostics /\ d.severity = "error" /\ Meets({d}, rest)
    BY <2>3, <2>4, <2>5 DEF Meets
  <2> HIDE DEF d, rest
  <2>7. Meets({d}, said \o rest) /\ said \o rest \in Seq(Diagnostics)
    BY <1>2, <1>3, <2>6, MeetsConcat, Joined
  <2>8. QED
    BY <1>1, <2>6, <2>7, HasError
<1>6. QED
  BY <1>4, <1>5

\* In every promised setup a build that fails has an error to report, for any
\* units and diagnostics, where a scan for documents is not led astray by a quote
\* or a bracket outside of them (clang.go:191, sarif.go:96).
THEOREM QuietFailures == DiagnoseSpec => []QuietFailureExplained
<1> DEFINE Inv == TypeInv /\ ReportInv /\ CMakeInv /\ FailInv /\ MuteInv /\ SaidInv /\ CauseInv
<1>1. DiagnoseInit => Inv
  BY TypeInit, ReportInit, CMakeInit, SaidInit, CauseInit
<1>2. Inv /\ [DiagnoseNext]_diagnoseVars => Inv'
  BY TypeStep, TypeStutter, ReportStep, CMakeStep, FailStep, MuteStep, CMakeStutter, SaidStep, CauseStep, CauseStutter
<1>3. Inv => QuietFailureExplained
  BY QuietFailureIsExplained
<1>4. QED
  BY <1>1, <1>2, <1>3, PTL DEF DiagnoseSpec
=============================================================================
