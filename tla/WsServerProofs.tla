---------------------------- MODULE WsServerProofs ----------------------------
(***************************************************************************)
(* Proofs about WsServer, for any connections, requests, segments, length  *)
(* of the queue and limit of fields.                                       *)
(*                                                                         *)
(* What a handshake has read is the request up to k.read, in which nothing *)
(* ended the reading (ReadSoFar): so the answer, when it comes, is that of *)
(* Verdict.                                                                *)
(***************************************************************************)
EXTENDS WsServer, TLAPS, SequenceTheorems, FiniteSetTheorems
-----------------------------------------------------------------------------
Item == Line \cup {"half"}

Text == Seq(Item)

Handshake == [readStarted : BOOLEAN, complete : BOOLEAN,
              fields : SUBSET Fields, key3 : BOOLEAN]

Connection ==
    [state : {"none", "stuck", "encrypting", "handshake", "closing", "open", "ended"},
     object : {"none", "orphan", "tcp", "ws", "deleted"},
     request : Text, arrived : Nat, read : Nat,
     cut : BOOLEAN, damaged : BOOLEAN, answer : {"none", "101", "400"}]

(* A connection whose handshake may be read.                               *)
Readable(k) ==
    /\ k \in Connection
    /\ k.read <= k.arrived /\ k.arrived <= Len(k.request)

FieldsUpto(r, n) == { r[i] : i \in 1 .. n } \cap Fields

(* What the handshake h of k has read of a request without "keys".         *)
ReadSoFar(k, h) ==
    ~Contains(k.request, "keys") =>
        /\ \A i \in 1 .. k.read : k.request[i] \notin {"end", "long"}
        /\ k.read > 0 => k.request[1] = "get"
        /\ h.readStarted <=> k.read > 0
        /\ h.fields = FieldsUpto(k.request, k.read)
        /\ h.complete = FALSE /\ k.damaged = FALSE

(* One call of dataReceived.                                               *)
Lines(k, h) == LinesRead(Whole(k), h.readStarted)

Result(k, h) == Read(k, h, Lines(k, h))

After(k, h) ==
    [k EXCEPT !.read = Result(k, h).read, !.damaged = Result(k, h).damaged,
              !.cut = k.cut /\ ~Result(k, h).cut]
-----------------------------------------------------------------------------
(* The lines that are read.                                                *)

LEMMA LeastProperties ==
    ASSUME NEW S \in SUBSET Nat, NEW otherwise
    PROVE  /\ S = {} => Least(S, otherwise) = otherwise
           /\ S # {} => /\ Least(S, otherwise) \in S
                        /\ \A j \in S : Least(S, otherwise) <= j
  <1>1. ASSUME S # {}
        PROVE  \E i \in S : \A j \in S : i <= j
    <2> DEFINE R == OpToRel(<, Nat)
    <2>1. IsWellFoundedOn(R, Nat)
      BY NatLessThanWellFounded
    <2>2. PICK i \in S : \A j \in S : ~(<<j, i>> \in R)
      <3> HIDE DEF R
      <3> QED
        BY <1>1, <2>1, WFMin
    <2>3. \A j \in S : i <= j
      <3> TAKE j \in S
      <3>1. i \in Nat /\ j \in Nat /\ ~(<<j, i>> \in R)
        BY <2>2
      <3> QED
        BY <3>1, Zenon, SMT DEF OpToRel
    <2> QED
      BY <2>3
  <1> QED
    BY <1>1 DEF Least

LEMMA Slice ==
    ASSUME NEW S, NEW s \in Seq(S), NEW a \in Nat, NEW b \in a .. Len(s)
    PROVE  /\ SubSeq(s, a + 1, b) \in Seq(S)
           /\ Len(SubSeq(s, a + 1, b)) = b - a
           /\ \A i \in 1 .. b - a : SubSeq(s, a + 1, b)[i] = s[a + i]
  <1>1. \A i \in a + 1 .. b : s[i] \in S
    BY ElementOfSeq
  <1>2. \A m, n \in Int :
          (\A i \in m .. n : s[i] \in S) =>
             /\ SubSeq(s, m, n) \in Seq(S)
             /\ Len(SubSeq(s, m, n)) = IF m <= n THEN n - m + 1 ELSE 0
             /\ \A i \in 1 .. n - m + 1 : SubSeq(s, m, n)[i] = s[m + i - 1]
    BY SubSeqProperties
  <1>3. /\ SubSeq(s, a + 1, b) \in Seq(S)
        /\ Len(SubSeq(s, a + 1, b)) = IF a + 1 <= b THEN b - (a + 1) + 1 ELSE 0
        /\ \A i \in 1 .. b - (a + 1) + 1 : SubSeq(s, a + 1, b)[i] = s[a + 1 + i - 1]
    BY <1>1, <1>2
  <1> DEFINE t == SubSeq(s, a + 1, b)
  <1>4. \A i \in 1 .. b - a : t[i] = s[a + i]
    <2> TAKE i \in 1 .. b - a
    <2>1. i \in 1 .. b - (a + 1) + 1 /\ a + 1 + i - 1 = a + i
      OBVIOUS
    <2>2. t[i] = s[a + 1 + i - 1]
      BY <1>3, <2>1
    <2> QED
      BY <2>1, <2>2
  <1> QED
    BY <1>3, <1>4

LEMMA SliceOfSlice ==
    ASSUME NEW S, NEW s \in Seq(S), NEW a \in Nat, NEW b \in a .. Len(s),
           NEW m \in 0 .. b - a
    PROVE  SubSeq(SubSeq(s, a + 1, b), 1, m) = SubSeq(s, a + 1, a + m)
  <1> DEFINE t == SubSeq(s, a + 1, b)
             u == SubSeq(t, 0 + 1, m)
             v == SubSeq(s, a + 1, a + m)
  <1>1. t \in Seq(S) /\ Len(t) = b - a /\ \A i \in 1 .. b - a : t[i] = s[a + i]
    BY Slice
  <1>2. a + m \in a .. Len(s)
    OBVIOUS
  <1>3. v \in Seq(S) /\ Len(v) = a + m - a /\ \A i \in 1 .. a + m - a : v[i] = s[a + i]
    BY <1>2, Slice
  <1> HIDE DEF t
  <1>4. m \in 0 .. Len(t) /\ 0 \in Nat
    BY <1>1
  <1>5. u \in Seq(S) /\ Len(u) = m - 0 /\ \A i \in 1 .. m - 0 : u[i] = t[0 + i]
    BY <1>1, <1>4, Slice
  <1> HIDE DEF u, v
  <1>6. \A i \in 1 .. m : u[i] = v[i]
    <2> TAKE i \in 1 .. m
    <2>1. u[i] = t[0 + i] /\ 0 + i = i /\ t[i] = s[a + i] /\ v[i] = s[a + i]
      BY <1>1, <1>3, <1>5
    <2> QED
      BY <2>1
  <1>7. u = v
    BY <1>3, <1>5, <1>6, SeqEqual
  <1> QED
    BY <1>7 DEF t, u, v

(* Of the lines between a and b, those up to the first that stops.         *)
LEMMA LinesOfSlice ==
    ASSUME NEW r \in Seq(Item), NEW a \in Nat, NEW b \in a .. Len(r), NEW started
    PROVE  \E n \in a .. b :
             /\ LinesRead(SubSeq(r, a + 1, b), started) = SubSeq(r, a + 1, n)
             /\ \A i \in a + 1 .. n - 1 : r[i] \notin {"end", "long"}
  <1> DEFINE lines == SubSeq(r, a + 1, b)
             Stops(i) == \/ lines[i] \in {"end", "long"}
                         \/ i = 1 /\ ~started /\ lines[i] # "get"
             stops == { i \in 1 .. Len(lines) : Stops(i) }
             m == Least(stops, Len(lines))
  <1>1. Len(lines) = b - a /\ \A i \in 1 .. b - a : lines[i] = r[a + i]
    BY Slice
  <1> HIDE DEF lines
  <1>2. m \in 0 .. b - a /\ \A i \in 1 .. m - 1 : lines[i] \notin {"end", "long"}
    <2>1. stops \in SUBSET Nat
      BY <1>1
    <2>2. CASE stops = {}
      <3>1. m = b - a
        BY <1>1, <2>1, <2>2, LeastProperties
      <3>2. \A i \in 1 .. m - 1 : i \in 1 .. Len(lines) /\ i \notin stops
        BY <1>1, <3>1, <2>2
      <3>3. \A i \in 1 .. m - 1 : ~Stops(i)
        BY <3>2
      <3> QED
        BY <3>1, <3>3
    <2>3. CASE stops # {}
      <3>1. m \in stops /\ \A j \in stops : m <= j
        BY <2>1, <2>3, LeastProperties
      <3>2. m \in 1 .. b - a
        BY <1>1, <3>1
      <3> HIDE DEF m
      <3>3. \A i \in 1 .. m - 1 : i \in 1 .. Len(lines) /\ i \notin stops
        BY <1>1, <3>1, <3>2
      <3>4. \A i \in 1 .. m - 1 : ~Stops(i)
        BY <3>3
      <3> QED
        BY <3>2, <3>4
    <2> QED
      BY <2>2, <2>3
  <1>3. LinesRead(lines, started) = SubSeq(lines, 1, m)
    BY DEF LinesRead
  <1> HIDE DEF m
  <1>4. SubSeq(lines, 1, m) = SubSeq(r, a + 1, a + m)
    BY <1>2, SliceOfSlice DEF lines
  <1>5. \A i \in a + 1 .. a + m - 1 : r[i] \notin {"end", "long"}
    <2> TAKE i \in a + 1 .. a + m - 1
    <2>1. PICK j \in 1 .. m - 1 : i = a + j
      <3>1. i - a \in 1 .. m - 1 /\ i = a + (i - a)
        BY <1>2
      <3> QED
        BY <3>1
    <2>2. j \in 1 .. b - a
      BY <1>2
    <2> QED
      BY <1>1, <1>2, <2>1, <2>2
  <1> DEFINE n == a + m
  <1>6. n \in a .. b
    BY <1>2
  <1>7. LinesRead(SubSeq(r, a + 1, b), started) = SubSeq(r, a + 1, n)
    BY <1>3, <1>4 DEF lines
  <1>8. \A i \in a + 1 .. n - 1 : r[i] \notin {"end", "long"}
    BY <1>2, <1>5
  <1> HIDE DEF n
  <1> QED
    BY <1>6, <1>7, <1>8

(* The lines of one call are a part of the request behind what was read,   *)
(* within what has arrived; all but the last let the reading go on.        *)
LEMMA LinesProperties ==
    ASSUME NEW k, Readable(k), NEW h
    PROVE  \E n \in k.read .. k.arrived :
             /\ Lines(k, h) = SubSeq(k.request, k.read + 1, n)
             /\ \A i \in k.read + 1 .. n - 1 : k.request[i] \notin {"end", "long"}
  <1> DEFINE halves == { i \in k.read + 1 .. k.arrived : k.request[i] = "half" }
             w == Least(halves, k.arrived + 1) - 1
  <1>1. k.request \in Seq(Item) /\ k.read \in Nat /\ k.arrived \in Nat
           /\ k.read <= k.arrived /\ k.arrived <= Len(k.request)
           /\ Len(k.request) \in Nat
    BY DEF Readable, Connection, Text
  <1>2. w \in k.read .. k.arrived
    <2>1. halves \in SUBSET Nat
      BY <1>1
    <2>2. CASE halves = {}
      <3>1. Least(halves, k.arrived + 1) = k.arrived + 1
        BY <2>1, <2>2, LeastProperties
      <3> QED
        BY <3>1, <1>1
    <2>3. CASE halves # {}
      <3>1. Least(halves, k.arrived + 1) \in halves
        BY <2>1, <2>3, LeastProperties
      <3> QED
        BY <3>1, <1>1
    <2> QED
      BY <2>2, <2>3
  <1>3. Lines(k, h) = LinesRead(SubSeq(k.request, k.read + 1, w), h.readStarted)
    BY DEF Lines, Whole
  <1> HIDE DEF w
  <1>4. w \in k.read .. Len(k.request)
    BY <1>1, <1>2
  <1>5. PICK n \in k.read .. w :
          /\ LinesRead(SubSeq(k.request, k.read + 1, w), h.readStarted)
                = SubSeq(k.request, k.read + 1, n)
          /\ \A i \in k.read + 1 .. n - 1 : k.request[i] \notin {"end", "long"}
    BY <1>1, <1>4, LinesOfSlice
  <1>6. n \in k.read .. k.arrived
    BY <1>1, <1>2
  <1> QED
    BY <1>3, <1>5, <1>6
-----------------------------------------------------------------------------
(* What Verdict says of a request that was read up to an item n.           *)

LEMMA FieldsOfSlice ==
    ASSUME NEW r \in Seq(Item), NEW n \in 0 .. Len(r)
    PROVE  /\ Range(SubSeq(r, 1, n)) \cap Fields = FieldsUpto(r, n)
           /\ Len(SubSeq(r, 1, n)) = n
           /\ \A i \in 1 .. n : SubSeq(r, 1, n)[i] = r[i]
  <1> DEFINE s == SubSeq(r, 0 + 1, n)
  <1>1. s \in Seq(Item) /\ Len(s) = n - 0 /\ \A i \in 1 .. n - 0 : s[i] = r[0 + i]
    BY Slice
  <1> HIDE DEF s
  <1>2. s \in Seq(Item) /\ Len(s) = n /\ \A i \in 1 .. n : s[i] = r[i]
    <2>1. n - 0 = n /\ \A i \in 1 .. n : 0 + i = i
      OBVIOUS
    <2> QED
      BY <1>1, <2>1
  <1>3. Range(s) = { s[i] : i \in 1 .. n }
    BY <1>2, RangeEquality
  <1>4. Range(s) \cap Fields = FieldsUpto(r, n)
    BY <1>2, <1>3 DEF FieldsUpto
  <1>5. s = SubSeq(r, 1, n)
    BY DEF s
  <1> QED
    BY <1>2, <1>4, <1>5

LEMMA FirstEnd ==
    ASSUME NEW r \in Seq(Item), NEW n \in 1 .. Len(r),
           \A i \in 1 .. n - 1 : r[i] # "end"
    PROVE  LET ends == { i \in 1 .. Len(r) : r[i] = "end" }
           IN  /\ Least(ends, Len(r)) \in n .. Len(r)
               /\ r[n] = "end" => Least(ends, Len(r)) = n /\ ends # {}
  <1> DEFINE ends == { i \in 1 .. Len(r) : r[i] = "end" }
             e == Least(ends, Len(r))
  <1>1. ends \in SUBSET Nat
    BY SMTT(30)
  <1>2. CASE ends = {}
    <2>1. e = Len(r)
      BY <1>1, <1>2, LeastProperties
    <2>2. r[n] # "end"
      BY <1>2
    <2>3. Len(r) \in n .. Len(r)
      OBVIOUS
    <2> HIDE DEF e, ends
    <2> QED
      BY <2>1, <2>2, <2>3 DEF e, ends
  <1>3. CASE ends # {}
    <2>1. e \in ends /\ \A j \in ends : e <= j
      BY <1>1, <1>3, LeastProperties
    <2> HIDE DEF e
    <2>2. e \in n .. Len(r)
      BY <2>1
    <2>3. r[n] = "end" => e = n
      BY <2>1, <2>2
    <2> QED
      BY <2>2, <2>3, <1>3 DEF e
  <1> QED
    BY <1>2, <1>3

LEMMA VerdictNoGet ==
    ASSUME NEW r \in Seq(Item), r # << >>, r[1] # "get"
    PROVE  Verdict(r) = "400"
  BY DEF Verdict

LEMMA VerdictLong ==
    ASSUME NEW r \in Seq(Item), NEW n \in 1 .. Len(r), r[n] = "long",
           \A i \in 1 .. n - 1 : r[i] # "end"
    PROVE  Verdict(r) = "400"
  <1> DEFINE ends == { i \in 1 .. Len(r) : r[i] = "end" }
             e == Least(ends, Len(r))
  <1>1. e \in n .. Len(r)
    BY FirstEnd
  <1> HIDE DEF e
  <1>2. /\ Len(SubSeq(r, 1, e)) = e
        /\ \A i \in 1 .. e : SubSeq(r, 1, e)[i] = r[i]
    BY <1>1, FieldsOfSlice
  <1>3. Contains(SubSeq(r, 1, e), "long")
    BY <1>1, <1>2 DEF Contains
  <1> QED
    BY <1>3 DEF Verdict, e

LEMMA VerdictEnd ==
    ASSUME NEW r \in Seq(Item), NEW n \in 1 .. Len(r), r[n] = "end", r[1] = "get",
           \A i \in 1 .. n - 1 : r[i] \notin {"end", "long"}
    PROVE  Verdict(r) =
             IF /\ {"host", "upgrade", "connection"} \subseteq FieldsUpto(r, n)
                /\ "key" \in FieldsUpto(r, n) /\ "version" \in FieldsUpto(r, n)
             THEN "101" ELSE "400"
  <1> DEFINE ends == { i \in 1 .. Len(r) : r[i] = "end" }
             e == Least(ends, Len(r))
  <1>1. e = n /\ ends # {}
    BY FirstEnd
  <1>2. Head(r) = "get"
    OBVIOUS
  <1> HIDE DEF e
  <1>3. /\ Len(SubSeq(r, 1, n)) = n
        /\ \A i \in 1 .. n : SubSeq(r, 1, n)[i] = r[i]
        /\ Range(SubSeq(r, 1, n)) \cap Fields = FieldsUpto(r, n)
    BY FieldsOfSlice
  <1>4. ~Contains(SubSeq(r, 1, n), "long")
    BY <1>3 DEF Contains
  <1> DEFINE head == SubSeq(r, 1, e)
  <1>5. head = SubSeq(r, 1, n)
    BY <1>1
  <1>6. Verdict(r) =
          IF \/ Head(r) # "get" \/ Contains(head, "long")
             \/ ends # {} /\ ~(/\ {"host", "upgrade", "connection"}
                                     \subseteq Range(head) \cap Fields
                               /\ "key" \in Range(head) \cap Fields
                               /\ "version" \in Range(head) \cap Fields)
            THEN "400"
          ELSE IF ends = {} THEN "none" ELSE "101"
    BY DEF Verdict, e
  <1> HIDE DEF head, ends
  <1> QED
    BY <1>1, <1>2, <1>3, <1>4, <1>5, <1>6
-----------------------------------------------------------------------------
(* One call of dataReceived.                                               *)

LEMMA ConnectionUpdate ==
    ASSUME NEW k \in Connection, NEW m \in Nat, NEW d \in BOOLEAN, NEW t \in BOOLEAN
    PROVE  [k EXCEPT !.read = m, !.damaged = d, !.cut = t] \in Connection
  BY DEF Connection

(* The types of what it does.                                              *)
LEMMA ReadTypes ==
    ASSUME NEW k, Readable(k), NEW h \in Handshake
    PROVE  /\ Readable(After(k, h))
           /\ After(k, h) = [k EXCEPT !.read = After(k, h).read,
                                      !.damaged = After(k, h).damaged,
                                      !.cut = After(k, h).cut]
           /\ Result(k, h).handshake \in Handshake
           /\ Result(k, h).refused \in BOOLEAN
  <1> DEFINE r == k.request
             lines == Lines(k, h)
  <1>1. /\ r \in Seq(Item) /\ k.read \in Nat /\ k.arrived \in Nat
        /\ k.read <= k.arrived /\ k.arrived <= Len(r) /\ Len(r) \in Nat
        /\ k.cut \in BOOLEAN /\ k.damaged \in BOOLEAN
    BY DEF Readable, Connection, Text
  <1>2. PICK n \in k.read .. k.arrived : lines = SubSeq(r, k.read + 1, n)
    BY LinesProperties
  <1>3. lines \in Seq(Item) /\ Len(lines) = n - k.read
    <2>1. n \in k.read .. Len(r)
      BY <1>1, <1>2
    <2> QED
      BY <1>1, <1>2, <2>1, Slice
  <1> HIDE DEF lines
  <1> DEFINE left == Unread(k, k.read + Len(lines))
             two == left = <<"half", "half">>
             fields == FieldsAfter(k, h, lines)
             complete == h.complete \/ Contains(lines, "end")
             refused ==
                 \/ Contains(lines, "long")
                 \/ lines # << >> /\ ~h.readStarted /\ Head(lines) # "get"
                 \/ ~complete /\ Cardinality(fields) > MaxFields
             takes == ~refused /\ "keys" \in fields /\ EightBytes(k, lines)
             d == (k.damaged /\ lines = << >>) \/ (takes /\ k.cut)
             m == k.read + Len(lines) + IF takes /\ ~k.cut THEN 2 ELSE 0
             t == k.cut /\ ~(takes /\ k.cut)
  <1>4. Result(k, h) =
          [refused |-> refused, cut |-> takes /\ k.cut, read |-> m, damaged |-> d,
           handshake |-> [readStarted |-> h.readStarted \/ lines # << >>,
                          complete |-> complete, fields |-> fields,
                          key3 |-> h.key3 \/ takes]]
    BY DEF Result, Read, lines
  <1>5. takes /\ ~k.cut => k.read + Len(lines) + 2 <= k.arrived
    <2> SUFFICES ASSUME takes, ~k.cut
                 PROVE  k.read + Len(lines) + 2 <= k.arrived
      OBVIOUS
    <2>1. two
      BY DEF EightBytes
    <2>2. n \in Nat /\ k.arrived \in n .. Len(r) /\ k.read + Len(lines) = n
      BY SMTT(30), <1>1, <1>2, <1>3
    <2>3. Len(SubSeq(r, n + 1, k.arrived)) = k.arrived - n
      BY <1>1, <2>2, Slice
    <2>4. left = SubSeq(r, n + 1, k.arrived)
      BY <2>2 DEF Unread
    <2>5. Len(left) = 2
      BY <2>1
    <2> HIDE DEF takes, left
    <2> QED
      BY <1>1, <2>2, <2>3, <2>4, <2>5
  <1>6. fields \in SUBSET Fields
    BY DEF FieldsAfter, Handshake
  <1>7. /\ h.readStarted \in BOOLEAN /\ h.complete \in BOOLEAN /\ h.key3 \in BOOLEAN
    BY DEF Handshake
  <1>8. /\ complete \in BOOLEAN /\ takes \in BOOLEAN /\ refused \in BOOLEAN
        /\ d \in BOOLEAN /\ t \in BOOLEAN
    BY <1>1, <1>7 DEF Contains, EightBytes
  <1>9. m \in k.read .. k.arrived
    <2>1. Len(lines) \in Nat
      BY <1>3
    <2>2. k.read + Len(lines) = n /\ n \in Nat /\ k.read <= n /\ n <= k.arrived
      BY <1>1, <1>2, <1>3
    <2> DEFINE l == Len(lines)
               a == k.read
               b == k.arrived
    <2>0. a \in Nat /\ b \in Nat
      BY <1>1
    <2>3. CASE takes /\ ~k.cut
      <3>1. m = a + l + 2 /\ a + l + 2 <= b
        BY <2>3, <1>5
      <3> HIDE DEF m, l, a, b
      <3>2. m \in a .. b
        BY <2>0, <2>1, <3>1 DEF l
      <3> QED
        BY <3>2 DEF a, b
    <2>4. CASE ~(takes /\ ~k.cut)
      <3>1. m = a + l + 0
        BY <2>4
      <3>2. a + l = n /\ n <= b
        BY <2>2
      <3> HIDE DEF m, l, a, b
      <3>3. m \in a .. b
        BY <2>0, <2>1, <2>2, <3>1, <3>2 DEF l
      <3> QED
        BY <3>3 DEF a, b
    <2> QED
      BY <2>3, <2>4
  <1> HIDE DEF fields, complete, refused, takes, d, m
  <1>10. /\ Result(k, h).handshake \in Handshake
         /\ Result(k, h).refused \in BOOLEAN
    BY <1>4, <1>6, <1>7, <1>8 DEF Handshake
  <1>11. After(k, h) = [k EXCEPT !.read = m, !.damaged = d, !.cut = t]
    <2> DEFINE both == takes /\ k.cut
    <2>1. both \in BOOLEAN
      OBVIOUS
    <2>2. t = (k.cut /\ ~both)
      OBVIOUS
    <2>3. Result(k, h).read = m /\ Result(k, h).damaged = d /\ Result(k, h).cut = both
      BY <1>4
    <2> HIDE DEF both, t
    <2> QED
      BY <2>2, <2>3, Zenon DEF After
  <1> HIDE DEF t
  <1>12. k \in Connection
    BY DEF Readable
  <1>13. After(k, h) \in Connection
    <2>1. m \in Nat
      BY <1>1, <1>9
    <2>2. d \in BOOLEAN /\ t \in BOOLEAN
      BY <1>8
    <2>3. [k EXCEPT !.read = m, !.damaged = d, !.cut = t] \in Connection
      BY <1>12, <2>1, <2>2, ConnectionUpdate, Zenon
    <2> QED
      BY <1>11, <2>3, Zenon
  <1>14. /\ After(k, h).read = m /\ After(k, h).damaged = d /\ After(k, h).cut = t
         /\ After(k, h).arrived = k.arrived /\ After(k, h).request = r
    BY <1>11, <1>12 DEF Connection
  <1>15. Readable(After(k, h))
    BY <1>1, <1>9, <1>13, <1>14 DEF Readable
  <1> QED
    BY <1>10, <1>11, <1>14, <1>15

LEMMA FewFields ==
    ASSUME NEW r \in Seq(Item), NEW n \in 0 .. Len(r)
    PROVE  /\ Cardinality(FieldsUpto(r, n)) \in Nat
           /\ Cardinality(Range(r) \cap Fields) \in Nat
           /\ Cardinality(FieldsUpto(r, n)) <= Cardinality(Range(r) \cap Fields)
  <1>1. Range(r) = { r[i] : i \in 1 .. Len(r) }
    BY RangeEquality
  <1>2. IsFiniteSet(1 .. Len(r))
    BY FS_Interval
  <1>3. r \in Surjection(1 .. Len(r), Range(r))
    <2>1. r \in [1 .. Len(r) -> Item]
      BY LenProperties
    <2> QED
      BY <1>1, <2>1 DEF Surjection
  <1>4. IsFiniteSet(Range(r))
    BY <1>2, <1>3, FS_Surjection
  <1> DEFINE all == Range(r) \cap Fields
             some == FieldsUpto(r, n)
  <1>5. all \in SUBSET Range(r)
    OBVIOUS
  <1>6. some \in SUBSET all
    BY <1>1 DEF FieldsUpto
  <1> HIDE DEF all, some
  <1>7. IsFiniteSet(all)
    BY <1>4, <1>5, FS_Subset
  <1>8. IsFiniteSet(some) /\ Cardinality(some) <= Cardinality(all)
    BY <1>6, <1>7, FS_Subset
  <1>9. Cardinality(some) \in Nat /\ Cardinality(all) \in Nat
    BY <1>7, <1>8, FS_CardinalityType
  <1> QED
    BY <1>8, <1>9 DEF all, some

(* The answer, when one is given, is that of Verdict; else the reading     *)
(* goes on.                                                                *)
LEMMA ReadVerdict ==
    ASSUME NEW k, Readable(k), k.request # << >>, NEW h \in Handshake,
           ReadSoFar(k, h), ~Contains(k.request, "keys")
    PROVE  LET r == k.request
               result == Result(k, h)
           IN  /\ result.refused /\ Cardinality(Range(r) \cap Fields) <= MaxFields
                    => Verdict(r) = "400"
               /\ ~result.refused /\ result.handshake.complete
                    => Verdict(r) = IF isValid(result.handshake) THEN "101" ELSE "400"
               /\ ~result.refused /\ ~result.handshake.complete
                    => ReadSoFar(After(k, h), result.handshake)
  <1> DEFINE r == k.request
             a == k.read
             lines == Lines(k, h)
  <1>1. /\ r \in Seq(Item) /\ a \in Nat /\ k.arrived \in Nat
        /\ a <= k.arrived /\ k.arrived <= Len(r) /\ Len(r) \in Nat
    BY DEF Readable, Connection, Text
  <1>2. /\ \A i \in 1 .. a : r[i] \notin {"end", "long"}
        /\ a > 0 => r[1] = "get"
        /\ h.readStarted <=> a > 0
        /\ h.fields = FieldsUpto(r, a)
        /\ h.complete = FALSE /\ k.damaged = FALSE
    BY DEF ReadSoFar
  <1>3. PICK n \in a .. k.arrived :
          /\ lines = SubSeq(r, a + 1, n)
          /\ \A i \in a + 1 .. n - 1 : r[i] \notin {"end", "long"}
    BY LinesProperties
  <1>4. n \in a .. Len(r) /\ n \in Nat
    BY <1>1
  <1>5. /\ lines \in Seq(Item) /\ Len(lines) = n - a
        /\ \A i \in 1 .. n - a : lines[i] = r[a + i]
    BY SMTT(30), <1>1, <1>3, <1>4, Slice
  <1>6. \A i \in 1 .. n - 1 : r[i] \notin {"end", "long"}
    BY <1>1, <1>2, <1>3, <1>4
  <1> HIDE DEF r, a, lines
  <1>7. \A x \in {"end", "long"} : Contains(lines, x) <=> n > a /\ r[n] = x
    <2> TAKE x \in {"end", "long"}
    <2>1. ASSUME Contains(lines, x)
          PROVE  n > a /\ r[n] = x
      <3>1. PICK i \in 1 .. n - a : lines[i] = x
        BY <1>1, <1>4, <1>5, <2>1 DEF Contains
      <3>2. r[a + i] = x /\ a + i \in 1 .. n
        BY <1>1, <1>4, <1>5, <3>1
      <3>3. a + i \notin 1 .. n - 1
        BY <1>6, <3>2
      <3> QED
        BY <1>1, <1>4, <3>1, <3>2, <3>3
    <2>2. ASSUME n > a, r[n] = x
          PROVE  Contains(lines, x)
      <3>1. n - a \in 1 .. n - a /\ a + (n - a) = n
        BY <1>1, <1>4, <2>2
      <3>2. lines[n - a] = x /\ n - a \in 1 .. Len(lines)
        BY <1>5, <2>2, <3>1
      <3> QED
        BY <3>2 DEF Contains
    <2> QED
      BY <2>1, <2>2
  <1>8. /\ lines # << >> <=> n > a
        /\ n > a => Head(lines) = r[a + 1]
    <2>1. lines # << >> <=> n > a
      BY <1>1, <1>4, <1>5, EmptySeq
    <2>2. n > a => 1 \in 1 .. n - a
      BY <1>1, <1>4
    <2> QED
      BY <1>5, <2>1, <2>2
  <1>9. FieldsAfter(k, h, lines) = FieldsUpto(r, n)
    <2>1. { j \in 1 .. Len(lines) : ~(j = 1 /\ k.damaged) } = 1 .. n - a
      BY <1>2, <1>5
    <2>2. { lines[i] : i \in 1 .. n - a } = { r[i] : i \in a + 1 .. n }
      <3>1. \A i \in 1 .. n - a : a + i \in a + 1 .. n /\ lines[i] = r[a + i]
        BY <1>1, <1>4, <1>5
      <3>2. \A i \in a + 1 .. n : i - a \in 1 .. n - a /\ a + (i - a) = i
        BY <1>1, <1>4
      <3>3. \A i \in a + 1 .. n : i - a \in 1 .. n - a /\ lines[i - a] = r[i]
        <4> TAKE i \in a + 1 .. n
        <4>1. i - a \in 1 .. n - a /\ a + (i - a) = i
          BY <3>2
        <4>2. lines[i - a] = r[a + (i - a)]
          BY <3>1, <4>1
        <4> QED
          BY <4>1, <4>2
      <3> QED
        BY <3>1, <3>3
    <2>3. { r[i] : i \in 1 .. a } \cup { r[i] : i \in a + 1 .. n } = { r[i] : i \in 1 .. n }
      <3>1. 1 .. n = (1 .. a) \cup (a + 1 .. n)
        BY <1>1, <1>4
      <3> QED
        BY <3>1
    <2>4. FieldsAfter(k, h, lines) =
            h.fields \cup ({ lines[i] : i \in 1 .. n - a } \cap Fields)
      BY <2>1 DEF FieldsAfter
    <2>5. h.fields = { r[i] : i \in 1 .. a } \cap Fields
      BY <1>2 DEF FieldsUpto
    <2> QED
      BY <2>2, <2>3, <2>4, <2>5, Zenon DEF FieldsUpto
  <1>10. "keys" \notin FieldsUpto(r, n)
    BY <1>1, <1>4 DEF FieldsUpto, Contains, r
  <1> DEFINE refused ==
                 \/ Contains(lines, "long")
                 \/ lines # << >> /\ ~h.readStarted /\ Head(lines) # "get"
                 \/ ~Contains(lines, "end") /\ Cardinality(FieldsUpto(r, n)) > MaxFields
  <1>11. /\ Result(k, h).refused = refused
         /\ Result(k, h).read = n
         /\ Result(k, h).damaged = FALSE
         /\ Result(k, h).handshake.readStarted = (h.readStarted \/ lines # << >>)
         /\ Result(k, h).handshake.complete = Contains(lines, "end")
         /\ Result(k, h).handshake.fields = FieldsUpto(r, n)
    <2> DEFINE f == FieldsUpto(r, n)
               takes == ~refused /\ "keys" \in f /\ EightBytes(k, lines)
               started == h.readStarted \/ lines # << >>
               complete == Contains(lines, "end")
               m == a + Len(lines) + IF takes /\ ~k.cut THEN 2 ELSE 0
               d == (k.damaged /\ lines = << >>) \/ (takes /\ k.cut)
    <2>1. takes = FALSE
      BY <1>10
    <2>2. (h.complete \/ complete) = complete
      BY <1>2 DEF Contains
    <2>3. a + Len(lines) + 0 = n
      BY <1>1, <1>4, <1>5
    <2>4. Result(k, h) =
            [refused |-> refused, cut |-> takes /\ k.cut,
             read |-> m, damaged |-> d,
             handshake |-> [readStarted |-> started, complete |-> complete,
                            fields |-> f, key3 |-> h.key3 \/ takes]]
      BY <1>9, <2>2, Zenon DEF Result, Read, lines, a
    <2> HIDE DEF refused, takes, started, complete, f
    <2>5. m = n /\ d = FALSE
      <3>1. (IF takes /\ ~k.cut THEN 2 ELSE 0) = 0
        BY <2>1
      <3> QED
        BY <1>2, <2>1, <2>3, <3>1
    <2> HIDE DEF m, d
    <2>6. /\ Result(k, h).refused = refused
          /\ Result(k, h).read = n
          /\ Result(k, h).damaged = FALSE
          /\ Result(k, h).handshake.readStarted = started
          /\ Result(k, h).handshake.complete = complete
          /\ Result(k, h).handshake.fields = f
      BY <2>3, <2>4, <2>5
    <2> QED
      BY <2>6 DEF refused, started, complete, f
  <1> DEFINE result == Result(k, h)
  <1>12. ASSUME result.refused, Cardinality(Range(r) \cap Fields) <= MaxFields
         PROVE  Verdict(r) = "400"
    <2>1. refused
      BY <1>11, <1>12
    <2>2. CASE Contains(lines, "long")
      <3>1. n \in 1 .. Len(r) /\ r[n] = "long"
        BY <1>1, <1>4, <1>7, <2>2
      <3> QED
        BY <1>1, <1>6, <3>1, VerdictLong
    <2>3. CASE lines # << >> /\ ~h.readStarted /\ Head(lines) # "get"
      <3>1. a = 0 /\ r[1] # "get"
        BY <1>1, <1>2, <1>8, <2>3
      <3>2. r # << >>
        BY DEF r
      <3> QED
        BY <1>1, <3>1, <3>2, VerdictNoGet
    <2>4. CASE Cardinality(FieldsUpto(r, n)) > MaxFields
      <3>1. n \in 0 .. Len(r)
        BY <1>1, <1>4
      <3>2. MaxFields \in Nat
        BY ServerAssumption DEF ServerAssumption
      <3> DEFINE some == Cardinality(FieldsUpto(r, n))
                 all == Cardinality(Range(r) \cap Fields)
      <3>3. some \in Nat /\ all \in Nat /\ some <= all
        BY <1>1, <3>1, FewFields
      <3>4. some > MaxFields /\ all <= MaxFields
        BY <1>12, <2>4
      <3> HIDE DEF some, all
      <3> QED
        BY <3>2, <3>3, <3>4
    <2> QED
      BY <2>1, <2>2, <2>3, <2>4
  <1>13. n > 0 => r[1] = "get" \/ result.refused
    BY <1>1, <1>2, <1>4, <1>8, <1>11
  <1>14. ASSUME ~result.refused, result.handshake.complete
         PROVE  Verdict(r) = IF isValid(result.handshake) THEN "101" ELSE "400"
    <2>1. n \in 1 .. Len(r) /\ r[n] = "end" /\ r[1] = "get"
      BY <1>1, <1>4, <1>7, <1>11, <1>13, <1>14
    <2>2. Verdict(r) =
            IF /\ {"host", "upgrade", "connection"} \subseteq FieldsUpto(r, n)
               /\ "key" \in FieldsUpto(r, n) /\ "version" \in FieldsUpto(r, n)
            THEN "101" ELSE "400"
      BY <1>1, <1>6, <2>1, VerdictEnd
    <2> QED
      BY <1>10, <1>11, <2>2 DEF isValid
  <1>15. ASSUME ~result.refused, ~result.handshake.complete
         PROVE  ReadSoFar(After(k, h), result.handshake)
    <2> DEFINE g == result.handshake
               j == After(k, h)
    <2>1. j.read = n /\ j.damaged = FALSE /\ j.request = r
      BY <1>11 DEF After, Readable, Connection, r
    <2>2. \A i \in 1 .. n : r[i] \notin {"end", "long"}
      <3>1. n > a => r[n] \notin {"end", "long"}
        BY <1>7, <1>11, <1>15
      <3>2. \A i \in 1 .. n : i \in 1 .. n - 1 \/ (i = n /\ n > a) \/ i \in 1 .. a
        BY <1>1, <1>4
      <3> QED
        BY <1>2, <1>6, <3>1, <3>2
    <2>3. n > 0 => r[1] = "get"
      BY <1>13, <1>15
    <2>4. g.readStarted <=> n > 0
      <3> DEFINE started == h.readStarted \/ lines # << >>
      <3>1. started <=> n > 0
        BY <1>1, <1>2, <1>4, <1>8
      <3>2. g.readStarted = started
        BY <1>11
      <3> HIDE DEF started, g
      <3> QED
        BY <3>1, <3>2
    <2>5. g.complete = FALSE
      BY <1>11, <1>15 DEF Contains
    <2>6. g.fields = FieldsUpto(r, n)
      BY <1>11
    <2> HIDE DEF g, j
    <2>7. ReadSoFar(j, g)
      BY <2>1, <2>2, <2>3, <2>4, <2>5, <2>6 DEF ReadSoFar
    <2> QED
      BY <2>7 DEF g, j
  <1> QED
    BY <1>12, <1>14, <1>15 DEF r
-----------------------------------------------------------------------------
(* The invariant.                                                          *)

(* A connection k of a server with or without TLS.                         *)
Good(k, withTls) ==
    /\ Readable(k)
    /\ k.state # "none" => k.request \in Requests
    /\ k.state \in {"none", "stuck", "encrypting", "handshake"} => k.answer = "none"
    /\ k.state = "closing" => k.answer = "400"
    /\ k.state = "open" => k.answer = "101"
    /\ k.object = "tcp" <=> k.state \in {"handshake", "closing"}
    /\ k.object = "ws" <=> k.answer = "101"
    /\ k.object = "orphan" => withTls /\ k.arrived = 0
    /\ k.state = "encrypting" => k.object = "orphan" /\ k.damaged = FALSE

(* It was answered as the whole request deserves.                          *)
Deserved(k) ==
    k.answer # "none" /\ ~Contains(k.request, "keys")
      /\ Cardinality(Range(k.request) \cap Fields) <= MaxFields
        => k.answer = Verdict(k.request)

Connections ==
    /\ tls \in BOOLEAN /\ listening \in BOOLEAN
    /\ conn \in [Conns -> Connection]
    /\ \A c \in Conns : Good(conn[c], tls) /\ Deserved(conn[c])

Handshakes ==
    /\ DOMAIN handshakeBuffer = { c \in Conns : conn[c].state \in {"handshake", "closing"} }
    /\ \A c \in DOMAIN handshakeBuffer : handshakeBuffer[c] \in Handshake
    /\ \A c \in Conns :
         conn[c].state = "handshake" => ReadSoFar(conn[c], handshakeBuffer[c])

Pending(c) == \E i \in 1 .. Len(pendingConnections) : pendingConnections[i] = c

(* Each accepted socket is at one place.                                   *)
Sockets ==
    /\ pendingConnections \in Seq(Conns) /\ signals \in Nat /\ defined \in BOOLEAN
    /\ taken \in SUBSET Conns /\ dropped \in SUBSET Conns
    /\ \A i, j \in 1 .. Len(pendingConnections) :
         pendingConnections[i] = pendingConnections[j] => i = j
    /\ \A c \in Conns : ~(c \in taken /\ c \in dropped)
    /\ \A c \in Conns : Pending(c) => c \notin taken /\ c \notin dropped
    /\ \A c \in Conns :
         conn[c].answer = "101" <=> c \in taken \/ c \in dropped \/ Pending(c)
    /\ Len(pendingConnections) <= MaxPending
    /\ signals >= Len(pendingConnections)
    /\ signals > Len(pendingConnections) \/ defined = FALSE => dropped # {}

SInv == Connections /\ Handshakes /\ Sockets
-----------------------------------------------------------------------------
(* What an action does to one connection, to its handshake and the queue.  *)

LEMMA ConnectionsChange ==
    ASSUME SInv, NEW c \in Conns, NEW k, Good(k, tls), Deserved(k),
           conn' = [conn EXCEPT ![c] = k], UNCHANGED <<tls, listening>>
    PROVE  Connections'
  <1>1. k \in Connection
    BY DEF Good, Readable
  <1>2. conn' \in [Conns -> Connection]
    BY <1>1 DEF SInv, Connections
  <1>3. \A d \in Conns : conn'[d] = IF d = c THEN k ELSE conn[d]
    BY DEF SInv, Connections
  <1>4. \A d \in Conns : Good(conn'[d], tls') /\ Deserved(conn'[d])
    BY <1>3 DEF SInv, Connections
  <1> QED
    BY <1>2, <1>4 DEF SInv, Connections

LEMMA HandshakePut ==
    ASSUME SInv, NEW c \in Conns, NEW k, NEW h \in Handshake,
           k.state \in {"handshake", "closing"},
           k.state = "handshake" => ReadSoFar(k, h),
           conn' = [conn EXCEPT ![c] = k], handshakeBuffer' = With(c, h)
    PROVE  Handshakes'
  <1>1. \A d \in Conns : conn'[d] = IF d = c THEN k ELSE conn[d]
    BY DEF SInv, Connections
  <1>2. /\ DOMAIN handshakeBuffer' = DOMAIN handshakeBuffer \cup {c}
        /\ \A d \in DOMAIN handshakeBuffer' :
             handshakeBuffer'[d] = IF d = c THEN h ELSE handshakeBuffer[d]
    BY DEF With
  <1>3. DOMAIN handshakeBuffer' =
          { d \in Conns : conn'[d].state \in {"handshake", "closing"} }
    BY <1>1, <1>2 DEF SInv, Handshakes
  <1>4. \A d \in DOMAIN handshakeBuffer' : handshakeBuffer'[d] \in Handshake
    BY <1>2 DEF SInv, Handshakes
  <1>5. ASSUME NEW d \in Conns, conn'[d].state = "handshake"
        PROVE  ReadSoFar(conn'[d], handshakeBuffer'[d])
    <2>1. d \in DOMAIN handshakeBuffer'
      BY <1>3, <1>5
    <2> QED
      BY <1>1, <1>2, <1>5, <2>1 DEF SInv, Handshakes
  <1> QED
    BY <1>3, <1>4, <1>5 DEF Handshakes

LEMMA HandshakeTaken ==
    ASSUME SInv, NEW c \in Conns, NEW k, k.state \notin {"handshake", "closing"},
           conn' = [conn EXCEPT ![c] = k],
           \/ handshakeBuffer' = Without(c)
           \/ handshakeBuffer' = handshakeBuffer /\ c \notin DOMAIN handshakeBuffer
    PROVE  Handshakes'
  <1>1. \A d \in Conns : conn'[d] = IF d = c THEN k ELSE conn[d]
    BY DEF SInv, Connections
  <1>2. /\ DOMAIN handshakeBuffer' = DOMAIN handshakeBuffer \ {c}
        /\ \A d \in DOMAIN handshakeBuffer' : handshakeBuffer'[d] = handshakeBuffer[d]
    BY DEF Without
  <1>3. DOMAIN handshakeBuffer' =
          { d \in Conns : conn'[d].state \in {"handshake", "closing"} }
    BY <1>1, <1>2 DEF SInv, Handshakes
  <1>4. \A d \in DOMAIN handshakeBuffer' : handshakeBuffer'[d] \in Handshake
    BY <1>2 DEF SInv, Handshakes
  <1>5. ASSUME NEW d \in Conns, conn'[d].state = "handshake"
        PROVE  ReadSoFar(conn'[d], handshakeBuffer'[d])
    <2>1. d \in DOMAIN handshakeBuffer'
      BY <1>3, <1>5
    <2> QED
      BY <1>1, <1>2, <1>5, <2>1 DEF SInv, Handshakes
  <1> QED
    BY <1>3, <1>4, <1>5 DEF Handshakes

LEMMA QueueKept ==
    ASSUME SInv, NEW c \in Conns, NEW k, k.answer = "101" <=> conn[c].answer = "101",
           conn' = [conn EXCEPT ![c] = k], UNCHANGED queue
    PROVE  Sockets'
  <1>1. \A d \in Conns : conn'[d].answer = "101" <=> conn[d].answer = "101"
    BY DEF SInv, Connections
  <1> QED
    BY <1>1 DEF SInv, Sockets, Pending, queue

LEMMA Accepted ==
    ASSUME SInv, NEW c \in Conns, NEW k, k.answer = "101", conn[c].answer # "101",
           conn' = [conn EXCEPT ![c] = k], addPendingConnection(c),
           signals' = signals + 1, UNCHANGED <<taken, defined>>
    PROVE  Sockets'
  <1>1. \A d \in Conns : conn'[d].answer = "101" <=> d = c \/ conn[d].answer = "101"
    BY DEF SInv, Connections
  <1>2. c \notin taken /\ c \notin dropped /\ ~Pending(c)
    BY DEF SInv, Sockets
  <1> USE DEF SInv, Sockets
  <1>3. CASE Len(pendingConnections) < MaxPending
    <2> DEFINE old == pendingConnections
               new == pendingConnections'
               l == Len(old)
    <2>1. new = Append(old, c) /\ dropped' = dropped
      BY <1>3 DEF addPendingConnection
    <2>2. /\ new \in Seq(Conns) /\ Len(new) = l + 1 /\ l \in Nat
          /\ \A i \in 1 .. l : new[i] = old[i]
          /\ new[l + 1] = c
      BY <2>1, AppendProperties
    <2>3. \A i \in 1 .. l : old[i] \in Conns /\ old[i] # c
      BY <1>2, ElementOfSeq DEF Pending
    <2>4. \A i, j \in 1 .. l + 1 : new[i] = new[j] => i = j
      <3> SUFFICES ASSUME NEW i \in 1 .. l + 1, NEW j \in 1 .. l + 1, new[i] = new[j]
                   PROVE  i = j
        OBVIOUS
      <3>1. (i = l + 1 \/ i \in 1 .. l) /\ (j = l + 1 \/ j \in 1 .. l)
        BY <2>2
      <3> QED
        BY <2>2, <2>3, <3>1
    <2>5. \A d \in Conns : Pending(d)' <=> d = c \/ Pending(d)
      <3> TAKE d \in Conns
      <3>1. 1 .. l + 1 = (1 .. l) \cup {l + 1}
        BY <2>2
      <3> HIDE DEF l
      <3> QED
        BY <2>2, <3>1 DEF Pending, l
    <2> HIDE DEF new, old, l
    <2>6. Len(pendingConnections') <= MaxPending /\ signals' >= Len(pendingConnections')
      BY <1>3, <2>2, ServerAssumption DEF new, old, l, ServerAssumption
    <2>7. signals' > Len(pendingConnections') \/ defined' = FALSE => dropped' # {}
      BY <2>1, <2>2 DEF new, old, l
    <2>8. \A i, j \in 1 .. Len(pendingConnections') :
            pendingConnections'[i] = pendingConnections'[j] => i = j
      BY <2>2, <2>4 DEF new
    <2>9. pendingConnections' \in Seq(Conns) /\ signals' \in Nat /\ defined' \in BOOLEAN
            /\ taken' \in SUBSET Conns /\ dropped' \in SUBSET Conns
      BY <2>1, <2>2 DEF new
    <2> QED
      BY <1>1, <1>2, <2>1, <2>5, <2>6, <2>7, <2>8, <2>9
  <1>4. CASE ~(Len(pendingConnections) < MaxPending)
    <2>1. pendingConnections' = pendingConnections /\ dropped' = dropped \cup {c}
      BY <1>4 DEF addPendingConnection
    <2>2. \A d \in Conns : Pending(d)' <=> Pending(d)
      BY <2>1 DEF Pending
    <2>3. signals' >= Len(pendingConnections') /\ signals' \in Nat
      BY <2>1
    <2> QED
      BY <1>1, <1>2, <2>1, <2>2, <2>3
  <1> QED
    BY <1>3, <1>4
-----------------------------------------------------------------------------
(* Each action keeps the invariant.                                        *)

LEMMA RequestProperties ==
    ASSUME NEW r \in Requests
    PROVE  r \in Text /\ r # << >> /\ Len(r) \in Nat
  BY ServerAssumption DEF ServerAssumption, Text, Item

LEMMA InitSInv == Init => SInv
  <1> SUFFICES ASSUME Init
               PROVE  SInv
    OBVIOUS
  <1> USE DEF Init
  <1>1. << >> \in Text /\ Len(<< >>) = 0
    BY EmptySeq DEF Text
  <1>2. Unborn \in Connection
    BY <1>1 DEF Unborn, Connection
  <1>3. Good(Unborn, tls) /\ Deserved(Unborn)
    BY <1>1, <1>2 DEF Good, Readable, Deserved, Unborn
  <1>4. Connections
    BY <1>2, <1>3 DEF Connections
  <1>5. Handshakes
    BY DEF Handshakes, Unborn
  <1>6. Sockets
    BY ServerAssumption DEF Sockets, Pending, Unborn, ServerAssumption
  <1> QED
    BY <1>4, <1>5, <1>6 DEF SInv

(* A handshake that begins has read nothing.                               *)
LEMMA NothingRead ==
    ASSUME NEW k, k.read = 0, k.damaged = FALSE
    PROVE  NewHandshake \in Handshake /\ ReadSoFar(k, NewHandshake)
  BY DEF NewHandshake, Handshake, ReadSoFar, FieldsUpto

LEMMA BegunKeeps ==
    ASSUME SInv, NEW c \in Conns, NEW k, Good(k, tls), k.state \in {"none", "encrypting"},
           k.request \in Requests, k.read = 0, k.damaged = FALSE,
           conn[c].state \in {"none", "encrypting"},
           Begun(c, k), UNCHANGED <<tls, listening, queue>>
    PROVE  SInv'
  <1> DEFINE new == [k EXCEPT !.state = "handshake", !.object = "tcp"]
  <1>1. k \in Connection
    BY DEF Good, Readable
  <1>2. /\ new \in Connection /\ new.state = "handshake" /\ new.object = "tcp"
        /\ new.request = k.request /\ new.read = 0 /\ new.damaged = FALSE
        /\ new.answer = "none" /\ new.arrived = k.arrived
    BY <1>1 DEF Connection, Good
  <1>3. conn' = [conn EXCEPT ![c] = new] /\ handshakeBuffer' = With(c, NewHandshake)
    BY DEF Begun
  <1> HIDE DEF new
  <1>4. Good(new, tls) /\ Deserved(new)
    BY <1>2 DEF Good, Readable, Deserved
  <1>5. NewHandshake \in Handshake /\ ReadSoFar(new, NewHandshake)
    BY <1>2, NothingRead
  <1>6. Connections'
    BY <1>3, <1>4, ConnectionsChange
  <1>7. Handshakes'
    BY <1>2, <1>3, <1>5, HandshakePut
  <1>8. conn[c].answer # "101"
    BY DEF SInv, Connections, Good
  <1>9. Sockets'
    BY <1>2, <1>3, <1>8, QueueKept
  <1> QED
    BY <1>6, <1>7, <1>9 DEF SInv

LEMMA NewConnectionKeeps ==
    ASSUME SInv, NEW c \in Conns, NEW r \in Requests, NewConnection(c, r)
    PROVE  SInv'
  <1> DEFINE k == [Unborn EXCEPT !.request = r]
  <1>1. r \in Text /\ Len(r) \in Nat
    BY RequestProperties
  <1>2. k \in Connection
    BY <1>1 DEF Unborn, Connection
  <1>3. Good(k, tls) /\ k.state = "none" /\ k.request = r /\ k.read = 0 /\ k.damaged = FALSE
    BY <1>1, <1>2 DEF Good, Readable, Unborn
  <1>4. Begun(c, k) /\ conn[c].state = "none" /\ UNCHANGED <<tls, listening, queue>>
    BY DEF NewConnection
  <1> HIDE DEF k
  <1> QED
    BY <1>3, <1>4, BegunKeeps

LEMMA IncomingConnectionKeeps ==
    ASSUME SInv, NEW c \in Conns, NEW r \in Requests, IncomingConnection(c, r)
    PROVE  SInv'
  <1>1. PICK s \in {"ended", "stuck", "encrypting"}, o \in {"deleted", "orphan"} :
          /\ s # "ended" => o = "orphan"
          /\ conn' = [conn EXCEPT ![c] = [Unborn EXCEPT !.request = r, !.state = s,
                                                        !.object = o]]
    <2>1. PICK new \in { <<"ended", "deleted">>, <<"stuck", "orphan">>,
                          <<"encrypting", "orphan">> } :
            conn' = [conn EXCEPT ![c] = [Unborn EXCEPT !.request = r, !.state = new[1],
                                                      !.object = new[2]]]
      BY DEF IncomingConnection
    <2> DEFINE s == new[1]
               o == new[2]
    <2>2. /\ s \in {"ended", "stuck", "encrypting"} /\ o \in {"deleted", "orphan"}
          /\ s # "ended" => o = "orphan"
      OBVIOUS
    <2>3. conn' = [conn EXCEPT ![c] = [Unborn EXCEPT !.request = r, !.state = s,
                                                     !.object = o]]
      BY <2>1
    <2> HIDE DEF s, o
    <2> QED
      BY <2>2, <2>3
  <1>2. tls /\ conn[c].state = "none" /\ UNCHANGED <<tls, listening, handshakeBuffer, queue>>
    BY DEF IncomingConnection
  <1> DEFINE k == [Unborn EXCEPT !.request = r, !.state = s, !.object = o]
  <1>3. r \in Text /\ Len(r) \in Nat
    BY RequestProperties
  <1>4. /\ k \in Connection /\ k.state = s /\ k.object = o /\ k.request = r
        /\ k.read = 0 /\ k.arrived = 0 /\ k.damaged = FALSE /\ k.answer = "none"
    BY <1>3 DEF Unborn, Connection
  <1> HIDE DEF k
  <1>5. Good(k, tls) /\ Deserved(k)
    BY <1>1, <1>2, <1>3, <1>4 DEF Good, Readable, Deserved
  <1>6. conn' = [conn EXCEPT ![c] = k]
    BY <1>1 DEF k
  <1>7. Connections'
    BY <1>2, <1>5, <1>6, ConnectionsChange
  <1>8. c \notin DOMAIN handshakeBuffer
    BY <1>2 DEF SInv, Handshakes
  <1>9. Handshakes'
    BY <1>2, <1>4, <1>6, <1>8, HandshakeTaken
  <1>10. conn[c].answer # "101"
    BY <1>2 DEF SInv, Connections, Good
  <1>11. Sockets'
    BY <1>2, <1>4, <1>6, <1>10, QueueKept
  <1> QED
    BY <1>7, <1>9, <1>11 DEF SInv

LEMMA TlsSocketEncryptedKeeps ==
    ASSUME SInv, NEW c \in Conns, TlsSocketEncrypted(c)
    PROVE  SInv'
  <1> DEFINE k == conn[c]
  <1>1. Good(k, tls) /\ k.state = "encrypting"
    BY DEF SInv, Connections, TlsSocketEncrypted
  <1>2. k.read = 0 /\ k.damaged = FALSE /\ k.request \in Requests
    BY <1>1 DEF Good, Readable, Connection
  <1>3. Begun(c, k) /\ UNCHANGED <<tls, listening, queue>>
    BY DEF TlsSocketEncrypted
  <1> QED
    BY <1>1, <1>2, <1>3, BegunKeeps

LEMMA DisconnectedKeeps ==
    ASSUME SInv, NEW c \in Conns, Disconnected(c)
    PROVE  SInv'
  <1> DEFINE k == conn[c]
  <1>1. k \in Connection /\ Good(k, tls) /\ Deserved(k)
    BY DEF SInv, Connections
  <1>2. UNCHANGED <<tls, listening, queue>>
    BY DEF Disconnected
  <1>3. CASE k.state \in {"handshake", "closing"}
    <2> DEFINE new == [k EXCEPT !.state = "ended", !.object = "deleted"]
    <2>1. conn' = [conn EXCEPT ![c] = new] /\ handshakeBuffer' = Without(c)
      BY <1>3 DEF Disconnected, HandshakeDeleted, SInv, Connections
    <2>2. /\ new \in Connection /\ new.state = "ended" /\ new.object = "deleted"
          /\ new.request = k.request /\ new.read = k.read /\ new.arrived = k.arrived
          /\ new.damaged = k.damaged /\ new.answer = k.answer
      BY <1>1 DEF Connection
    <2> HIDE DEF new
    <2>3. Good(new, tls) /\ Deserved(new)
      BY <1>1, <1>3, <2>2 DEF Good, Readable, Deserved
    <2>4. Connections'
      BY <1>2, <2>1, <2>3, ConnectionsChange
    <2>5. Handshakes'
      BY <2>1, <2>2, HandshakeTaken
    <2>6. Sockets'
      BY <1>2, <2>1, <2>2, QueueKept
    <2> QED
      BY <2>4, <2>5, <2>6 DEF SInv
  <1>4. CASE k.state \notin {"handshake", "closing"}
    <2> DEFINE new == [k EXCEPT !.state = "ended"]
    <2>1. conn' = [conn EXCEPT ![c] = new] /\ handshakeBuffer' = handshakeBuffer
      BY <1>4 DEF Disconnected, SInv, Connections
    <2>2. /\ new \in Connection /\ new.state = "ended" /\ new.object = k.object
          /\ new.request = k.request /\ new.read = k.read /\ new.arrived = k.arrived
          /\ new.damaged = k.damaged /\ new.answer = k.answer
      BY <1>1 DEF Connection
    <2>3. k.state # "none"
      BY DEF Disconnected
    <2> HIDE DEF new
    <2>4. Good(new, tls) /\ Deserved(new)
      BY <1>1, <1>4, <2>2, <2>3 DEF Good, Readable, Deserved
    <2>5. c \notin DOMAIN handshakeBuffer
      BY <1>4 DEF SInv, Handshakes
    <2>6. Connections'
      BY <1>2, <2>1, <2>4, ConnectionsChange
    <2>7. Handshakes'
      BY <2>1, <2>2, <2>5, HandshakeTaken
    <2>8. Sockets'
      BY <1>2, <2>1, <2>2, QueueKept
    <2> QED
      BY <2>6, <2>7, <2>8 DEF SInv
  <1> QED
    BY <1>3, <1>4

LEMMA SegmentKeeps ==
    ASSUME SInv, NEW c \in Conns, Segment(c)
    PROVE  SInv'
  <1>1. PICK upto \in conn[c].arrived .. Len(conn[c].request), cut \in BOOLEAN :
          SegmentUpto(c, upto, cut)
    BY DEF Segment
  <1> DEFINE k == [conn[c] EXCEPT !.arrived = upto, !.cut = cut]
             h == handshakeBuffer[c]
             r == conn[c].request
             after == After(k, h)
             result == Result(k, h)
             Handled == \/ result.refused
                        \/ result.handshake.complete /\ ~isValid(result.handshake)
  <1>2. /\ conn[c] \in Connection /\ Good(conn[c], tls) /\ Deserved(conn[c])
        /\ conn[c].state = "handshake" /\ UNCHANGED <<tls, listening>>
    BY <1>1 DEF SInv, Connections, SegmentUpto
  <1>3. h \in Handshake /\ ReadSoFar(conn[c], h)
    BY <1>2 DEF SInv, Handshakes
  <1>4. /\ conn[c].arrived \in Nat /\ conn[c].read \in Nat /\ Len(r) \in Nat
        /\ conn[c].read <= conn[c].arrived /\ conn[c].arrived <= Len(r)
        /\ r \in Requests
    BY <1>2, RequestProperties DEF Good, Readable, Connection
  <1>5. /\ k \in Connection /\ k.state = "handshake" /\ k.request = r /\ k.arrived = upto
        /\ k.read = conn[c].read /\ k.object = conn[c].object
        /\ k.answer = conn[c].answer /\ k.damaged = conn[c].damaged
    <2>1. upto \in Nat
      BY <1>4
    <2> QED
      BY <1>2, <2>1 DEF Connection
  <1>6. dataReceived(c, k)
    BY <1>1 DEF SegmentUpto
  <1>7. IF Handled THEN ShowErrorAndClose(c, after)
        ELSE IF result.handshake.complete THEN Accept(c, after)
        ELSE /\ conn' = [conn EXCEPT ![c] = after]
             /\ handshakeBuffer' = With(c, result.handshake)
             /\ UNCHANGED queue
    BY <1>6, Zenon DEF dataReceived, After, Result, Lines
  <1> HIDE DEF k, h
  <1>8. Readable(k)
    BY <1>4, <1>5 DEF Readable
  <1>9. ReadSoFar(k, h)
    BY <1>3, <1>5 DEF ReadSoFar
  <1>10. /\ Readable(after)
         /\ after = [k EXCEPT !.read = after.read, !.damaged = after.damaged,
                              !.cut = after.cut]
         /\ result.handshake \in Handshake /\ result.refused \in BOOLEAN
    BY <1>3, <1>8, ReadTypes
  <1>11. k.request # << >>
    BY <1>4, <1>5, RequestProperties
  <1>12. ASSUME ~Contains(r, "keys")
         PROVE  /\ result.refused /\ Cardinality(Range(r) \cap Fields) <= MaxFields
                     => Verdict(r) = "400"
                /\ ~result.refused /\ result.handshake.complete
                     => Verdict(r) = IF isValid(result.handshake) THEN "101" ELSE "400"
                /\ ~result.refused /\ ~result.handshake.complete
                     => ReadSoFar(after, result.handshake)
    BY <1>3, <1>5, <1>8, <1>9, <1>11, <1>12, ReadVerdict
  <1> HIDE DEF after, result
  <1>13. /\ after \in Connection /\ after.state = "handshake" /\ after.request = r
         /\ after.object = "tcp" /\ after.answer = "none"
    BY <1>2, <1>5, <1>10 DEF Connection, Good, Readable
  <1>14. conn[c].answer = "none" /\ conn[c].object = "tcp"
    BY <1>2 DEF Good
  <1>15. CASE Handled
    <2>1. ASSUME ~Contains(r, "keys"), Cardinality(Range(r) \cap Fields) <= MaxFields
          PROVE  Verdict(r) = "400"
      BY <1>12, <1>15, <2>1
    <2>2. CASE /\ conn' = [conn EXCEPT ![c] = [after EXCEPT !.state = "closing",
                                                            !.answer = "400"]]
               /\ handshakeBuffer' = With(c, NewHandshake)
               /\ UNCHANGED queue
      <3> DEFINE new == [after EXCEPT !.state = "closing", !.answer = "400"]
      <3>1. /\ new \in Connection /\ new.state = "closing" /\ new.answer = "400"
            /\ new.object = "tcp" /\ new.request = r
            /\ new.read = after.read /\ new.arrived = after.arrived
        BY <1>13 DEF Connection
      <3>2. conn' = [conn EXCEPT ![c] = new]
        BY <2>2
      <3> HIDE DEF new
      <3>3. Good(new, tls) /\ Deserved(new)
        BY <1>4, <1>10, <1>13, <2>1, <3>1 DEF Good, Readable, Deserved
      <3>4. NewHandshake \in Handshake
        BY DEF NewHandshake, Handshake
      <3>5. Connections'
        BY <1>2, <3>2, <3>3, ConnectionsChange
      <3>6. Handshakes'
        BY <2>2, <3>1, <3>2, <3>4, HandshakePut
      <3>7. Sockets'
        BY <1>14, <2>2, <3>1, <3>2, QueueKept
      <3> QED
        BY <3>5, <3>6, <3>7 DEF SInv
    <2>3. CASE /\ conn' = [conn EXCEPT ![c] = [after EXCEPT !.state = "ended",
                                         !.object = "deleted", !.answer = "400"]]
               /\ handshakeBuffer' = Without(c)
               /\ UNCHANGED queue
      <3> DEFINE new == [after EXCEPT !.state = "ended", !.object = "deleted",
                                      !.answer = "400"]
      <3>1. /\ new \in Connection /\ new.state = "ended" /\ new.answer = "400"
            /\ new.object = "deleted" /\ new.request = r
            /\ new.read = after.read /\ new.arrived = after.arrived
        BY <1>13 DEF Connection
      <3>2. conn' = [conn EXCEPT ![c] = new]
        BY <2>3
      <3> HIDE DEF new
      <3>3. Good(new, tls) /\ Deserved(new)
        BY <1>4, <1>10, <2>1, <3>1, <1>13 DEF Good, Readable, Deserved
      <3>4. Connections'
        BY <1>2, <3>2, <3>3, ConnectionsChange
      <3>5. Handshakes'
        BY <2>3, <3>1, <3>2, HandshakeTaken
      <3>6. Sockets'
        BY <1>14, <2>3, <3>1, <3>2, QueueKept
      <3> QED
        BY <3>4, <3>5, <3>6 DEF SInv
    <2> QED
      BY <1>7, <1>15, <2>2, <2>3 DEF ShowErrorAndClose, HandshakeDeleted
  <1>16. CASE ~Handled /\ result.handshake.complete
    <2>1. ASSUME ~Contains(r, "keys")
          PROVE  Verdict(r) = "101"
      BY <1>12, <1>16, <2>1
    <2> DEFINE new == [after EXCEPT !.state = "open", !.object = "ws", !.answer = "101"]
    <2>2. /\ conn' = [conn EXCEPT ![c] = new] /\ handshakeBuffer' = Without(c)
          /\ addPendingConnection(c) /\ signals' = signals + 1
          /\ UNCHANGED <<taken, defined>>
      BY <1>7, <1>16 DEF Accept
    <2>3. /\ new \in Connection /\ new.state = "open" /\ new.answer = "101"
          /\ new.object = "ws" /\ new.request = r
          /\ new.read = after.read /\ new.arrived = after.arrived
      BY <1>13 DEF Connection
    <2> HIDE DEF new
    <2>4. Good(new, tls) /\ Deserved(new)
      BY <1>4, <1>10, <1>13, <2>1, <2>3 DEF Good, Readable, Deserved
    <2>5. Connections'
      BY <1>2, <2>2, <2>4, ConnectionsChange
    <2>6. Handshakes'
      BY <2>2, <2>3, HandshakeTaken
    <2>7. Sockets'
      BY <1>14, <2>2, <2>3, Accepted
    <2> QED
      BY <2>5, <2>6, <2>7 DEF SInv
  <1>17. CASE ~Handled /\ ~result.handshake.complete
    <2>1. /\ conn' = [conn EXCEPT ![c] = after]
          /\ handshakeBuffer' = With(c, result.handshake)
          /\ UNCHANGED queue
      BY <1>7, <1>17
    <2>2. Good(after, tls) /\ Deserved(after)
      BY <1>4, <1>10, <1>13 DEF Good, Deserved
    <2>3. ReadSoFar(after, result.handshake)
      BY <1>12, <1>13, <1>17 DEF ReadSoFar
    <2>4. Connections'
      BY <1>2, <2>1, <2>2, ConnectionsChange
    <2>5. Handshakes'
      BY <1>10, <1>13, <2>1, <2>3, HandshakePut
    <2>6. Sockets'
      BY <1>13, <1>14, <2>1, QueueKept
    <2> QED
      BY <2>4, <2>5, <2>6 DEF SInv
  <1> QED
    BY <1>15, <1>16, <1>17

LEMMA NextPendingConnectionKeeps ==
    ASSUME SInv, NextPendingConnection
    PROVE  SInv'
  <1> USE DEF SInv
  <1>1. Connections' /\ Handshakes'
    BY DEF Connections, Handshakes, NextPendingConnection
  <1> DEFINE old == pendingConnections
             new == pendingConnections'
  <1>2. CASE old = << >>
    <2>1. /\ defined' = FALSE /\ new = old /\ taken' = taken /\ dropped' = dropped
          /\ signals' = signals - 1 /\ signals > 0 /\ conn' = conn
      BY <1>2 DEF NextPendingConnection
    <2>2. Len(old) = 0
      BY <1>2
    <2>3. dropped # {}
      BY <2>1, <2>2 DEF Sockets
    <2>4. \A c \in Conns : Pending(c)' <=> Pending(c)
      BY <2>1 DEF Pending
    <2>5. signals' \in Nat /\ signals' >= Len(new)
      BY <2>1, <2>2 DEF Sockets
    <2>6. Sockets'
      BY <2>1, <2>3, <2>4, <2>5 DEF Sockets
    <2> QED
      BY <1>1, <2>6
  <1>3. CASE old # << >>
    <2> DEFINE l == Len(old)
               x == Head(old)
    <2>1. /\ defined' = defined /\ new = Tail(old) /\ taken' = taken \cup {x}
          /\ dropped' = dropped /\ signals' = signals - 1 /\ signals > 0 /\ conn' = conn
      BY <1>3 DEF NextPendingConnection
    <2>2. old \in Seq(Conns) /\ signals \in Nat
      BY DEF Sockets
    <2>3. /\ x \in Conns /\ new \in Seq(Conns) /\ Len(new) = l - 1
          /\ \A i \in 1 .. l - 1 : new[i] = old[i + 1]
      BY <1>3, <2>1, <2>2, HeadTailProperties
    <2>4. l \in Nat \ {0} /\ x = old[1]
      BY <1>3, <2>2, EmptySeq
    <2>5. \A c \in Conns : Pending(c) <=> c = x \/ Pending(c)'
      <3> TAKE c \in Conns
      <3>1. ASSUME Pending(c), c # x
            PROVE  Pending(c)'
        <4>1. PICK i \in 1 .. l : old[i] = c
          BY <3>1 DEF Pending
        <4>2. i # 1
          BY <2>4, <3>1, <4>1
        <4>3. i - 1 \in 1 .. l - 1 /\ i - 1 + 1 = i
          BY <2>4, <4>2
        <4>4. new[i - 1] = c
          BY <2>3, <4>1, <4>3
        <4> QED
          BY <2>3, <4>3, <4>4 DEF Pending
      <3>2. ASSUME Pending(c)'
            PROVE  Pending(c)
        <4>1. PICK i \in 1 .. l - 1 : new[i] = c
          BY <2>3, <3>2 DEF Pending
        <4>2. i + 1 \in 1 .. l /\ old[i + 1] = c
          BY <2>3, <2>4, <4>1
        <4> QED
          BY <4>2 DEF Pending
      <3>3. Pending(x)
        BY <2>4 DEF Pending
      <3> QED
        BY <3>1, <3>2, <3>3
    <2>6. \A c \in Conns : Pending(c)' => c # x
      <3>1. ASSUME NEW i \in 1 .. l - 1, new[i] = x
            PROVE  FALSE
        <4>1. i + 1 \in 1 .. l /\ 1 \in 1 .. l /\ old[i + 1] = old[1]
          BY <2>3, <2>4, <3>1
        <4>2. i + 1 = 1
          BY <4>1 DEF Sockets
        <4> QED
          BY <2>4, <4>2
      <3> QED
        BY <2>3, <3>1 DEF Pending
    <2>7. \A i, j \in 1 .. Len(new) : new[i] = new[j] => i = j
      <3> SUFFICES ASSUME NEW i \in 1 .. l - 1, NEW j \in 1 .. l - 1, new[i] = new[j]
                   PROVE  i = j
        BY <2>3
      <3>1. i + 1 \in 1 .. l /\ j + 1 \in 1 .. l /\ old[i + 1] = old[j + 1]
        BY <2>3, <2>4
      <3>2. i + 1 = j + 1
        BY <3>1 DEF Sockets
      <3> QED
        BY <2>4, <3>2
    <2>8. x \notin taken /\ x \notin dropped
      BY <2>3, <2>5 DEF Sockets
    <2>9. /\ Len(new) <= MaxPending /\ signals' >= Len(new) /\ signals' \in Nat
          /\ signals' > Len(new) \/ defined' = FALSE => dropped' # {}
      BY <2>1, <2>2, <2>3, <2>4, ServerAssumption DEF Sockets, ServerAssumption
    <2> HIDE DEF x, l
    <2>10. Sockets'
      BY <2>1, <2>3, <2>5, <2>6, <2>7, <2>8, <2>9 DEF Sockets
    <2> QED
      BY <1>1, <2>10
  <1> QED
    BY <1>2, <1>3

LEMMA CloseKeeps ==
    ASSUME SInv, Close
    PROVE  SInv'
  BY DEF SInv, Close, queue, Connections, Handshakes, Sockets, Pending

LEMMA StutterKeeps ==
    ASSUME SInv, UNCHANGED vars
    PROVE  SInv'
  BY DEF SInv, vars, queue, Connections, Handshakes, Sockets, Pending

(* The invariant holds in every state of every run of the server.          *)
THEOREM Invariance == Spec => []SInv
  <1>1. SInv /\ [Next]_vars => SInv'
    BY NewConnectionKeeps, IncomingConnectionKeeps, TlsSocketEncryptedKeeps, SegmentKeeps,
       DisconnectedKeeps, NextPendingConnectionKeeps, CloseKeeps, StutterKeeps
    DEF Next
  <1>2. QED
    BY InitSInv, <1>1, PTL DEF Spec

(* The types of the server's state.                                        *)
THEOREM TypeCorrect == Spec => []TypeOK
  <1>1. SInv => TypeOK
    <2> SUFFICES ASSUME SInv
                 PROVE  TypeOK
      OBVIOUS
    <2>1. ASSUME NEW c \in Conns
          PROVE  /\ conn[c].state \in {"none", "stuck", "encrypting", "handshake", "closing",
                                       "open", "ended"}
                 /\ conn[c].object \in {"none", "orphan", "tcp", "ws", "deleted"}
                 /\ conn[c].read <= conn[c].arrived
                 /\ conn[c].arrived <= Len(conn[c].request)
                 /\ conn[c].answer \in {"none", "101", "400"}
      BY DEF SInv, Connections, Good, Readable, Connection
    <2>2. {tls, listening, defined} \subseteq BOOLEAN
      BY DEF SInv, Connections, Sockets
    <2>3. \A c \in DOMAIN handshakeBuffer : handshakeBuffer[c] \in Handshake
      BY DEF SInv, Handshakes
    <2> QED
      BY <2>1, <2>2, <2>3 DEF SInv, Sockets, TypeOK, Handshake
  <1>2. QED
    BY Invariance, <1>1, PTL

(* The answer to a request does not depend on how it was divided.          *)
THEOREM AnswersDeserved == Spec => []VerdictOfRequest
  <1>1. SInv => VerdictOfRequest
    BY DEF SInv, Connections, Deserved, VerdictOfRequest
  <1>2. QED
    BY Invariance, <1>1, PTL

(* No accepted socket is lost, except by a full queue, or handed out twice. *)
THEOREM SocketsOnce == Spec => []EachSocketOnce
  <1>1. SInv => EachSocketOnce
    <2> SUFFICES ASSUME SInv
                 PROVE  EachSocketOnce
      OBVIOUS
    <2>1. ASSUME NEW c \in Conns
          PROVE  Queued(c) = IF Pending(c) THEN 1 ELSE 0
      <3> DEFINE places == { i \in DOMAIN pendingConnections : pendingConnections[i] = c }
      <3>1. DOMAIN pendingConnections = 1 .. Len(pendingConnections)
        BY DEF SInv, Sockets
      <3>2. CASE Pending(c)
        <4>1. PICK i \in 1 .. Len(pendingConnections) : pendingConnections[i] = c
          BY <3>2 DEF Pending
        <4>2. places = {i}
          BY <3>1, <4>1 DEF SInv, Sockets
        <4>3. Cardinality(places) = 1
          <5> HIDE DEF places
          <5> QED
            BY <4>2, FS_Singleton
        <4> QED
          BY <3>2, <4>3 DEF Queued
      <3>3. CASE ~Pending(c)
        <4>1. places = {}
          BY <3>1, <3>3 DEF Pending
        <4>2. Cardinality(places) = 0
          <5> HIDE DEF places
          <5> QED
            BY <4>1, FS_EmptySet
        <4> QED
          BY <3>3, <4>2 DEF Queued
      <3> QED
        BY <3>2, <3>3
    <2>2. ASSUME NEW c \in Conns
          PROVE  Queued(c) + (IF c \in taken THEN 1 ELSE 0) + (IF c \in dropped THEN 1 ELSE 0)
                   = IF conn[c].answer = "101" THEN 1 ELSE 0
      <3>1. /\ ~(c \in taken /\ c \in dropped)
            /\ Pending(c) => c \notin taken /\ c \notin dropped
            /\ conn[c].answer = "101" <=> c \in taken \/ c \in dropped \/ Pending(c)
        BY DEF SInv, Sockets
      <3> QED
        BY <2>1, <3>1
    <2> QED
      BY <2>2 DEF SInv, Sockets, EachSocketOnce
  <1>2. QED
    BY Invariance, <1>1, PTL

(* No handshake outlives its connection, and no socket but one that ended  *)
(* before TLS was up.                                                      *)
THEOREM NothingLeft == Spec => []NothingLeaks
  <1>1. SInv => NothingLeaks
    BY DEF SInv, Connections, Handshakes, Good, NothingLeaks
  <1>2. QED
    BY Invariance, <1>1, PTL
=============================================================================
