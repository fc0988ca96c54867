---------------------------- MODULE ConfigProofs ----------------------------
(***************************************************************************)
(* The configuration, for any files of any length, edits and topic ids:    *)
(* what three passes over MQTT.CON leave is what the file says as a whole, *)
(* and a lookup in TOPICS.PRE finds the first entry.  The inductive        *)
(* invariant says what is known of each key after the lines read so far.   *)
(***************************************************************************)
EXTENDS Configuration, SequenceTheorems, TLAPS

Phase ==
  Passes \cup {"idle", "open", "connect", "answer", "online", "lookup", "looked"}

\* Type invariant.
Typed ==
  /\ con \in Seq(ConLine) /\ pre \in Seq(PreLine)
  /\ at \in Phase /\ pos \in Nat \ {0}
  /\ has \subseteq Key /\ val \in [Key -> Seq(Int)]
  /\ look \in [id : Int, name : STRING \cup {NoTopic}]

---------------------------------------------------------------------------
(* TOPICS.PRE. *)

\* Line i of TOPICS.PRE is an entry for the id looked up.
Match(i) == Entry(pre[i]) /\ pre[i].id % 65536 = look.id

\* A lookup has no name yet, and the lines before pos are no entries for its id.
Searching ==
  at = "lookup" =>
    look.name = NoTopic /\ \A j \in 1..(pos - 1) : j \in DOMAIN pre /\ pre[j].size > 0 /\ ~Match(j)

LEMMA MinIs ==
  ASSUME NEW S, S \subseteq Int, NEW m \in S, \A y \in S : m <= y
  PROVE  Min(S) = m
<1>1. \E x \in S : \A y \in S : x <= y OBVIOUS
<1>2. Min(S) \in S /\ \A y \in S : Min(S) <= y BY <1>1, Zenon DEF Min
<1>3. Min(S) \in Int /\ m \in Int /\ Min(S) <= m /\ m <= Min(S) BY <1>2
<1> QED BY <1>3

LEMMA MaxIs ==
  ASSUME NEW S, S \subseteq Int, NEW m \in S, \A y \in S : y <= m
  PROVE  Max(S) = m
<1>1. \E x \in S : \A y \in S : x >= y OBVIOUS
<1>2. Max(S) \in S /\ \A y \in S : Max(S) >= y BY <1>1, Zenon DEF Max
<1>3. Max(S) \in Int /\ m \in Int /\ Max(S) >= m /\ m >= Max(S) BY <1>2
<1> QED BY <1>3

\* Type correctness.
LEMMA TypedInit == Init => Typed
<1> SUFFICES ASSUME Init PROVE Typed OBVIOUS
<1>1. PICK c \in Configs : con = c[1] /\ pre = c[2] BY DEF Init
<1>2. con \in Seq(ConLine) /\ pre \in Seq(PreLine) BY <1>1, ConfigurationAssumption
<1>3. val \in [Key -> Seq(Int)] BY DEF Init
<1>4. look \in [id : Int, name : STRING \cup {NoTopic}]
  <2>1. look = [id |-> 0, name |-> NoTopic] BY DEF Init
  <2> QED BY <2>1
<1> QED BY <1>2, <1>3, <1>4 DEF Init, Typed, Phase

\* A line of MQTT.CON.
LEMMA LineType ==
  ASSUME NEW f \in Seq(ConLine), NEW i \in DOMAIN f
  PROVE  /\ f[i] \in ConLine
         /\ f[i].key \in STRING /\ f[i].size \in Nat /\ f[i].len \in Nat /\ f[i].nums \in Seq(Int)
         /\ f[i].key \in Texts => Len(f[i].nums) = f[i].len
         /\ f[i].key \in Numbers => Len(f[i].nums) = 1
<1>1. f[i] \in ConLine BY ElementOfSeq
<1> QED BY <1>1 DEF ConLine


---------------------------------------------------------------------------
(* Lines of MQTT.CON. *)

\* A text is copied over what was there, whose end stays.
LEMMA CopiedText ==
  ASSUME NEW n \in Seq(Int), NEW old \in Seq(Int)
  PROVE  LET v == n \o SubSeq(old, Len(n) + 1, Len(old))
         IN  /\ v \in Seq(Int)
             /\ Len(v) = IF Len(n) > Len(old) THEN Len(n) ELSE Len(old)
             /\ \A i \in 1..Len(n) : v[i] = n[i]
             /\ \A i \in (Len(n) + 1)..Len(old) : v[i] = old[i]
<1> DEFINE e == SubSeq(old, Len(n) + 1, Len(old))
<1>1. Len(n) \in Nat /\ Len(old) \in Nat OBVIOUS
<1>2. CASE Len(n) > Len(old)
  <2>1. e = <<>> BY <1>1, <1>2
  <2>2. n \o e = n BY <2>1, ConcatEmptySeq
  <2> QED BY <1>1, <1>2, <2>2
<1>3. CASE Len(n) <= Len(old)
  <2>1. /\ e \in Seq(Int) /\ Len(e) = Len(old) - Len(n)
        /\ \A i \in 1..(Len(old) - Len(n)) : e[i] = old[Len(n) + i]
    BY <1>1, <1>3
  <2> HIDE DEF e
  <2>2. /\ n \o e \in Seq(Int) /\ Len(n \o e) = Len(old)
        /\ \A i \in 1..Len(n) : (n \o e)[i] = n[i]
        /\ \A i \in (Len(n) + 1)..Len(old) : (n \o e)[i] = e[i - Len(n)]
    BY <1>1, <1>3, <2>1
  <2>3. ASSUME NEW i \in (Len(n) + 1)..Len(old) PROVE (n \o e)[i] = old[i]
    <3>1. i - Len(n) \in 1..(Len(old) - Len(n)) /\ Len(n) + (i - Len(n)) = i BY <1>1
    <3> QED BY <2>1, <2>2, <3>1
  <2> QED BY <1>1, <1>3, <2>2, <2>3 DEF e
<1> QED BY <1>1, <1>2, <1>3

\* What a line is parsed to: whether it is good does not depend on what was there.
LEMMA ParsedLine ==
  ASSUME NEW l \in ConLine, l.key \in Key, NEW old \in Seq(Int)
  PROVE  /\ Parsed(l, old).ok <=> Parsed(l, <<>>).ok
         /\ Parsed(l, old).val \in Seq(Int)
         /\ l.key \notin Texts => Parsed(l, old).val = Parsed(l, <<>>).val
         /\ l.key \in Texts => /\ Parsed(l, old).ok <=> l.len > 0
                               /\ Parsed(l, old).val = l.nums \o SubSeq(old, l.len + 1, Len(old))
<1>1. /\ l.len \in Nat /\ l.nums \in Seq(Int)
      /\ l.key \in Texts => Len(l.nums) = l.len
      /\ l.key \in Numbers => Len(l.nums) = 1
  BY DEF ConLine
<1>2. CASE l.key = "brokeraddress"
  <2>1. \A s : Parsed(l, s) = parse_ipaddress(l) BY <1>2 DEF Parsed
  <2>2. parse_ipaddress(l).val = [i \in DOMAIN l.nums |-> l.nums[i] % 65536] BY DEF parse_ipaddress
  <2>3. [i \in DOMAIN l.nums |-> l.nums[i] % 65536] \in Seq(Int)
    <3>1. DOMAIN l.nums = 1..Len(l.nums) /\ Len(l.nums) \in Nat BY <1>1
    <3>2. \A i \in 1..Len(l.nums) : l.nums[i] % 65536 \in Int BY <1>1
    <3> DEFINE g == [i \in 1..Len(l.nums) |-> l.nums[i] % 65536]
    <3>3. g \in [1..Len(l.nums) -> Int] BY <3>2
    <3> HIDE DEF g
    <3>4. g \in Seq(Int) BY <3>1, <3>3, SeqDef
    <3> QED BY <3>1, <3>4 DEF g
  <2> QED BY <1>2, <2>1, <2>2, <2>3 DEF Texts
<1>3. CASE l.key = "brokerport"
  <2>1. \A s : Parsed(l, s) = parse_uint16_t(l) BY <1>3 DEF Parsed
  <2>2. parse_uint16_t(l).val = <<l.nums[1] % 65536>> BY DEF parse_uint16_t
  <2>3. l.nums[1] \in Int BY <1>1, <1>3 DEF Numbers
  <2>4. l.nums[1] % 65536 \in Int BY <2>3
  <2>5. \A x \in Int : <<x>> \in Seq(Int) OBVIOUS
  <2>6. l.key \notin Texts BY <1>3 DEF Texts
  <2>7. parse_uint16_t(l).val \in Seq(Int) BY <2>2, <2>4, <2>5
  <2>8. Parsed(l, old).val \in Seq(Int) /\ Parsed(l, <<>>).val = Parsed(l, old).val BY <2>1, <2>7
  <2> QED BY <2>1, <2>6, <2>8, Zenon
<1>4. CASE l.key \in {"willqos", "willretain"}
  <2>1. \A s : Parsed(l, s) = parse_uint8_t(l) BY <1>4 DEF Parsed
  <2>2. parse_uint8_t(l).val = <<l.nums[1] % 256>> BY DEF parse_uint8_t
  <2>3. l.nums[1] \in Int BY <1>1, <1>4 DEF Numbers
  <2>4. l.nums[1] % 256 \in Int BY <2>3
  <2>5. \A x \in Int : <<x>> \in Seq(Int) OBVIOUS
  <2>6. l.key \notin Texts BY <1>4 DEF Texts
  <2>7. \A s : Parsed(l, s).val \in Seq(Int) BY <2>1, <2>2, <2>4, <2>5, Zenon
  <2> QED BY <2>1, <2>6, <2>7, Zenon
<1>5. CASE l.key \in Texts
  <2>1. \A s : Parsed(l, s) = parse_string(l, s) BY <1>5 DEF Parsed, Texts
  <2>2. \A s : /\ parse_string(l, s).ok <=> l.len > 0
               /\ parse_string(l, s).val = l.nums \o SubSeq(s, l.len + 1, Len(s))
    BY DEF parse_string
  <2>3. l.nums \o SubSeq(old, l.len + 1, Len(old)) \in Seq(Int) BY <1>1, <1>5, CopiedText
  <2> QED BY <1>5, <2>1, <2>2, <2>3
<1> QED BY <1>2, <1>3, <1>4, <1>5 DEF Key, ConfigKeys, LoginKeys, WillKeys, Texts

\* m is the last of the lines S.
Last(S, m) == m \in S /\ \A j \in S : j <= m

(***************************************************************************)
(* What the lines S of key k, of the lines f of the file, leave in the     *)
(* keys H a value was found for and the values V: the last line decides    *)
(* whether there is a value (for willretain any good one), the value is    *)
(* that of the last good line, and a character of a text that of the last  *)
(* good line which is long enough.                                         *)
(***************************************************************************)
Known(f, k, S, H, V) ==
  /\ S = {} \/ \E m \in S : Last(S, m)
  /\ k \in H <=> IF k = "willretain" THEN \E i \in S : Good(f[i])
                 ELSE \E m \in S : Last(S, m) /\ Good(f[m])
  /\ k \in H /\ k \notin Texts =>
       \E i \in S : Last({j \in S : Good(f[j])}, i) /\ V[k] = Parsed(f[i], <<>>).val
  /\ k \in Texts =>
       /\ \A i \in S : Good(f[i]) => f[i].len <= Len(V[k])
       /\ \A c \in 1..Len(V[k]) :
            \E i \in S : Last({j \in S : Good(f[j]) /\ f[j].len >= c}, i) /\ V[k][c] = f[i].nums[c]

\* The next line of the key.
LEMMA KnownRead ==
  ASSUME NEW f \in Seq(ConLine), NEW k \in Key, NEW S, NEW H, NEW V, Known(f, k, S, H, V), V[k] \in Seq(Int),
         NEW n \in DOMAIN f, \A i \in S : i \in Nat /\ i < n /\ i \in DOMAIN f /\ f[i].key = k, f[n].key = k,
         NEW G, NEW W,
         Good(f[n]) => k \in G /\ W[k] = Parsed(f[n], V[k]).val,
         ~Good(f[n]) => /\ IF k = "willretain" THEN k \in G <=> k \in H ELSE k \notin G
                        /\ W[k] = V[k]
  PROVE  Known(f, k, S \cup {n}, G, W)
<1> DEFINE T == S \cup {n}
           Gd(R) == {j \in R : Good(f[j])}
           Lg(R, c) == {j \in R : Good(f[j]) /\ f[j].len >= c}
<1>1. n \in Nat /\ Last(T, n) BY DEF Last
<1>2. \A m \in T : Last(T, m) => m = n BY <1>1 DEF Last
<1>3. f[n] \in ConLine BY ElementOfSeq
<1>4. k \in G <=> IF k = "willretain" THEN \E i \in T : Good(f[i])
                  ELSE \E m \in T : Last(T, m) /\ Good(f[m])
  <2>1. CASE k = "willretain" BY <2>1 DEF Known
  <2>2. CASE k # "willretain" BY <1>1, <1>2, <2>2
  <2> QED BY <2>1, <2>2
<1>5. ASSUME k \in G, k \notin Texts
      PROVE  \E i \in T : Last(Gd(T), i) /\ W[k] = Parsed(f[i], <<>>).val
  <2>1. CASE Good(f[n])
    <3>1. Last(Gd(T), n) BY <1>1, <2>1 DEF Last
    <3>2. W[k] = Parsed(f[n], <<>>).val BY <1>3, <1>5, <2>1, ParsedLine
    <3> QED BY <3>1, <3>2
  <2>2. CASE ~Good(f[n])
    <3>1. k \in H /\ W[k] = V[k] BY <1>5, <2>2
    <3>2. PICK i \in S : Last(Gd(S), i) /\ V[k] = Parsed(f[i], <<>>).val BY <1>5, <3>1 DEF Known
    <3>3. Gd(T) = Gd(S) BY <2>2
    <3> QED BY <3>1, <3>2, <3>3
  <2> QED BY <2>1, <2>2
<1>6. ASSUME k \in Texts
      PROVE  /\ \A i \in T : Good(f[i]) => f[i].len <= Len(W[k])
             /\ \A c \in 1..Len(W[k]) : \E i \in T : Last(Lg(T, c), i) /\ W[k][c] = f[i].nums[c]
  <2>1. /\ \A i \in S : Good(f[i]) => f[i].len <= Len(V[k])
        /\ \A c \in 1..Len(V[k]) : \E i \in S : Last(Lg(S, c), i) /\ V[k][c] = f[i].nums[c]
    BY <1>6 DEF Known
  <2>2. CASE ~Good(f[n])
    <3>1. W[k] = V[k] /\ \A c : Lg(T, c) = Lg(S, c) BY <2>2
    <3>2. \A i \in T : Good(f[i]) => i \in S BY <2>2
    <3> HIDE DEF T, Lg
    <3>3. S \subseteq T BY DEF T
    <3> QED BY <2>1, <3>1, <3>2, <3>3
  <2>3. CASE Good(f[n])
    <3> DEFINE q == f[n].nums
               old == V[k]
               v == q \o SubSeq(old, Len(q) + 1, Len(old))
    <3>1. q \in Seq(Int) /\ Len(q) = f[n].len BY <1>6, LineType
    <3>2. W[k] = v BY <1>3, <1>6, <2>3, <3>1, ParsedLine
    <3>0. old \in Seq(Int) OBVIOUS
    <3> HIDE DEF q, old
    <3>3. /\ Len(v) = IF Len(q) > Len(old) THEN Len(q) ELSE Len(old)
          /\ \A i \in 1..Len(q) : v[i] = q[i]
          /\ \A i \in (Len(q) + 1)..Len(old) : v[i] = old[i]
      BY <3>0, <3>1, CopiedText
    <3> HIDE DEF v
    <3> USE DEF q, old
    <3>4. Len(q) \in Nat /\ Len(V[k]) \in Nat BY <3>1
    <3>5. ASSUME NEW i \in T, Good(f[i]) PROVE f[i].len <= Len(W[k])
      <4>1. i = n => f[i].len <= Len(W[k]) BY <3>1, <3>2, <3>3, <3>4
      <4>2. i \in S => f[i].len <= Len(W[k])
        <5> SUFFICES ASSUME i \in S PROVE f[i].len <= Len(W[k]) OBVIOUS
        <5>1. f[i].len <= Len(V[k]) BY <2>1, <3>5
        <5>2. f[i].len \in Nat BY LineType
        <5> QED BY <3>2, <3>3, <3>4, <5>1, <5>2
      <4> QED BY <4>1, <4>2
    <3>6. ASSUME NEW c \in 1..Len(W[k])
          PROVE  \E i \in T : Last(Lg(T, c), i) /\ W[k][c] = f[i].nums[c]
      <4>1. CASE c <= Len(q)
        <5>1. Last(Lg(T, c), n) BY <1>1, <2>3, <3>1, <3>4, <4>1 DEF Last
        <5>2. W[k][c] = f[n].nums[c] BY <3>2, <3>3, <3>4, <4>1
        <5> QED BY <5>1, <5>2
      <4>2. CASE c > Len(q)
        <5>1. c \in 1..Len(V[k]) /\ c \in (Len(q) + 1)..Len(V[k]) BY <3>2, <3>3, <3>4, <4>2
        <5>2. PICK i \in S : Last(Lg(S, c), i) /\ V[k][c] = f[i].nums[c] BY <2>1, <5>1
        <5>3. Lg(T, c) = Lg(S, c) BY <3>1, <3>4, <4>2
        <5>4. W[k][c] = V[k][c] BY <3>2, <3>3, <5>1
        <5> QED BY <5>2, <5>3, <5>4
      <4>3. c \in Nat /\ Len(q) \in Nat BY <3>4
      <4>4. c <= Len(q) \/ c > Len(q) BY <4>3
      <4> QED BY <4>1, <4>2, <4>4, Zenon
    <3> QED BY <3>5, <3>6
  <2> QED BY <2>2, <2>3
<1>7. T = {} \/ \E m \in T : Last(T, m) BY <1>1
<1> HIDE DEF T
<1>8. Known(f, k, T, G, W) BY <1>4, <1>5, <1>6, <1>7 DEF Known
<1> QED BY <1>8 DEF T

---------------------------------------------------------------------------
(* The file as a whole. *)

LEMMA LinesAre ==
  ASSUME con \in Seq(ConLine), NEW k
  PROVE  /\ LinesOf(k) \subseteq DOMAIN con /\ LinesOf(k) \subseteq Nat
         /\ GoodLines(k) = {i \in LinesOf(k) : Good(con[i])}
<1>1. DOMAIN con = 1..Len(con) /\ Len(con) \in Nat OBVIOUS
<1> QED BY <1>1 DEF LinesOf, GoodLines

\* When all its lines are read, a key has a value exactly if the file has one for it.
LEMMA KnownComplete ==
  ASSUME con \in Seq(ConLine), NEW k \in Key, Known(con, k, LinesOf(k), has, val)
  PROVE  k \in has <=> IF k = "willretain" THEN GoodLines(k) # {}
                       ELSE LinesOf(k) # {} /\ Max(LinesOf(k)) \in GoodLines(k)
<1>1. LinesOf(k) \subseteq Int /\ GoodLines(k) = {i \in LinesOf(k) : Good(con[i])} BY LinesAre
<1>2. ASSUME NEW m, Last(LinesOf(k), m) PROVE Max(LinesOf(k)) = m BY <1>1, <1>2, MaxIs DEF Last
<1>3. CASE k = "willretain" BY <1>1, <1>3 DEF Known
<1>4. CASE k # "willretain"
  <2>1. k \in has <=> \E m \in LinesOf(k) : Last(LinesOf(k), m) /\ Good(con[m]) BY <1>4 DEF Known
  <2>2. LinesOf(k) = {} \/ \E m \in LinesOf(k) : Last(LinesOf(k), m) BY DEF Known
  <2> QED BY <1>1, <1>2, <1>4, <2>1, <2>2
<1> QED BY <1>3, <1>4

\* A key with a value has a good line, and its value is the one configured.
LEMMA KnownValue ==
  ASSUME con \in Seq(ConLine), NEW k \in Key, Known(con, k, LinesOf(k), has, val), val[k] \in Seq(Int),
         k \in has
  PROVE  val[k] = Configured(k)
<1> DEFINE Lg(c) == {i \in GoodLines(k) : con[i].len >= c}
           lens == {con[i].len : i \in GoodLines(k)}
<1>1. LinesOf(k) \subseteq Int /\ LinesOf(k) \subseteq DOMAIN con
      /\ GoodLines(k) = {i \in LinesOf(k) : Good(con[i])}
  BY LinesAre
<1>2. CASE k \notin Texts
  <2>1. PICK i \in LinesOf(k) : Last(GoodLines(k), i) /\ val[k] = Parsed(con[i], <<>>).val
    BY <1>1, <1>2 DEF Known
  <2>2. Max(GoodLines(k)) = i BY <1>1, <2>1, MaxIs DEF Last
  <2>3. k \in {"brokeraddress", "brokerport", "willqos", "willretain"}
    BY <1>2 DEF Key, ConfigKeys, LoginKeys, WillKeys, Texts
  <2> QED BY <2>1, <2>2, <2>3 DEF Configured
<1>3. CASE k \in Texts
  <2>1. /\ \A i \in LinesOf(k) : Good(con[i]) => con[i].len <= Len(val[k])
        /\ \A c \in 1..Len(val[k]) : \E i \in LinesOf(k) : Last(Lg(c), i) /\ val[k][c] = con[i].nums[c]
    <3>1. \A c : Lg(c) = {j \in LinesOf(k) : Good(con[j]) /\ con[j].len >= c} BY <1>1
    <3> QED BY <1>3, <3>1 DEF Known
  <2>2. Len(val[k]) \in Nat /\ Len(val[k]) # 0
    <3>1. PICK m \in LinesOf(k) : Good(con[m]) BY <1>3 DEF Known, Texts
    <3>2. con[m] \in ConLine /\ con[m].key = k /\ con[m].len \in Nat BY <1>1, LineType DEF LinesOf
    <3>3. con[m].len > 0 BY <1>3, <3>1, <3>2, ParsedLine, EmptySeq DEF Good
    <3>4. con[m].len <= Len(val[k]) BY <2>1, <3>1
    <3> QED BY <3>2, <3>3, <3>4
  <2>3. \A i \in GoodLines(k) : con[i].len \in Nat BY <1>1, LineType
  <2>4. lens \subseteq Int BY <2>3
  <2>5. PICK i \in LinesOf(k) : Last(Lg(Len(val[k])), i)
    <3> HIDE DEF Lg
    <3>1. Len(val[k]) \in 1..Len(val[k]) BY <2>2
    <3> QED BY <2>1, <3>1
  <2>6. i \in GoodLines(k) /\ con[i].len >= Len(val[k]) BY <2>5 DEF Last
  <2>7. con[i].len = Len(val[k]) BY <1>1, <2>1, <2>2, <2>3, <2>6
  <2>8. Len(val[k]) \in lens /\ \A x \in lens : x <= Len(val[k]) BY <1>1, <2>1, <2>6, <2>7
  <2>9. Max(lens) = Len(val[k]) BY <2>4, <2>8, MaxIs
  <2>10. ASSUME NEW c \in 1..Len(val[k]) PROVE val[k][c] = con[Max(Lg(c))].nums[c]
    <3>1. PICK j \in LinesOf(k) : Last(Lg(c), j) /\ val[k][c] = con[j].nums[c] BY <2>1
    <3>2. Max(Lg(c)) = j BY <1>1, <3>1, MaxIs DEF Last
    <3> QED BY <3>1, <3>2
  <2>11. val[k] = [c \in 1..Len(val[k]) |-> con[Max(Lg(c))].nums[c]]
    <3> HIDE DEF Lg
    <3>1. val[k] = [c \in 1..Len(val[k]) |-> val[k][c]] OBVIOUS
    <3> QED BY <2>10, <3>1, Zenon
  <2>12. Configured(k) = [c \in 1..Max(lens) |-> con[Max(Lg(c))].nums[c]]
    BY <1>3, Zenon DEF Configured, Texts
  <2> QED BY <2>9, <2>11, <2>12
<1> QED BY <1>2, <1>3

\* All keys of a set have a value exactly if the file is complete for them.
LEMMA KnownKeys ==
  ASSUME con \in Seq(ConLine), NEW keys, keys \subseteq Key,
         \A k \in keys : Known(con, k, LinesOf(k), has, val)
  PROVE  keys \subseteq has <=> Complete(keys)
<1>1. \A k \in keys : k \in has <=> IF k = "willretain" THEN GoodLines(k) # {}
                                    ELSE LinesOf(k) # {} /\ Max(LinesOf(k)) \in GoodLines(k)
  BY KnownComplete
<1> QED BY <1>1 DEF Complete

\* What a good line says of the server is usable.
LEMMA ServerLine ==
  ASSUME NEW l \in ConLine, Good(l)
  PROVE  LET v == Parsed(l, <<>>).val
         IN  /\ l.key = "brokeraddress" => DOMAIN v = 1..4 /\ \A i \in 1..4 : v[i] \in 0..255
             /\ l.key = "brokerport" => 0 < v[1] /\ v[1] < 65536
<1> DEFINE v == Parsed(l, <<>>).val
<1>1. l.nums \in Seq(Int) /\ (l.key \in Numbers => Len(l.nums) = 1) BY DEF ConLine
<1>2. ASSUME l.key = "brokeraddress" PROVE DOMAIN v = 1..4 /\ \A i \in 1..4 : v[i] \in 0..255
  <2> DEFINE octets == [i \in DOMAIN l.nums |-> l.nums[i] % 65536]
  <2>1. parse_ipaddress(l).ok /\ v = parse_ipaddress(l).val BY <1>2, Zenon DEF Good, Parsed
  <2> HIDE DEF v
  <2>2. v = octets BY <2>1 DEF parse_ipaddress
  <2>3. DOMAIN octets = 1..4 /\ \A i \in DOMAIN octets : octets[i] <= 255
    <3> DEFINE fine == l.len \in 8..16 /\ DOMAIN octets = 1..4 /\ \A i \in DOMAIN octets : octets[i] <= 255
    <3>1. parse_ipaddress(l) = [ok |-> fine, val |-> octets] /\ fine \in BOOLEAN BY DEF parse_ipaddress
    <3> HIDE DEF fine
    <3>2. fine BY <2>1, <3>1
    <3> QED BY <3>2 DEF fine
  <2>4. DOMAIN octets = DOMAIN l.nums OBVIOUS
  <2>5. \A i \in DOMAIN l.nums : octets[i] \in Nat
    <3>1. \A i \in DOMAIN l.nums : l.nums[i] \in Int BY <1>1
    <3> QED BY <3>1
  <2> HIDE DEF octets
  <2>6. \A i \in 1..4 : octets[i] \in 0..255 BY <2>3, <2>4, <2>5
  <2> QED BY <2>2, <2>3, <2>6, Zenon
<1>3. ASSUME l.key = "brokerport" PROVE 0 < v[1] /\ v[1] < 65536
  <2>1. parse_uint16_t(l).ok /\ v = parse_uint16_t(l).val BY <1>3, Zenon DEF Good, Parsed
  <2> HIDE DEF v
  <2>2. v = <<l.nums[1] % 65536>> /\ l.nums[1] % 65536 # 0
    <3> DEFINE p == l.nums[1] % 65536
           fine == l.len \in 1..6 /\ p # 0
    <3>1. parse_uint16_t(l) = [ok |-> fine, val |-> <<p>>] /\ fine \in BOOLEAN BY DEF parse_uint16_t
    <3> HIDE DEF p, fine
    <3>2. parse_uint16_t(l).ok = fine /\ parse_uint16_t(l).val = <<p>> BY <3>1
    <3>3. v = <<p>> BY <2>1, <3>2
    <3>4. p # 0 BY <2>1, <3>2 DEF fine
    <3> QED BY <3>3, <3>4 DEF p
  <2>3. l.nums[1] \in Int BY <1>1, <1>3 DEF Numbers
  <2> QED BY <2>2, <2>3
<1> HIDE DEF v
<1>4. QED BY <1>2, <1>3 DEF v

\* A value stems from a good line of its key.
LEMMA KnownLine ==
  ASSUME con \in Seq(ConLine), NEW k, k \notin Texts, NEW S, S \subseteq LinesOf(k), k \in has,
         Known(con, k, S, has, val)
  PROVE  \E m \in DOMAIN con : con[m] \in ConLine /\ con[m].key = k /\ Good(con[m])
                               /\ val[k] = Parsed(con[m], <<>>).val
<1>1. PICK m \in S : Last({j \in S : Good(con[j])}, m) /\ val[k] = Parsed(con[m], <<>>).val BY DEF Known
<1>2. m \in DOMAIN con /\ con[m].key = k /\ Good(con[m]) BY <1>1 DEF Last, LinesOf
<1>3. con[m] \in ConLine BY <1>2, LineType
<1> QED BY <1>1, <1>2, <1>3

---------------------------------------------------------------------------
(* The inductive invariant. *)

\* A pass has read the lines before pos, and none of them is empty.
Scanned ==
  at \in Passes => \A j \in 1..(pos - 1) : j \in DOMAIN con /\ con[j].size > 0

\* The pass that reads the key comes later.
Later(k) == (at = "config" /\ k \notin ConfigKeys) \/ (at = "login" /\ k \in WillKeys)

\* The lines of the key that were read in this attempt.
Seen(k) == {i \in LinesOf(k) : ~Later(k) /\ (at \in Passes /\ k \in KeysOf(at) => i < pos)}

\* What is known of each key until the CONNECT is sent.
Gathered ==
  at \in Passes \cup {"open", "connect"} => \A k \in Key : Known(con, k, Seen(k), has, val)

\* After the first pass there is a broker, a port and a client id.
Enough == at \in {"login", "will", "open", "connect"} => ConfigKeys \subseteq has

CInv ==
  /\ Typed /\ Scanned /\ Gathered /\ Enough /\ Searching
  /\ ServerUsable /\ ConnectAsConfigured /\ FirstEntryUsed

LEMMA KeysOfPass ==
  /\ KeysOf("config") = ConfigKeys /\ KeysOf("login") = LoginKeys /\ KeysOf("will") = WillKeys
  /\ \A p \in Passes : KeysOf(p) \subseteq Key
<1>1. KeysOf("config") = ConfigKeys BY DEF KeysOf
<1>2. KeysOf("login") = LoginKeys BY DEF KeysOf
<1>3. KeysOf("will") = WillKeys BY DEF KeysOf
<1> QED BY <1>1, <1>2, <1>3 DEF Passes, Key

LEMMA KnownSame ==
  ASSUME NEW f, NEW k, NEW S, NEW H, NEW V, Known(f, k, S, H, V), NEW G, NEW W, k \in G <=> k \in H, W[k] = V[k]
  PROVE  Known(f, k, S, G, W)
BY DEF Known

\* Before the first line nothing is known of a key.
LEMMA KnownNothing ==
  ASSUME NEW f, NEW k, NEW H, NEW V, k \notin H, V[k] = <<>>
  PROVE  Known(f, k, {}, H, V)
<1>1. Len(V[k]) = 0 OBVIOUS
<1>2. ~ \E m \in {} : Last({}, m) /\ Good(f[m]) OBVIOUS
<1>3. 1..Len(V[k]) = {} BY <1>1
<1> QED BY <1>2, <1>3 DEF Known

\* What reading a line of a key of the pass does.
LEMMA ReadsKey ==
  ASSUME Typed, ReadLine, NEW l, l = con[pos], NEW k, k = l.key, k \in KeysOf(at)
  PROVE  /\ Good(l) => has' = has \cup {k} /\ val' = [val EXCEPT ![k] = Parsed(l, val[k]).val]
         /\ ~Good(l) => /\ val' = val
                        /\ has' = IF k = "willretain" THEN has ELSE has \ {k}
<1>1. at \in Passes /\ pos \in DOMAIN con BY DEF ReadLine, Ended
<1>2. l \in ConLine /\ k \in Key BY <1>1, LineType, KeysOfPass DEF Typed
<1>3. val[k] \in Seq(Int) BY <1>2 DEF Typed
<1> DEFINE p == Parsed(l, val[k])
<1>4. (p.ok <=> Parsed(l, <<>>).ok) /\ (k \notin Texts => p.val = Parsed(l, <<>>).val)
  BY <1>2, <1>3, ParsedLine
<1>5. Good(l) <=> p.ok /\ (k = "willretain" => p.val[1] <= 1) BY <1>4 DEF Good, Texts
<1>6. p = Parsed(con[pos], IF con[pos].key \in Key THEN val[con[pos].key] ELSE <<>>) BY <1>2
<1>7. \/ k # "willretain" /\ has' = (IF p.ok THEN has \cup {k} ELSE has \ {k})
         /\ val' = IF p.ok THEN [val EXCEPT ![k] = p.val] ELSE val
      \/ k = "willretain" /\ p.ok /\ p.val[1] <= 1
         /\ has' = has \cup {k} /\ val' = [val EXCEPT ![k] = p.val]
      \/ k = "willretain" /\ ~(p.ok /\ p.val[1] <= 1) /\ has' = has /\ val' = val
  <2> HIDE DEF p
  <2> QED BY <1>6 DEF ReadLine
<1> HIDE DEF p
<1>8. /\ Good(l) => has' = has \cup {k} /\ val' = [val EXCEPT ![k] = p.val]
      /\ ~Good(l) => /\ val' = val
                     /\ has' = IF k = "willretain" THEN has ELSE has \ {k}
  BY <1>5, <1>7
<1> QED BY <1>8 DEF p

\* A line of another pass leaves the values alone.
LEMMA ReadsOther ==
  ASSUME ReadLine, con[pos].key \notin KeysOf(at)
  PROVE  has' = has /\ val' = val
BY DEF ReadLine

---------------------------------------------------------------------------
(* Every step of an attempt keeps what is known of the keys. *)

LEMMA SeenLines ==
  ASSUME con \in Seq(ConLine), NEW k
  PROVE  /\ Seen(k) \subseteq LinesOf(k)
         /\ \A i \in Seen(k) : i \in Nat /\ i \in DOMAIN con /\ con[i].key = k
<1>1. Seen(k) \subseteq LinesOf(k) BY DEF Seen
<1> QED BY <1>1, LinesAre DEF LinesOf

LEMMA GatheredAttempt == Typed /\ Attempt => Gathered'
<1> SUFFICES ASSUME Typed, Attempt, NEW k \in Key PROVE Known(con, k, Seen(k), has, val)'
  BY DEF Gathered
<1>1. at' = "config" /\ pos' = 1 /\ con' = con /\ has' = {} /\ val' = [j \in Key |-> <<>>] BY DEF Attempt
<1>2. Seen(k)' = {}
  <2>1. con' \in Seq(ConLine) BY <1>1 DEF Typed
  <2>2. \A i \in LinesOf(k)' : i \in DOMAIN con' BY DEF LinesOf
  <2>3. \A i \in LinesOf(k)' : ~(i < 1) BY <2>1, <2>2
  <2>4. k \notin ConfigKeys => Later(k)' BY <1>1 DEF Later
  <2>5. k \in ConfigKeys => k \in KeysOf(at') BY <1>1, KeysOfPass
  <2>6. at' \in Passes BY <1>1 DEF Passes
  <2> QED BY <1>1, <2>3, <2>4, <2>5, <2>6 DEF Seen
<1>3. k \notin has' /\ val'[k] = <<>> BY <1>1
<1>4. Known(con', k, {}, has', val') BY <1>3, KnownNothing
<1> QED BY <1>2, <1>4

LEMMA GatheredRead == Typed /\ Scanned /\ Gathered /\ ReadLine => Gathered'
<1> SUFFICES ASSUME Typed, Scanned, Gathered, ReadLine, NEW k \in Key
             PROVE  Known(con, k, Seen(k), has, val)'
  BY DEF Gathered
<1>1. at \in Passes /\ at' = at /\ con' = con /\ pos' = pos + 1 /\ pos \in DOMAIN con /\ con[pos].size # 0
  BY DEF ReadLine, Ended
<1>2. Known(con, k, Seen(k), has, val) /\ val[k] \in Seq(Int) BY <1>1 DEF Gathered, Typed
<1>3. con \in Seq(ConLine) /\ pos \in Nat BY DEF Typed
<1>4. LinesOf(k)' = LinesOf(k) /\ (Later(k)' <=> Later(k)) BY <1>1 DEF LinesOf, Later
<1>5. \A i \in LinesOf(k) : i \in Nat BY <1>3, LinesAre
<1>6. CASE k = con[pos].key /\ k \in KeysOf(at)
  <2> DEFINE l == con[pos]
  <2>1. /\ Good(l) => has' = has \cup {k} /\ val' = [val EXCEPT ![k] = Parsed(l, val[k]).val]
        /\ ~Good(l) => val' = val /\ has' = IF k = "willretain" THEN has ELSE has \ {k}
    BY <1>6, ReadsKey
  <2>2. val \in [Key -> Seq(Int)] BY DEF Typed
  <2>3. Good(l) => k \in has' /\ val'[k] = Parsed(l, val[k]).val BY <2>1, <2>2
  <2>4. ~Good(l) => /\ IF k = "willretain" THEN k \in has' <=> k \in has ELSE k \notin has'
                    /\ val'[k] = val[k]
    BY <2>1
  <2>5. ~Later(k)
    <3>1. at = "config" => k \in ConfigKeys BY <1>6, KeysOfPass
    <3>2. at = "login" => k \in LoginKeys BY <1>6, KeysOfPass
    <3> QED BY <3>1, <3>2 DEF Later, LoginKeys, WillKeys
  <2>6. Seen(k) = {i \in LinesOf(k) : i < pos} /\ Seen(k)' = {i \in LinesOf(k) : i < pos + 1}
    BY <1>1, <1>4, <1>6, <2>5 DEF Seen
  <2>7. pos \in LinesOf(k)
    <3>1. DOMAIN con = 1..Len(con) /\ Len(con) \in Nat BY <1>3
    <3>2. \A j \in 1..pos : j = pos \/ j \in 1..(pos - 1) BY <1>3
    <3>3. con[pos].size > 0 BY <1>1, <1>3, LineType
    <3>4. \A j \in 1..pos : con[j].size > 0 BY <1>1, <3>2, <3>3 DEF Scanned
    <3> QED BY <1>1, <1>6, <3>4 DEF LinesOf
  <2>8. Seen(k)' = Seen(k) \cup {pos}
    <3>1. \A i \in LinesOf(k) : i < pos + 1 <=> i < pos \/ i = pos BY <1>3, <1>5
    <3>2. {i \in LinesOf(k) : i < pos + 1} = {i \in LinesOf(k) : i < pos} \cup {pos} BY <2>7, <3>1
    <3> QED BY <2>6, <3>2
  <2>9. \A i \in Seen(k) : i \in Nat /\ i < pos /\ i \in DOMAIN con /\ con[i].key = k
    BY <1>3, <2>6, SeenLines
  <2> DEFINE S == Seen(k)
             G == has'
             W == val'
  <2> HIDE DEF S, G, W
  <2>10. Known(con, k, S \cup {pos}, G, W)
    BY <1>1, <1>2, <1>3, <1>6, <2>3, <2>4, <2>9, KnownRead DEF S, G, W
  <2> QED BY <1>1, <2>8, <2>10 DEF S, G, W
<1>7. CASE ~(k = con[pos].key /\ k \in KeysOf(at))
  <2>1. Seen(k)' = Seen(k)
    <3>1. CASE k \notin KeysOf(at) BY <1>1, <1>4, <3>1 DEF Seen
    <3>2. CASE k # con[pos].key
      <4>1. pos \notin LinesOf(k) BY <3>2 DEF LinesOf
      <4>2. \A i \in LinesOf(k) : i < pos + 1 <=> i < pos BY <1>3, <1>5, <4>1
      <4> QED BY <1>1, <1>4, <4>2 DEF Seen
    <3> QED BY <1>7, <3>1, <3>2
  <2>2. (k \in has' <=> k \in has) /\ val'[k] = val[k]
    <3>1. CASE con[pos].key \notin KeysOf(at) BY <3>1, ReadsOther
    <3>2. CASE con[pos].key \in KeysOf(at)
      <4> DEFINE j == con[pos].key
      <4>1. k # j BY <1>7, <3>2
      <4>2. \/ has' = has \cup {j} /\ val' = [val EXCEPT ![j] = Parsed(con[pos], val[j]).val]
            \/ val' = val /\ (has' = has \/ has' = has \ {j})
        BY <3>2, ReadsKey
      <4> HIDE DEF j
      <4>3. val \in [Key -> Seq(Int)] BY DEF Typed
      <4> QED BY <4>1, <4>2, <4>3
    <3> QED BY <3>1, <3>2
  <2>3. Known(con, k, Seen(k), has', val') BY <1>2, <2>2, KnownSame
  <2> QED BY <1>1, <2>1, <2>3
<1> QED BY <1>6, <1>7

\* At the end of a pass, its lines are all the lines there are.
LEMMA EndSeesAll ==
  ASSUME Typed, Scanned, at \in Passes, Ended(con), NEW k, NEW i \in LinesOf(k)
  PROVE  i < pos
<1>1. con \in Seq(ConLine) /\ pos \in Nat \ {0} /\ i \in Nat BY LinesAre DEF Typed
<1>2. i \in DOMAIN con /\ \A j \in 1..i : con[j].size > 0 BY DEF LinesOf
<1>3. DOMAIN con = 1..Len(con) /\ Len(con) \in Nat BY <1>1
<1>4. SUFFICES ASSUME pos <= i PROVE FALSE BY <1>1
<1>5. pos \in 1..i /\ pos \in DOMAIN con BY <1>1, <1>2, <1>3, <1>4
<1>6. con[pos].size = 0 /\ con[pos].size > 0 BY <1>2, <1>5 DEF Ended
<1> QED BY <1>6

LEMMA EndOfPassSame ==
  ASSUME Typed, Scanned, EndOfPass, at' # "idle", NEW k \in Key
  PROVE  Seen(k)' = Seen(k)
<1>1. at \in Passes /\ Ended(con) /\ pos' = 1 /\ con' = con BY DEF EndOfPass
<1>2. LinesOf(k)' = LinesOf(k) BY <1>1 DEF LinesOf
<1>3. \A i \in LinesOf(k) : i < pos BY <1>1, EndSeesAll
<1>4. \A i \in LinesOf(k) : ~(i < 1)
  <2>1. con \in Seq(ConLine) BY DEF Typed
  <2> QED BY <2>1 DEF LinesOf
<1>5. Seen(k) = {i \in LinesOf(k) : ~Later(k)} BY <1>3 DEF Seen
<1>6. Seen(k)' = {i \in LinesOf(k) : ~Later(k)' /\ ~(at' \in Passes /\ k \in KeysOf(at'))}
  BY <1>1, <1>2, <1>4 DEF Seen
<1>7. Later(k) <=> (Later(k)' \/ (at' \in Passes /\ k \in KeysOf(at')))
  <2>1. \/ at = "config" /\ at' = "login"
        \/ at = "login" /\ at' = "will"
        \/ at = "will" /\ at' = "open"
    BY <1>1 DEF EndOfPass, Passes
  <2>2. CASE at = "config" /\ at' = "login"
    BY <2>2, KeysOfPass DEF Later, Passes, Key, ConfigKeys, LoginKeys, WillKeys
  <2>3. CASE at = "login" /\ at' = "will"
    BY <2>3, KeysOfPass DEF Later, Passes
  <2>4. CASE at = "will" /\ at' = "open"
    BY <2>4, KeysOfPass DEF Later, Passes
  <2> QED BY <2>1, <2>2, <2>3, <2>4
<1> QED BY <1>5, <1>6, <1>7

LEMMA GatheredEnd == Typed /\ Scanned /\ Gathered /\ EndOfPass => Gathered'
<1> SUFFICES ASSUME Typed, Scanned, Gathered, EndOfPass, at' \in Passes \cup {"open", "connect"},
                    NEW k \in Key
             PROVE  Known(con, k, Seen(k), has, val)'
  BY DEF Gathered
<1>1. at \in Passes /\ con' = con /\ has' = has /\ val' = val BY DEF EndOfPass
<1>2. at' # "idle" BY DEF Passes
<1>3. Seen(k)' = Seen(k) BY <1>2, EndOfPassSame
<1>4. Known(con, k, Seen(k), has, val) BY <1>1 DEF Gathered
<1> QED BY <1>1, <1>3, <1>4

LEMMA GatheredOpen == Gathered /\ OpenSocket => Gathered'
<1> SUFFICES ASSUME Gathered, OpenSocket, at' \in Passes \cup {"open", "connect"}, NEW k \in Key
             PROVE  Known(con, k, Seen(k), has, val)'
  BY DEF Gathered
<1>1. at = "open" /\ at' = "connect" /\ con' = con /\ pos' = pos /\ has' = has /\ val' = val
  BY DEF OpenSocket, Passes
<1>2. Seen(k)' = Seen(k) BY <1>1 DEF Seen, LinesOf, Later, Passes
<1>3. Known(con, k, Seen(k), has, val) BY <1>1 DEF Gathered
<1> QED BY <1>1, <1>2, <1>3

---------------------------------------------------------------------------
(* The other parts of the invariant. *)

\* A value found has the type of a value.
LEMMA TypedRead == Typed /\ ReadLine => Typed'
<1> SUFFICES ASSUME Typed, ReadLine PROVE Typed' OBVIOUS
<1>1. /\ at \in Passes /\ at' = at /\ con' = con /\ pre' = pre /\ pos' = pos + 1 /\ look' = look
      /\ pos \in DOMAIN con
  BY DEF ReadLine, Ended
<1>2. has' \subseteq Key /\ val' \in [Key -> Seq(Int)]
  <2>1. CASE con[pos].key \notin KeysOf(at) BY <2>1, ReadsOther DEF Typed
  <2>2. CASE con[pos].key \in KeysOf(at)
    <3> DEFINE k == con[pos].key
               w == Parsed(con[pos], val[k]).val
    <3>1. k \in Key BY <1>1, <2>2, KeysOfPass
    <3>2. \/ has' = has \cup {k} /\ val' = [val EXCEPT ![k] = w]
          \/ val' = val /\ (has' = has \/ has' = has \ {k})
      BY <2>2, ReadsKey
    <3>3. con[pos] \in ConLine BY <1>1, LineType DEF Typed
    <3>4. val \in [Key -> Seq(Int)] /\ val[k] \in Seq(Int) /\ has \subseteq Key BY <3>1 DEF Typed
    <3>5. w \in Seq(Int) BY <3>1, <3>3, <3>4, ParsedLine
    <3> HIDE DEF k, w
    <3> QED BY <3>1, <3>2, <3>4, <3>5
  <2> QED BY <2>1, <2>2
<1>3. pos' \in Nat \ {0} BY <1>1 DEF Typed
<1> QED BY <1>1, <1>2, <1>3 DEF Typed

LEMMA TypedNext == Typed /\ [Next]_vars => Typed'
<1> SUFFICES ASSUME Typed, [Next]_vars PROVE Typed' OBVIOUS
<1>1. CASE Attempt
  <2>1. val' \in [Key -> Seq(Int)] /\ has' \subseteq Key BY <1>1 DEF Attempt
  <2> QED BY <1>1, <2>1 DEF Attempt, Typed, Phase, Passes
<1>2. CASE ReadLine BY <1>2, TypedRead
<1>3. CASE EndOfPass
  <2>1. at' \in {"login", "idle", "will", "open"} BY <1>3 DEF EndOfPass
  <2> QED BY <1>3, <2>1 DEF EndOfPass, Typed, Phase, Passes
<1>4. CASE OpenSocket BY <1>4 DEF OpenSocket, Typed, Phase
<1>5. CASE Connect
  <2>1. at' \in {"idle", "answer"} /\ UNCHANGED <<con, pre, pos, has, val, look>> BY <1>5 DEF Connect
  <2> QED BY <2>1 DEF Typed, Phase
<1>6. CASE Answer BY <1>6 DEF Answer, Typed, Phase
<1>7. CASE Edit
  <2>1. con' \in Seq(ConLine) BY <1>7, ConfigurationAssumption DEF Edit
  <2> QED BY <1>7, <2>1 DEF Edit, Typed
<1>8. CASE Lookup
  <2>1. look' \in [id : Int, name : STRING \cup {NoTopic}] BY <1>8, ConfigurationAssumption DEF Lookup
  <2> QED BY <1>8, <2>1 DEF Lookup, Typed, Phase
<1>9. CASE LookupLine
  <2>1. pos \in DOMAIN pre /\ pos' \in Nat \ {0} BY <1>9 DEF LookupLine, Ended, Typed
  <2>2. pre[pos] \in PreLine BY <2>1, ElementOfSeq DEF Typed
  <2>3. [look EXCEPT !.name = pre[pos].name] \in [id : Int, name : STRING \cup {NoTopic}]
    BY <2>2 DEF PreLine, Typed
  <2>4. look' = [look EXCEPT !.name = pre[pos].name] \/ look' = look BY <1>9 DEF LookupLine
  <2>5. look' \in [id : Int, name : STRING \cup {NoTopic}] BY <2>3, <2>4 DEF Typed
  <2>6. at' \in {at, "looked"} /\ UNCHANGED <<con, pre, has, val>> BY <1>9 DEF LookupLine
  <2> QED BY <2>1, <2>5, <2>6 DEF Typed, Phase
<1>10. CASE LookupEnds BY <1>10 DEF LookupEnds, Typed, Phase
<1>11. CASE LookupUsed BY <1>11 DEF LookupUsed, Typed, Phase
<1>12. CASE UNCHANGED vars BY <1>12 DEF vars, Typed
<1> QED BY <1>1, <1>2, <1>3, <1>4, <1>5, <1>6, <1>7, <1>8, <1>9, <1>10, <1>11, <1>12 DEF Next

\* What each step does to the position of the thread.
LEMMA Moves ==
  ASSUME [Next]_vars
  PROVE  \/ Attempt \/ ReadLine \/ EndOfPass \/ OpenSocket \/ Connect
         \/ /\ UNCHANGED <<con, has, val, sent>>
            /\ at' \in {"idle", "online", "lookup", "looked"}
            /\ at \in {"answer", "online", "lookup", "looked"}
         \/ Edit \/ UNCHANGED vars
BY DEF Next, Answer, Lookup, LookupLine, LookupEnds, LookupUsed

LEMMA ScannedNext == Typed /\ Scanned /\ [Next]_vars => Scanned'
<1> SUFFICES ASSUME Typed, Scanned, [Next]_vars PROVE Scanned' OBVIOUS
<1>1. CASE pos' = 1 BY <1>1 DEF Scanned
<1>2. CASE ReadLine
  <2>1. /\ at \in Passes /\ at' = at /\ con' = con /\ pos' = pos + 1
        /\ pos \in DOMAIN con /\ con[pos].size # 0
    BY <1>2 DEF ReadLine, Ended
  <2>2. con[pos].size > 0 BY <2>1, LineType DEF Typed
  <2>3. \A j \in 1..(pos' - 1) : j = pos \/ j \in 1..(pos - 1) BY <2>1 DEF Typed
  <2> QED BY <2>1, <2>2, <2>3 DEF Scanned
<1>3. CASE at' \notin Passes BY <1>3 DEF Scanned
<1>4. CASE UNCHANGED vars BY <1>4 DEF vars, Scanned
<1>5. Attempt \/ EndOfPass => pos' = 1 BY DEF Attempt, EndOfPass
<1>6. OpenSocket \/ Connect \/ Edit => at' \notin Passes BY DEF OpenSocket, Connect, Edit, Passes
<1>7. at' \in {"idle", "online", "lookup", "looked"} => at' \notin Passes BY DEF Passes
<1> QED BY <1>1, <1>2, <1>3, <1>4, <1>5, <1>6, <1>7, Moves

LEMMA GatheredNext == Typed /\ Scanned /\ Gathered /\ [Next]_vars => Gathered'
<1> SUFFICES ASSUME Typed, Scanned, Gathered, [Next]_vars PROVE Gathered' OBVIOUS
<1>1. CASE UNCHANGED vars
  <2>1. \A k : Seen(k)' = Seen(k) BY <1>1 DEF vars, Seen, LinesOf, Later
  <2> QED BY <1>1, <2>1 DEF vars, Gathered
<1>2. Connect \/ Edit => at' \notin Passes \cup {"open", "connect"} BY DEF Connect, Edit, Passes
<1>3. at' \in {"idle", "online", "lookup", "looked"} => at' \notin Passes \cup {"open", "connect"}
  BY DEF Passes
<1>4. at' \notin Passes \cup {"open", "connect"} => Gathered' BY DEF Gathered
<1> QED BY <1>1, <1>2, <1>3, <1>4, Moves, GatheredAttempt, GatheredRead, GatheredEnd, GatheredOpen

LEMMA EnoughNext == Typed /\ Enough /\ [Next]_vars => Enough'
<1> SUFFICES ASSUME Typed, Enough, [Next]_vars, at' \in {"login", "will", "open", "connect"}
             PROVE  ConfigKeys \subseteq has'
  BY DEF Enough
<1>1. CASE ReadLine
  <2>1. at \in Passes /\ at' = at BY <1>1 DEF ReadLine
  <2>2. at \in {"login", "will"} /\ ConfigKeys \subseteq has BY <2>1 DEF Passes, Enough
  <2>3. CASE con[pos].key \notin KeysOf(at) BY <1>1, <2>2, <2>3, ReadsOther
  <2>4. CASE con[pos].key \in KeysOf(at)
    <3> DEFINE k == con[pos].key
    <3>1. has' = has \cup {k} \/ has' = has \/ has' = has \ {k} BY <1>1, <2>4, ReadsKey
    <3>2. k \notin ConfigKeys BY <2>2, <2>4, KeysOfPass DEF ConfigKeys, LoginKeys, WillKeys
    <3> HIDE DEF k
    <3> QED BY <2>2, <3>1, <3>2
  <2> QED BY <2>3, <2>4
<1>2. CASE EndOfPass
  <2>1. has' = has BY <1>2 DEF EndOfPass
  <2>2. ConfigKeys \subseteq has \/ at \in {"login", "will"} BY <1>2 DEF EndOfPass, Passes
  <2> QED BY <2>1, <2>2 DEF Enough
<1>3. CASE OpenSocket BY <1>3 DEF OpenSocket, Enough
<1>4. CASE UNCHANGED vars BY <1>4 DEF vars, Enough
<1>5. ~(Attempt \/ Connect \/ Edit) BY DEF Attempt, Connect, Edit
<1> QED BY <1>1, <1>2, <1>3, <1>4, <1>5, Moves

---------------------------------------------------------------------------
(* The properties. *)

\* Before the network is used, the broker and the port found are usable.
LEMMA UsableFound ==
  Typed /\ Gathered /\ Enough /\ at \in {"login", "will", "open", "connect"} => ServerUsable
<1> SUFFICES ASSUME Typed, Gathered, Enough, at \in {"login", "will", "open", "connect"}
             PROVE  ServerUsable
  OBVIOUS
<1>1. at \in Passes \cup {"open", "connect"} BY DEF Passes
<1>2. "brokeraddress" \in Key /\ "brokerport" \in Key /\ "brokeraddress" \notin Texts /\ "brokerport" \notin Texts
  BY DEF Key, ConfigKeys, Texts
<1>3. "brokeraddress" \in has /\ "brokerport" \in has BY DEF Enough, ConfigKeys
<1>4. con \in Seq(ConLine) BY DEF Typed
<1>5. PICK m \in DOMAIN con : con[m] \in ConLine /\ con[m].key = "brokeraddress" /\ Good(con[m])
                              /\ val["brokeraddress"] = Parsed(con[m], <<>>).val
  BY <1>1, <1>2, <1>3, <1>4, SeenLines, KnownLine DEF Gathered
<1>6. PICK n \in DOMAIN con : con[n] \in ConLine /\ con[n].key = "brokerport" /\ Good(con[n])
                              /\ val["brokerport"] = Parsed(con[n], <<>>).val
  BY <1>1, <1>2, <1>3, <1>4, SeenLines, KnownLine DEF Gathered
<1>7. DOMAIN val["brokeraddress"] = 1..4 /\ \A i \in 1..4 : val["brokeraddress"][i] \in 0..255
  BY <1>5, ServerLine
<1>8. 0 < val["brokerport"][1] /\ val["brokerport"][1] < 65536 BY <1>6, ServerLine
<1>9. has \subseteq Key BY DEF Typed
<1> QED BY <1>7, <1>8, <1>9 DEF ServerUsable

LEMMA UsableFoundNext ==
  (Typed /\ Gathered /\ Enough /\ at \in {"login", "will", "open", "connect"} => ServerUsable)'
BY UsableFound, PTL

LEMMA UsableNext ==
  ASSUME Typed, Gathered, Enough, ServerUsable, [Next]_vars, Typed', Gathered', Enough'
  PROVE  ServerUsable'
<1>1. CASE at' \in {"login", "will", "open", "connect"} BY <1>1, UsableFoundNext
<1>2. CASE at' = "answer"
  <2>1. at \in {"connect", "answer"} /\ has' = has /\ val' = val
    <3>1. Connect => at = "connect" /\ has' = has /\ val' = val BY DEF Connect
    <3>2. UNCHANGED vars => at = "answer" /\ has' = has /\ val' = val BY <1>2 DEF vars
    <3>3. ~(Attempt \/ ReadLine \/ EndOfPass \/ OpenSocket \/ Edit)
      BY <1>2 DEF Attempt, ReadLine, EndOfPass, OpenSocket, Edit, Passes
    <3> QED BY <1>2, <3>1, <3>2, <3>3, Moves
  <2> QED BY <1>2, <2>1 DEF ServerUsable
<1>3. CASE at' \notin {"login", "will", "open", "connect", "answer"}
  BY <1>3 DEF ServerUsable, Typed
<1> QED BY <1>1, <1>2, <1>3

\* The three passes have found what the file says.
LEMMA AllKnown ==
  ASSUME Typed, Gathered, at = "connect"
  PROVE  /\ \A keys \in SUBSET Key : keys \subseteq has <=> Complete(keys)
         /\ \A k \in has : val[k] = Configured(k)
<1>1. \A k : Seen(k) = LinesOf(k) BY DEF Seen, Later, Passes
<1>2. \A k \in Key : Known(con, k, LinesOf(k), has, val) BY <1>1 DEF Gathered
<1>3. con \in Seq(ConLine) /\ has \subseteq Key /\ \A k \in Key : val[k] \in Seq(Int) BY DEF Typed
<1>4. ASSUME NEW keys \in SUBSET Key PROVE keys \subseteq has <=> Complete(keys)
  BY <1>2, <1>3, KnownKeys
<1>5. ASSUME NEW k \in has PROVE val[k] = Configured(k) BY <1>2, <1>3, KnownValue
<1> QED BY <1>4, <1>5

LEMMA ConfiguredConnect ==
  ASSUME Typed, Gathered, Enough, Connect
  PROVE  ConnectAsConfigured'
<1>1. at = "connect" /\ con' = con BY DEF Connect
<1>2. \A k : Configured(k)' = Configured(k)
  BY <1>1 DEF Configured, GoodLines, LinesOf
<1>3. \A keys : Complete(keys)' <=> Complete(keys)
  BY <1>1 DEF Complete, GoodLines, LinesOf
<1>4. /\ LoginKeys \subseteq has <=> Complete(LoginKeys)
      /\ WillKeys \subseteq has <=> Complete(WillKeys)
      /\ LoginKeys \cup WillKeys \subseteq has <=> Complete(LoginKeys \cup WillKeys)
  BY <1>1, AllKnown DEF Key
<1>5. \A k \in has : val[k] = Configured(k) BY <1>1, AllKnown
<1>6. ConfigKeys \subseteq has BY <1>1 DEF Enough
<1> SUFFICES ASSUME at' = "answer"
             PROVE  /\ <<sent'.server, sent'.port, sent'.id>> =
                         <<Configured("brokeraddress"), Configured("brokerport"), Configured("clientid")>>
                    /\ sent'.login = IF Complete(LoginKeys)
                                     THEN <<Configured("username"), Configured("password")>> ELSE <<>>
                    /\ sent'.will = IF Complete(WillKeys)
                                    THEN <<Configured("willtopic"), Configured("willmessage"),
                                           Configured("willqos")>> ELSE <<>>
                    /\ sent'.retain = (Complete(LoginKeys \cup WillKeys) /\ Configured("willretain") = <<1>>)
  <2>1. at' \in {"idle", "answer"} BY DEF Connect
  <2> QED BY <1>2, <1>3, <2>1 DEF ConnectAsConfigured
<1>7. /\ sent'.server = val["brokeraddress"] /\ sent'.port = val["brokerport"] /\ sent'.id = val["clientid"]
      /\ sent'.login = IF HasLogin THEN <<val["username"], val["password"]>> ELSE <<>>
      /\ sent'.will = IF HasWill THEN <<val["willtopic"], val["willmessage"], val["willqos"]>> ELSE <<>>
      /\ sent'.retain = (HasLogin /\ HasWill /\ val["willretain"] = <<1>>)
  BY DEF Connect
<1>8. <<sent'.server, sent'.port, sent'.id>> =
        <<Configured("brokeraddress"), Configured("brokerport"), Configured("clientid")>>
  BY <1>5, <1>6, <1>7 DEF ConfigKeys
<1>9. sent'.login = IF Complete(LoginKeys) THEN <<Configured("username"), Configured("password")>> ELSE <<>>
  BY <1>4, <1>5, <1>7 DEF HasLogin, LoginKeys
<1>10. sent'.will = IF Complete(WillKeys)
                    THEN <<Configured("willtopic"), Configured("willmessage"), Configured("willqos")>> ELSE <<>>
  BY <1>4, <1>5, <1>7 DEF HasWill, WillKeys
<1>11. sent'.retain = (Complete(LoginKeys \cup WillKeys) /\ Configured("willretain") = <<1>>)
  <2>1. HasLogin /\ HasWill <=> Complete(LoginKeys \cup WillKeys) BY <1>4 DEF HasLogin, HasWill
  <2>2. HasWill => val["willretain"] = Configured("willretain") BY <1>5 DEF HasWill, WillKeys
  <2> QED BY <1>7, <2>1, <2>2
<1> QED BY <1>8, <1>9, <1>10, <1>11

LEMMA ConfiguredNext ==
  ASSUME Typed, Gathered, Enough, ConnectAsConfigured, [Next]_vars
  PROVE  ConnectAsConfigured'
<1>1. CASE UNCHANGED <<con, sent>> /\ at \in {"answer", "online", "lookup", "looked"}
  <2>1. \A k : Configured(k)' = Configured(k) BY <1>1 DEF Configured, GoodLines, LinesOf
  <2>2. \A keys : Complete(keys)' <=> Complete(keys) BY <1>1 DEF Complete, GoodLines, LinesOf
  <2> QED BY <1>1, <2>1, <2>2 DEF ConnectAsConfigured
<1>2. CASE at' \notin {"answer", "online", "lookup", "looked"} BY <1>2 DEF ConnectAsConfigured
<1>3. CASE Connect BY <1>3, ConfiguredConnect
<1>4. Attempt \/ ReadLine \/ EndOfPass \/ OpenSocket \/ Edit => at' \notin {"answer", "online", "lookup", "looked"}
  BY DEF Attempt, ReadLine, EndOfPass, OpenSocket, Edit, Passes
<1>5. UNCHANGED vars => at' = at /\ UNCHANGED <<con, sent>> BY DEF vars
<1> QED BY <1>1, <1>2, <1>3, <1>4, <1>5, Moves

\* A lookup: the lines before pos do not match.
LEMMA SearchingNext ==
  ASSUME Typed, Searching, [Next]_vars
  PROVE  Searching'
<1>1. CASE at' # "lookup" BY <1>1 DEF Searching
<1>2. CASE Lookup
  <2>1. look'.name = NoTopic /\ pos' = 1 BY <1>2 DEF Lookup
  <2> QED BY <2>1 DEF Searching
<1>3. CASE LookupLine /\ at' = "lookup"
  <2>1. /\ at = "lookup" /\ pos \in DOMAIN pre /\ pre[pos].size # 0
        /\ look' = look /\ pre' = pre /\ pos' = pos + 1 /\ ~Match(pos)
    BY <1>3 DEF LookupLine, Ended, Match
  <2>2. pre[pos].size > 0
    <3>1. pre[pos] \in PreLine BY <2>1, ElementOfSeq DEF Typed
    <3> QED BY <2>1, <3>1 DEF PreLine
  <2>3. \A j \in 1..(pos' - 1) : j = pos \/ j \in 1..(pos - 1) BY <2>1 DEF Typed
  <2>4. \A j : Match(j)' <=> Match(j) BY <2>1 DEF Match, Entry
  <2>5. look'.name = NoTopic /\ \A j \in 1..(pos - 1) : j \in DOMAIN pre /\ pre[j].size > 0 /\ ~Match(j)
    BY <2>1 DEF Searching
  <2> QED BY <2>1, <2>2, <2>3, <2>4, <2>5 DEF Searching
<1>4. CASE UNCHANGED vars BY <1>4 DEF vars, Searching, Match, Entry
<1>5. Next => Lookup \/ LookupLine \/ at' # "lookup"
  BY DEF Next, Attempt, ReadLine, EndOfPass, OpenSocket, Connect, Answer, Edit, LookupEnds, LookupUsed, Passes
<1> QED BY <1>1, <1>2, <1>3, <1>4, <1>5

LEMMA FirstEntryNext ==
  ASSUME Typed, Searching, FirstEntryUsed, [Next]_vars
  PROVE  FirstEntryUsed'
<1> DEFINE found == {i \in DOMAIN pre : Match(i) /\ \A j \in 1..i : pre[j].size > 0}
<1>1. FirstEntryUsed' <=> (at' = "looked" => look'.name = IF found' = {} THEN NoTopic ELSE pre'[Min(found')].name)
  BY DEF FirstEntryUsed, Match
<1>2. DOMAIN pre = 1..Len(pre) /\ Len(pre) \in Nat /\ pos \in Nat \ {0} BY DEF Typed
<1>3. CASE LookupLine /\ at' = "looked"
  <2>1. /\ at = "lookup" /\ pos \in DOMAIN pre /\ pre[pos].size # 0 /\ Match(pos)
        /\ look' = [look EXCEPT !.name = pre[pos].name] /\ pre' = pre
    BY <1>3 DEF LookupLine, Ended, Match
  <2>2. pre[pos].size > 0
    <3>1. pre[pos] \in PreLine BY <2>1, ElementOfSeq DEF Typed
    <3> QED BY <2>1, <3>1 DEF PreLine
  <2>3. look'.id = look.id /\ look'.name = pre[pos].name BY <2>1 DEF Typed
  <2>4. found' = found BY <2>1, <2>3 DEF Match, Entry
  <2>5. \A j \in 1..(pos - 1) : pre[j].size > 0 /\ ~Match(j) BY <2>1 DEF Searching
  <2>6. \A j \in 1..pos : j = pos \/ j \in 1..(pos - 1) BY <1>2
  <2>7. pos \in found BY <2>1, <2>2, <2>5, <2>6
  <2>8. \A i \in found : pos <= i
    <3> SUFFICES ASSUME NEW i \in found, i < pos PROVE FALSE BY <1>2
    <3>1. i \in 1..(pos - 1) /\ Match(i) BY <1>2
    <3> QED BY <2>5, <3>1
  <2>9. found \subseteq Int BY <1>2
  <2> HIDE DEF found
  <2>10. Min(found) = pos BY <2>7, <2>8, <2>9, MinIs
  <2> QED BY <1>1, <2>1, <2>3, <2>4, <2>7, <2>10
<1>4. CASE LookupEnds
  <2>1. at = "lookup" /\ (pos \in DOMAIN pre => pre[pos].size = 0) /\ look' = look /\ pre' = pre
    BY <1>4 DEF LookupEnds, Ended
  <2>2. look.name = NoTopic /\ \A j \in 1..(pos - 1) : j \in DOMAIN pre /\ ~Match(j)
    BY <2>1 DEF Searching
  <2>3. found = {}
    <3> SUFFICES ASSUME NEW i \in found PROVE FALSE OBVIOUS
    <3>1. i \in DOMAIN pre /\ Match(i) /\ \A j \in 1..i : pre[j].size > 0 OBVIOUS
    <3>2. i \in 1..(pos - 1) \/ pos \in 1..i BY <1>2, <3>1
    <3>3. CASE i \in 1..(pos - 1) BY <2>2, <3>1, <3>3
    <3>4. CASE pos \in 1..i
      <4>1. pos \in DOMAIN pre BY <1>2, <3>1, <3>4
      <4>2. pre[pos].size > 0 /\ pre[pos].size = 0 BY <2>1, <3>1, <3>4, <4>1
      <4> QED BY <4>2
    <3> QED BY <3>2, <3>3, <3>4
  <2>4. found' = found BY <2>1 DEF Match, Entry
  <2> HIDE DEF found
  <2> QED BY <1>1, <2>1, <2>2, <2>3, <2>4
<1>5. CASE UNCHANGED vars BY <1>5 DEF vars, FirstEntryUsed
<1>6. CASE at' # "looked" BY <1>6 DEF FirstEntryUsed
<1>7. Next => LookupLine \/ LookupEnds \/ at' # "looked"
  BY DEF Next, Attempt, ReadLine, EndOfPass, OpenSocket, Connect, Answer, Edit, Lookup, LookupUsed, Passes
<1> QED BY <1>3, <1>4, <1>5, <1>6, <1>7

\* The inductive invariant holds at first, and every step keeps it.
LEMMA CInvInit == Init => CInv
<1> SUFFICES ASSUME Init PROVE CInv OBVIOUS
<1>1. at = "idle" /\ has = {} BY DEF Init
<1>2. Typed BY TypedInit
<1>3. at \notin Passes \cup {"open", "connect"} BY <1>1 DEF Passes
<1> QED BY <1>1, <1>2, <1>3
        DEF CInv, Scanned, Gathered, Enough, Searching, ServerUsable, ConnectAsConfigured, FirstEntryUsed

LEMMA CInvNext == CInv /\ [Next]_vars => CInv'
<1> SUFFICES ASSUME CInv, [Next]_vars PROVE CInv' OBVIOUS
<1>1. Typed /\ Scanned /\ Gathered /\ Enough /\ Searching BY DEF CInv
<1>2. ServerUsable /\ ConnectAsConfigured /\ FirstEntryUsed BY DEF CInv
<1>3. Typed' /\ Scanned' /\ Gathered' /\ Enough'
  BY <1>1, TypedNext, ScannedNext, GatheredNext, EnoughNext
<1>4. ServerUsable' BY <1>1, <1>2, <1>3, UsableNext
<1>5. ConnectAsConfigured' BY <1>1, <1>2, ConfiguredNext
<1>6. Searching' /\ FirstEntryUsed' BY <1>1, <1>2, SearchingNext, FirstEntryNext
<1> QED BY <1>3, <1>4, <1>5, <1>6 DEF CInv

LEMMA ConfigInvariant == Spec => []CInv
<1> QED BY CInvInit, CInvNext, PTL DEF Spec

---------------------------------------------------------------------------
(***************************************************************************)
(* Whatever the files say and however often they are edited, the gateway   *)
(* goes on to the network with four octets and a port that is not 0.       *)
(***************************************************************************)
THEOREM UsableServer == Spec => []ServerUsable
<1>1. CInv => ServerUsable BY DEF CInv
<1> QED BY <1>1, ConfigInvariant, PTL

(***************************************************************************)
(* The CONNECT that three passes over MQTT.CON lead to says what the file  *)
(* says as a whole, for files of any number of lines of any keys.          *)
(***************************************************************************)
THEOREM ConnectSaysWhatIsConfigured == Spec => []ConnectAsConfigured
<1>1. CInv => ConnectAsConfigured BY DEF CInv
<1> QED BY <1>1, ConfigInvariant, PTL

\* A lookup in TOPICS.PRE, of any length, ends with the first entry for its id.
THEOREM FirstEntryWins == Spec => []FirstEntryUsed
<1>1. CInv => FirstEntryUsed BY DEF CInv
<1> QED BY <1>1, ConfigInvariant, PTL

\* An attempt that ends before the network is used had a file without a usable broker, port or client id.
THEOREM GivesUpOnlyIncomplete == Spec => GivesUpIncomplete
<1>1. ASSUME CInv, [Next]_vars
      PROVE  [at' = "idle" /\ at \in Passes => ~Complete(ConfigKeys)]_vars
  <2> SUFFICES ASSUME Next, at' = "idle", at \in Passes PROVE ~Complete(ConfigKeys) BY <1>1
  <2>1. EndOfPass
    BY DEF Next, Attempt, ReadLine, OpenSocket, Connect, Answer, Edit, Lookup, LookupLine, LookupEnds,
           LookupUsed, Passes
  <2>2. at = "config" /\ Ended(con) /\ ~(ConfigKeys \subseteq has) BY <2>1 DEF EndOfPass, Passes
  <2>3. Typed /\ Scanned /\ Gathered BY <1>1 DEF CInv
  <2>4. ASSUME NEW k \in ConfigKeys PROVE Seen(k) = LinesOf(k)
    <3>1. ~Later(k) BY <2>2 DEF Later
    <3>2. \A i \in LinesOf(k) : i < pos BY <2>2, <2>3, EndSeesAll
    <3> QED BY <3>1, <3>2 DEF Seen
  <2>5. \A k \in ConfigKeys : Known(con, k, LinesOf(k), has, val) BY <2>3, <2>4 DEF Gathered, Key
  <2>6. con \in Seq(ConLine) /\ ConfigKeys \subseteq Key BY <2>3 DEF Typed, Key
  <2> QED BY <2>2, <2>5, <2>6, KnownKeys
<1> QED BY <1>1, ConfigInvariant, PTL DEF Spec, GivesUpIncomplete
============================================================================
