---------------------------- MODULE StoreProofs ----------------------------
(***************************************************************************)
(* What the operators of SDPersistent preserve: a store that is well       *)
(* formed (Good) stays so under every method of the database, whatever the *)
(* transaction flags are, and an operation on the open transaction leaves  *)
(* the flags and the loaded slot alone (SameTx) where the callers rely on  *)
(* it.                                                                     *)
(***************************************************************************)
EXTENDS SDPersistent, FiniteSetTheorems, SequenceTheorems, TLAPS

\* The loaded slot exists whenever an operation may touch it.
Good(s) == s \in Store /\ (s.started /\ ~s.notin => s.cur \in 1..Len(s.clients))

\* The transaction flags and the loaded slot of t are those of s.
SameTx(s, t) ==
  t.started = s.started /\ t.error = s.error /\ t.notin = s.notin /\ t.cur = s.cur

---------------------------------------------------------------------------
(* Sequences. *)

\* A set of positions that is not empty has a least element.
LEMMA LeastExists ==
  ASSUME NEW n \in Nat, NEW I \in SUBSET (1..n), I # {}
  PROVE  \E x \in I : \A y \in I : x <= y
<1> DEFINE T == {1..i : i \in I}
<1>1. T \subseteq FiniteSubsetsOf(Nat)
  <2> SUFFICES ASSUME NEW i \in I PROVE 1..i \in FiniteSubsetsOf(Nat) OBVIOUS
  <2>1. IsFiniteSet(1..i) BY FS_Interval
  <2> QED BY <2>1 DEF FiniteSubsetsOf
<1>2. T # {} OBVIOUS
<1>3. IsWellFoundedOn(StrictSubsetOrdering(Nat), FiniteSubsetsOf(Nat))
  BY FS_StrictSubsetOrderingWellFounded
<1> HIDE DEF T
<1>4. PICK t \in T : \A u \in T : ~(<<u, t>> \in StrictSubsetOrdering(Nat))
  BY <1>1, <1>2, <1>3, WFMin
<1>5. PICK x \in I : t = 1..x BY DEF T
<1>6. ASSUME NEW y \in I, y < x PROVE FALSE
  <2>1. 1..y \in T BY DEF T
  <2>2. 1..y \subseteq t /\ t \in SUBSET Nat /\ 1..y \in SUBSET Nat BY <1>5, <1>6
  <2>3. x \in t /\ ~(x \in 1..y) BY <1>5, <1>6
  <2> QED BY <1>4, <2>1, <2>2, <2>3 DEF StrictSubsetOrdering
<1> QED BY <1>6

\* What SelectInSeq computes from the set I of matching positions.
LEMMA FirstIn ==
  ASSUME NEW n \in Nat, NEW I \in SUBSET (1..n)
  PROVE  /\ (IF I # {} THEN Min(I) ELSE 0) \in 0..n
         /\ I # {} => (IF I # {} THEN Min(I) ELSE 0) \in I
<1>1. CASE I # {}
  <2>1. Min(I) \in I BY <1>1, LeastExists DEF Min
  <2>2. \A i \in I : i \in 0..n OBVIOUS
  <2> QED BY <1>1, <2>1, <2>2, Zenon
<1>2. CASE I = {} BY <1>2
<1> QED BY <1>1, <1>2

\* What SelectLastInSeq computes from it.
LEMMA LastIn ==
  ASSUME NEW n \in Nat, NEW I \in SUBSET (1..n)
  PROVE  /\ (IF I # {} THEN Max(I) ELSE 0) \in 0..n
         /\ I # {} => (IF I # {} THEN Max(I) ELSE 0) \in I
<1>0. \A i \in I : i \in 0..n OBVIOUS
<1>1. CASE I # {}
  <2> DEFINE J == {n + 1 - i : i \in I}
  <2>1. \A i \in I : n + 1 - i \in 1..n OBVIOUS
  <2>2. J \in SUBSET (1..n) /\ J # {} BY <1>1, <2>1, Zenon
  <2>3. PICK x \in J : \A y \in J : x <= y BY <2>2, LeastExists
  <2>4. PICK m \in I : x = n + 1 - m OBVIOUS
  <2>5. ASSUME NEW j \in I PROVE m >= j
    <3>1. n + 1 - j \in J OBVIOUS
    <3>2. x <= n + 1 - j BY <2>3, <3>1
    <3>3. m \in 1..n /\ j \in 1..n OBVIOUS
    <3> QED BY <3>2, <3>3, <2>4
  <2>6. Max(I) \in I BY <2>5 DEF Max
  <2> QED BY <1>0, <1>1, <2>6, Zenon
<1>2. CASE I = {} BY <1>2
<1> QED BY <1>1, <1>2

\* Overwriting an entry of a file.
LEMMA ReplaceType ==
  ASSUME NEW S, NEW q \in Seq(S), NEW i \in 1..Len(q), NEW e \in S
  PROVE  /\ ReplaceAt(q, i, e) \in Seq(S)
         /\ Len(ReplaceAt(q, i, e)) = Len(q)
         /\ ReplaceAt(q, i, e)[i] = e
BY ExceptSeq DEF ReplaceAt

---------------------------------------------------------------------------
(* Records of the store. *)

\* The row a transaction works on is a row.
LEMMA CurType ==
  ASSUME NEW s, Good(s), Usable(s)
  PROVE  Cur(s) \in entry_client /\ s.cur \in 1..Len(s.clients)
<1>1. s.clients \in Seq(entry_client) /\ s.cur \in 1..Len(s.clients) BY DEF Good, Store, Usable
<1> QED BY <1>1, ElementOfSeq DEF Cur

\* Setting the error flag.
LEMMA FailGood ==
  ASSUME NEW s, Good(s)
  PROVE  Good(Fail(s)) /\ Fail(s).started = s.started /\ Fail(s).notin = s.notin /\ Fail(s).error
BY DEF Good, Store, Fail

\* Writing the row of the transaction back.
LEMMA PutGood ==
  ASSUME NEW s, Good(s), Usable(s), NEW row \in entry_client
  PROVE  Good(Put(s, row)) /\ SameTx(s, Put(s, row)) /\ Cur(Put(s, row)) = row
<1> DEFINE q == s.clients
           i == s.cur
<1>1. q \in Seq(entry_client) /\ i \in 1..Len(q) BY DEF Good, Store, Usable
<1> HIDE DEF q, i
<1>2. /\ ReplaceAt(q, i, row) \in Seq(entry_client)
      /\ Len(ReplaceAt(q, i, row)) = Len(q)
      /\ ReplaceAt(q, i, row)[i] = row
  BY <1>1, ReplaceType
<1> QED BY <1>1, <1>2 DEF Good, Store, Put, SameTx, Cur, q, i

---------------------------------------------------------------------------
(* Transactions. *)

\* apply_transaction closes whatever is open and forgets every flag.
LEMMA ApplyGood ==
  ASSUME NEW s, Good(s)
  PROVE  LET t == apply_transaction(s)
         IN Good(t) /\ ~t.started /\ ~t.error /\ ~t.notin /\ t.clients = s.clients
BY DEF Good, Store, apply_transaction

\* A new process finds the files as they were and no transaction.
LEMMA BeginGood ==
  ASSUME NEW s, Good(s)
  PROVE  Good(begin(s)) /\ ~begin(s).started /\ ~begin(s).error /\ ~begin(s).notin
BY DEF Good, Store, begin, Name

\* A transaction opened at slot i.
LEMMA OpenedGood ==
  ASSUME NEW s, Good(s), NEW i \in 0..Len(s.clients)
  PROVE  LET t == Opened(s, i)
         IN Good(t) /\ t.started /\ ~t.error /\ (i = 0 => t.notin) /\ (i # 0 => ~t.notin) /\ t.cur = i /\ t.clients = s.clients
<1> DEFINE t(b) == [s EXCEPT !.started = TRUE, !.error = FALSE, !.notin = b, !.cur = i]
<1>1. i \in Nat /\ Len(s.clients) \in Nat BY DEF Good, Store
<1>2. CASE i = 0
  <2>1. Good(t(TRUE)) BY <1>1 DEF Good, Store
  <2>2. Opened(s, i) = t(TRUE) BY <1>2 DEF Opened
  <2>3. t(TRUE).started /\ ~t(TRUE).error /\ t(TRUE).notin /\ t(TRUE).cur = i /\ t(TRUE).clients = s.clients
    BY DEF Good, Store
  <2> HIDE DEF t
  <2> QED BY <1>2, <2>1, <2>2, <2>3
<1>3. CASE i # 0
  <2>1. t(FALSE) \in Store BY <1>1 DEF Good, Store
  <2>2. Opened(s, i) = t(FALSE) BY <1>3 DEF Opened
  <2>3. t(FALSE).started /\ ~t(FALSE).error /\ ~t(FALSE).notin /\ t(FALSE).cur = i /\ t(FALSE).clients = s.clients
    BY DEF Good, Store
  <2>4. i \in 1..Len(s.clients) BY <1>1, <1>3
  <2> HIDE DEF t
  <2> QED BY <1>3, <2>1, <2>2, <2>3, <2>4 DEF Good
<1> QED BY <1>2, <1>3

\* A transaction by client id: refused, or open on the first slot with that id.
LEMMA StartByIdGood ==
  ASSUME NEW s, Good(s), NEW id
  PROVE  LET t == start_by_id(s, id)
         IN /\ Good(t)
            /\ ~s.started /\ id \notin LongId => ~t.error
            /\ ~s.started /\ ~t.error => t.started
            /\ Usable(t) /\ ~s.started => id \notin LongId /\ Cur(t).id = id
            /\ (s.started \/ id \in LongId) => t.error
<1> DEFINE I == {i \in 1..Len(s.clients) : s.clients[i].id = id}
           i == SelectInSeq(s.clients, LAMBDA r : r.id = id)
<1>1. i = IF I # {} THEN Min(I) ELSE 0 BY DEF SelectInSeq
<1>2. Len(s.clients) \in Nat /\ I \in SUBSET (1..Len(s.clients)) BY DEF Good, Store
<1> HIDE DEF I
<1>3. i \in 0..Len(s.clients) /\ (i # 0 => i \in I) BY <1>1, <1>2, FirstIn
<1>4. i # 0 => s.clients[i].id = id BY <1>3 DEF I
<1> HIDE DEF i
<1>5. LET t == Opened(s, i)
      IN Good(t) /\ t.started /\ ~t.error /\ (i = 0 => t.notin) /\ (i # 0 => ~t.notin) /\ t.cur = i /\ t.clients = s.clients
  BY <1>3, OpenedGood
<1>6. CASE s.started \/ id \in LongId
  BY <1>6, FailGood DEF start_by_id, Usable
<1>7. CASE ~(s.started \/ id \in LongId)
  <2>1. start_by_id(s, id) = Opened(s, i) BY <1>7 DEF start_by_id, i
  <2> QED BY <1>4, <1>5, <1>7, <2>1 DEF Usable, Cur
<1> QED BY <1>6, <1>7

\* A transaction by address: refused, or open on the first slot with that address.
LEMMA StartByAddressGood ==
  ASSUME NEW s, Good(s), NEW a
  PROVE  LET t == start_by_address(s, a)
         IN /\ Good(t)
            /\ ~s.started => t.started /\ ~t.error
            /\ s.started => t.error
            /\ Usable(t) => ~s.started /\ Cur(t).addr = a
<1> DEFINE I == {i \in 1..Len(s.clients) : s.clients[i].addr = a}
           i == SelectInSeq(s.clients, LAMBDA r : r.addr = a)
<1>1. i = IF I # {} THEN Min(I) ELSE 0 BY DEF SelectInSeq
<1>2. Len(s.clients) \in Nat /\ I \in SUBSET (1..Len(s.clients)) BY DEF Good, Store
<1> HIDE DEF I
<1>3. i \in 0..Len(s.clients) /\ (i # 0 => i \in I) BY <1>1, <1>2, FirstIn
<1>4. i # 0 => s.clients[i].addr = a BY <1>3 DEF I
<1> HIDE DEF i
<1>5. LET t == Opened(s, i)
      IN Good(t) /\ t.started /\ ~t.error /\ (i = 0 => t.notin) /\ (i # 0 => ~t.notin) /\ t.cur = i /\ t.clients = s.clients
  BY <1>3, OpenedGood
<1>6. CASE s.started BY <1>6, FailGood DEF start_by_address, Usable
<1>7. CASE ~s.started
  <2>1. start_by_address(s, a) = Opened(s, i) BY <1>7 DEF start_by_address, i
  <2> QED BY <1>4, <1>5, <1>7, <2>1 DEF Usable, Cur
<1> QED BY <1>6, <1>7

---------------------------------------------------------------------------
(* The registry. *)

\* The row handed out for a position, the blank one past the end included.
LEMMA NthClientType ==
  ASSUME NEW s, Good(s), NEW n
  PROVE  get_nth_client(s, n) \in entry_client
<1>1. s.clients \in Seq(entry_client) BY DEF Good, Store
<1>2. EmptyRow \in entry_client
  BY DEF EmptyRow, entry_client, Status, Awaited, NoWill, entry_will, WillQos, Name, NoMsg
<1> QED BY <1>1, <1>2, ElementOfSeq DEF get_nth_client

\* The address the loops over the clients run up to.
LEMMA LastAddressType ==
  ASSUME NEW s, Good(s)
  PROVE  get_last_client_address(s) \in Address \cup {NoAddress}
<1> DEFINE I == {i \in 1..Len(s.clients) : s.clients[i].status # "EMPTY"}
           i == SelectLastInSeq(s.clients, LAMBDA r : r.status # "EMPTY")
<1>1. i = IF I # {} THEN Max(I) ELSE 0 BY DEF SelectLastInSeq
<1>2. Len(s.clients) \in Nat /\ I \in SUBSET (1..Len(s.clients)) BY DEF Good, Store
<1> HIDE DEF I
<1>3. i \in 0..Len(s.clients) BY <1>1, <1>2, LastIn
<1> HIDE DEF i
<1>4. s.clients \in Seq(entry_client) BY DEF Good, Store
<1>5. i # 0 => s.clients[i] \in entry_client BY <1>3, <1>4, ElementOfSeq
<1> QED BY <1>5 DEF get_last_client_address, i, entry_client

\* The status of the client: the row is written back, or nothing happens.
LEMMA SetStateGood ==
  ASSUME NEW s, Good(s), NEW st \in Status
  PROVE  Good(set_client_state(s, st)) /\ SameTx(s, set_client_state(s, st))
<1>1. CASE Usable(s)
  <2>1. [Cur(s) EXCEPT !.status = st] \in entry_client BY <1>1, CurType DEF entry_client
  <2> QED BY <1>1, <2>1, PutGood DEF set_client_state
<1>2. CASE ~Usable(s) BY <1>2 DEF set_client_state, SameTx
<1> QED BY <1>1, <1>2

\* handle_timeout writes the new timeout.
LEMMA SetTimeoutGood ==
  ASSUME NEW s, Good(s), NEW n \in Nat
  PROVE  Good(set_timeout(s, n)) /\ SameTx(s, set_timeout(s, n))
<1>1. CASE Usable(s)
  <2>1. [Cur(s) EXCEPT !.timeout = n] \in entry_client BY <1>1, CurType DEF entry_client
  <2> QED BY <1>1, <2>1, PutGood DEF set_timeout
<1>2. CASE ~Usable(s) BY <1>2 DEF set_timeout, SameTx
<1> QED BY <1>1, <1>2

\* The message type the gateway waits for.
LEMMA SetAwaitGood ==
  ASSUME NEW s, Good(s), NEW type \in Awaited
  PROVE  Good(set_client_await_message(s, type)) /\ SameTx(s, set_client_await_message(s, type))
<1>1. CASE Usable(s)
  <2>1. [Cur(s) EXCEPT !.await = type] \in entry_client BY <1>1, CurType DEF entry_client
  <2> QED BY <1>1, <2>1, PutGood DEF set_client_await_message
<1>2. CASE ~Usable(s) BY <1>2 DEF set_client_await_message, SameTx
<1> QED BY <1>1, <1>2

\* A CONNECT without clean session.
LEMMA ResetClientGood ==
  ASSUME NEW s, Good(s), NEW id, NEW a \in Address, NEW d \in Nat
  PROVE  Good(reset_client(s, id, a, d))
<1> DEFINE row == [Cur(s) EXCEPT !.addr = a, !.status = "ACTIVE", !.duration = d,
                                 !.timeout = 0, !.await = "PINGREQ"]
<1>1. CASE Usable(s) /\ Cur(s).id = id
  <2>1. row \in entry_client BY <1>1, CurType DEF entry_client, Status, Awaited
  <2> HIDE DEF row
  <2>2. Good(Put(s, row)) BY <1>1, <2>1, PutGood
  <2> QED BY <1>1, <2>2 DEF reset_client, row
<1>2. CASE ~(Usable(s) /\ Cur(s).id = id) BY <1>2, FailGood DEF reset_client
<1> QED BY <1>1, <1>2

\* Blanked rows and rows without files are rows.
LEMMA RowTypes ==
  ASSUME NEW r \in entry_client
  PROVE  EmptyRow \in entry_client /\ Blank(r) \in entry_client /\ FilesDeleted(r) \in entry_client
<1>1. EmptyRow \in entry_client /\ NoWill \in entry_will
  BY DEF EmptyRow, entry_client, Status, Awaited, NoWill, entry_will, WillQos, Name, NoMsg
<1>2. Blank(r) \in entry_client BY <1>1 DEF Blank, EmptyRow, entry_client
<1>3. <<>> \in Seq(Name) /\ <<>> \in Seq(entry_subscription) /\ <<>> \in Seq(entry_publish)
  BY EmptySeq
<1>4. [r EXCEPT !.reg = <<>>, !.sub = <<>>, !.will = NoWill, !.pub = <<>>] \in entry_client
  BY <1>1, <1>3 DEF entry_client
<1> QED BY <1>1, <1>2, <1>4 DEF FilesDeleted

\* A new client gets the first free slot, or one at the end.
LEMMA AddClientGood ==
  ASSUME NEW s, Good(s), NEW id, id \in ClientId \/ s.error, NEW a \in Address, NEW d \in Nat
  PROVE  Good(add_client(s, id, a, d))
<1> DEFINE I == {i \in 1..Len(s.clients) : s.clients[i].id = NoId}
           j == SelectInSeq(s.clients, LAMBDA r : r.id = NoId)
           q == s.clients
           i == find_empty_entry_space_in_registry(s)
           row(r) == [r EXCEPT !.id = id, !.addr = a, !.status = "ACTIVE", !.duration = d,
                               !.timeout = 0, !.await = "PINGREQ"]
           new == IF i > Len(q) THEN Append(q, row(EmptyRow)) ELSE ReplaceAt(q, i, row(Blank(q[i])))
<1>1. j = IF I # {} THEN Min(I) ELSE 0 BY DEF SelectInSeq
<1>2. Len(q) \in Nat /\ I \in SUBSET (1..Len(q)) /\ q \in Seq(entry_client) BY DEF Good, Store
<1> HIDE DEF I
<1>3. j \in 0..Len(q) BY <1>1, <1>2, FirstIn
<1> HIDE DEF j
<1>4. i = IF j = 0 THEN Len(q) + 1 ELSE j BY DEF find_empty_entry_space_in_registry, j
<1> HIDE DEF i
<1>5. i \in 1..(Len(q) + 1) BY <1>2, <1>3, <1>4
<1>6. CASE ~s.started \/ s.error BY <1>6 DEF add_client
<1>7. CASE ~(~s.started \/ s.error) /\ ~s.notin BY <1>7, FailGood DEF add_client
<1>8. CASE ~(~s.started \/ s.error) /\ s.notin
  <2>1. ASSUME NEW r \in entry_client PROVE row(r) \in entry_client
    BY <1>8 DEF entry_client, Status, Awaited
  <2> HIDE DEF row
  <2>2. ASSUME i > Len(q) PROVE new \in Seq(entry_client) /\ i \in 1..Len(new)
    <3>1. row(EmptyRow) \in entry_client
      <4>1. EmptyRow \in entry_client
        BY DEF EmptyRow, entry_client, Status, Awaited, NoWill, entry_will, WillQos, Name, NoMsg
      <4> QED BY <2>1, <4>1
    <3>2. new = Append(q, row(EmptyRow)) BY <2>2
    <3> HIDE DEF q
    <3>3. new \in Seq(entry_client) /\ Len(new) = Len(q) + 1
      BY <1>2, <3>1, <3>2, AppendProperties
    <3> QED BY <1>2, <1>5, <3>3
  <2>3. ASSUME i <= Len(q) PROVE new \in Seq(entry_client) /\ i \in 1..Len(new)
    <3>1. i \in 1..Len(q) BY <1>5, <2>3, <1>2
    <3>2. q[i] \in entry_client BY <1>2, <3>1, ElementOfSeq
    <3>3. row(Blank(q[i])) \in entry_client BY <2>1, <3>2, RowTypes
    <3>4. new = ReplaceAt(q, i, row(Blank(q[i]))) BY <2>3, <1>2, <3>1
    <3> HIDE DEF q
    <3>5. new \in Seq(entry_client) /\ Len(new) = Len(q) BY <1>2, <3>1, <3>3, <3>4, ReplaceType
    <3> QED BY <3>1, <3>5
  <2>4. new \in Seq(entry_client) /\ i \in 1..Len(new) BY <2>2, <2>3, <1>2, <1>5
  <2>5. add_client(s, id, a, d) = [s EXCEPT !.clients = new, !.notin = FALSE, !.cur = i]
    BY <1>8 DEF add_client, i, row
  <2> HIDE DEF new
  <2>6. i \in Nat BY <1>5, <1>2
  <2>7. [s EXCEPT !.clients = new, !.notin = FALSE, !.cur = i] \in Store BY <2>4, <2>6 DEF Good, Store
  <2>8. add_client(s, id, a, d).clients = new /\ add_client(s, id, a, d).cur = i
    BY <2>5 DEF Good, Store
  <2> QED BY <2>4, <2>5, <2>7, <2>8 DEF Good
<1> QED BY <1>6, <1>7, <1>8

\* delete_client leaves the transaction on no client.
LEMMA DeleteClientGood ==
  ASSUME NEW s, Good(s), NEW id
  PROVE  Good(delete_client(s, id))
<1> DEFINE files == ReplaceAt(s.clients, s.cur, FilesDeleted(Cur(s)))
           I == {n \in 1..Len(s.clients) : s.clients[n].id = id}
           i == SelectInSeq(s.clients, LAMBDA r : r.id = id)
           new == IF i = 0 THEN files ELSE ReplaceAt(files, i, Blank(files[i]))
<1>1. i = IF I # {} THEN Min(I) ELSE 0 BY DEF SelectInSeq
<1>2. Len(s.clients) \in Nat /\ I \in SUBSET (1..Len(s.clients)) BY DEF Good, Store
<1> HIDE DEF I
<1>3. i \in 0..Len(s.clients) BY <1>1, <1>2, FirstIn
<1> HIDE DEF i
<1>4. CASE ~Usable(s) BY <1>4 DEF delete_client
<1>5. CASE Usable(s) /\ get_client_subscription_count(s) > 0 BY <1>5, FailGood DEF delete_client
<1>6. CASE Usable(s) /\ ~(get_client_subscription_count(s) > 0)
  <2>1. FilesDeleted(Cur(s)) \in entry_client BY <1>6, CurType, RowTypes
  <2>2. Good(Put(s, FilesDeleted(Cur(s)))) BY <1>6, <2>1, PutGood
  <2>3. files = Put(s, FilesDeleted(Cur(s))).clients BY DEF Put, Good, Store
  <2> HIDE DEF files
  <2>4. files \in Seq(entry_client) BY <2>2, <2>3 DEF Good, Store
  <2>5. Len(files) = Len(s.clients)
    <3> DEFINE q == s.clients
               c == s.cur
               f == FilesDeleted(Cur(s))
    <3>1. q \in Seq(entry_client) /\ c \in 1..Len(q) BY <1>6, CurType DEF Good, Store
    <3>2. f \in entry_client BY <2>1
    <3>3. files = ReplaceAt(q, c, f) BY DEF files
    <3> HIDE DEF q, c, f
    <3>4. Len(files) = Len(q) BY <3>1, <3>2, <3>3, ReplaceType
    <3> QED BY <3>4 DEF q
  <2>6. new \in Seq(entry_client)
    <3>1. CASE i = 0 BY <3>1, <2>4
    <3>2. CASE i # 0
      <4>1. i \in 1..Len(files) BY <3>2, <2>5, <1>3, <1>2
      <4>2. files[i] \in entry_client BY <2>4, <4>1, ElementOfSeq
      <4>3. Blank(files[i]) \in entry_client BY <4>2, RowTypes
      <4>4. ReplaceAt(files, i, Blank(files[i])) \in Seq(entry_client) BY <2>4, <4>1, <4>3, ReplaceType
      <4> QED BY <3>2, <4>4
    <3> QED BY <3>1, <3>2
  <2>7. delete_client(s, id) = [s EXCEPT !.clients = new, !.notin = TRUE]
    BY <1>6 DEF delete_client, files, i
  <2> HIDE DEF new
  <2>8. Good([s EXCEPT !.clients = new, !.notin = TRUE]) BY <2>6 DEF Good, Store
  <2> QED BY <2>7, <2>8
<1> QED BY <1>4, <1>5, <1>6

\* A kill inside delete_client leaves typed files.
LEMMA HalfDeletedGood ==
  ASSUME NEW s, Good(s), NEW u \in half_deleted(s)
  PROVE  Good(u)
<1> DEFINE c == Cur(s)
           d == FilesDeleted(c)
<1>1. CASE u = s BY <1>1
<1>2. CASE Usable(s) /\ u # s
  <2>1. c \in entry_client BY <1>2, CurType
  <2>2. d \in entry_client BY <2>1, RowTypes
  <2>3. PICK e \in {[c EXCEPT !.reg = d.reg], [c EXCEPT !.reg = d.reg, !.sub = d.sub],
                    [c EXCEPT !.reg = d.reg, !.sub = d.sub, !.will = d.will], d} : u = Put(s, e)
    BY <1>2 DEF half_deleted
  <2> HIDE DEF c, d
  <2>4. e \in entry_client
    <3>1. [c EXCEPT !.reg = d.reg] \in entry_client BY <2>1, <2>2 DEF entry_client
    <3>2. [c EXCEPT !.reg = d.reg, !.sub = d.sub] \in entry_client BY <2>1, <2>2 DEF entry_client
    <3>3. [c EXCEPT !.reg = d.reg, !.sub = d.sub, !.will = d.will] \in entry_client
      BY <2>1, <2>2 DEF entry_client
    <3> QED BY <2>2, <2>3, <3>1, <3>2, <3>3
  <2> QED BY <1>2, <2>3, <2>4, PutGood
<1>3. CASE ~Usable(s) BY <1>3 DEF half_deleted
<1> QED BY <1>1, <1>2, <1>3

---------------------------------------------------------------------------
(* Registrations. *)

\* A topic name read from the registrations, and the buffer it is read into.
LEMMA TopicNameType ==
  ASSUME NEW s, Good(s), NEW tid
  PROVE  /\ get_topic_name(s, tid) \in Name \cup {Null}
         /\ Good(touch_topic_name(s, tid)) /\ SameTx(s, touch_topic_name(s, tid))
         /\ touch_topic_name(s, tid).clients = s.clients
<1>1. get_topic_name(s, tid) \in Name \cup {Null}
  <2>1. CASE Usable(s) /\ tid \in DOMAIN Cur(s).reg
    <3>1. Cur(s).reg \in Seq(Name) BY <2>1, CurType DEF entry_client
    <3>2. Cur(s).reg[tid] \in Name BY <2>1, <3>1, ElementOfSeq
    <3> QED BY <2>1, <3>2 DEF get_topic_name
  <2>2. CASE ~(Usable(s) /\ tid \in DOMAIN Cur(s).reg) BY <2>2 DEF get_topic_name
  <2> QED BY <2>1, <2>2
<1> DEFINE b == IF get_topic_name(s, tid) = Null THEN Empty ELSE get_topic_name(s, tid)
<1>2. b \in Name BY <1>1 DEF Name
<1> HIDE DEF b
<1>3. /\ Good([s EXCEPT !.regbuf = b]) /\ SameTx(s, [s EXCEPT !.regbuf = b])
      /\ [s EXCEPT !.regbuf = b].clients = s.clients
  BY <1>2 DEF Good, Store, SameTx
<1>4. touch_topic_name(s, tid) \in {s, [s EXCEPT !.regbuf = b]} BY DEF touch_topic_name, b
<1>5. SameTx(s, s) BY DEF SameTx
<1> QED BY <1>1, <1>3, <1>4, <1>5

\* A predefined topic name, and the buffer it is read into.
LEMMA PredefinedNameType ==
  ASSUME NEW s, Good(s), NEW tid
  PROVE  /\ get_predefined_topic_name(s, tid) \in Topic \cup {Null}
         /\ Good(touch_predefined_topic_name(s, tid))
         /\ SameTx(s, touch_predefined_topic_name(s, tid))
         /\ touch_predefined_topic_name(s, tid).clients = s.clients
<1>1. get_predefined_topic_name(s, tid) \in Topic \cup {Null}
  BY PredefinedAssumption DEF get_predefined_topic_name
<1> DEFINE b == IF tid \in DOMAIN Predefined THEN Predefined[tid] ELSE Empty
<1>2. b \in Name BY PredefinedAssumption DEF Name
<1> HIDE DEF b
<1>3. /\ Good([s EXCEPT !.prebuf = b]) /\ SameTx(s, [s EXCEPT !.prebuf = b])
      /\ [s EXCEPT !.prebuf = b].clients = s.clients
  BY <1>2 DEF Good, Store, SameTx
<1>4. touch_predefined_topic_name(s, tid) \in {s, [s EXCEPT !.prebuf = b]}
  BY DEF touch_predefined_topic_name, b
<1>5. SameTx(s, s) BY DEF SameTx
<1> QED BY <1>1, <1>3, <1>4, <1>5

\* is_topic_known reads an entry, or sets the error for id 0.
LEMMA TopicKnownGood ==
  ASSUME NEW s, Good(s), NEW tid
  PROVE  Good(touch_topic_known(s, tid))
BY FailGood, TopicNameType DEF touch_topic_known

\* A registration is found or appended; the id returned is a position.
LEMMA RegistrationGood ==
  ASSUME NEW s, Good(s), NEW t \in Name
  PROVE  Good(add_client_registration(s, t)) /\ new_topic_id(s, t) \in Nat
<1>1. CASE ~Usable(s) BY <1>1 DEF add_client_registration, new_topic_id
<1>2. CASE Usable(s)
  <2> DEFINE reg == Cur(s).reg
             new == IF Contains(reg, t) THEN reg ELSE Append(reg, t)
             I == {i \in 1..Len(reg) : reg[i] = t}
             row == [Cur(s) EXCEPT !.reg = new]
  <2>1. reg \in Seq(Name) /\ Len(reg) \in Nat BY <1>2, CurType DEF entry_client
  <2>2. Append(reg, t) \in Seq(Name) BY <2>1, AppendProperties
  <2>3. new \in Seq(Name) BY <2>1, <2>2
  <2>4. SelectInSeq(reg, LAMBDA n : n = t) = IF I # {} THEN Min(I) ELSE 0 BY DEF SelectInSeq
  <2>5. I \in SUBSET (1..Len(reg)) OBVIOUS
  <2>6. (IF I # {} THEN Min(I) ELSE 0) \in 0..Len(reg)
    <3> HIDE DEF I, reg
    <3> QED BY <2>1, <2>5, FirstIn
  <2>7. new_topic_id(s, t) \in Nat
    <3>1. SelectInSeq(reg, LAMBDA n : n = t) \in Nat BY <2>1, <2>4, <2>6
    <3> QED BY <1>2, <2>1, <3>1 DEF new_topic_id
  <2> HIDE DEF new
  <2>8. row \in entry_client BY <1>2, <2>3, CurType DEF entry_client
  <2> HIDE DEF row
  <2>9. Good(Put(s, row)) BY <1>2, <2>8, PutGood
  <2>10. Good([Put(s, row) EXCEPT !.regbuf = t])
    <3> DEFINE u == Put(s, row)
    <3>1. Good(u) BY <2>9
    <3> HIDE DEF u
    <3>2. Good([u EXCEPT !.regbuf = t]) BY <3>1 DEF Good, Store
    <3> QED BY <3>2 DEF u
  <2>11. add_client_registration(s, t) = [Put(s, row) EXCEPT !.regbuf = t]
    BY <1>2 DEF add_client_registration, row, new
  <2> QED BY <2>7, <2>10, <2>11
<1> QED BY <1>1, <1>2

---------------------------------------------------------------------------
(* Subscriptions. *)

\* The entry is_subscribed finds is one with that name.
LEMMA FindSubType ==
  ASSUME NEW s, Good(s), Usable(s), NEW t
  PROVE  /\ FindSub(s, t) \in 0..Len(Cur(s).sub)
         /\ FindSub(s, t) # 0 => Cur(s).sub[FindSub(s, t)] \in entry_subscription
<1> DEFINE q == Cur(s).sub
           I == {i \in 1..Len(q) : q[i].name = t}
<1>1. FindSub(s, t) = IF I # {} THEN Min(I) ELSE 0 BY DEF FindSub, SelectInSeq
<1>2. q \in Seq(entry_subscription) /\ Len(q) \in Nat BY CurType DEF entry_client
<1>3. I \in SUBSET (1..Len(q)) OBVIOUS
<1> HIDE DEF I
<1>4. FindSub(s, t) \in 0..Len(q)
  <2> HIDE DEF q
  <2> QED BY <1>1, <1>2, <1>3, FirstIn
<1>5. FindSub(s, t) # 0 => FindSub(s, t) \in 1..Len(q) BY <1>2, <1>4
<1> QED BY <1>2, <1>4, <1>5, ElementOfSeq

\* What a subscription answers about itself.
LEMMA SubscriptionType ==
  ASSUME NEW s, Good(s), NEW t, is_subscribed(s, t)
  PROVE  get_subscription_topic_id(s, t) \in Nat /\ get_subscription_qos(s, t) \in {0, 1}
<1>1. Usable(s) /\ FindSub(s, t) # 0 BY DEF is_subscribed
<1>2. Cur(s).sub[FindSub(s, t)] \in entry_subscription BY <1>1, FindSubType
<1> QED BY <1>2 DEF get_subscription_topic_id, get_subscription_qos, entry_subscription

\* A subscription goes into the last hole or to the end of the file.
LEMMA AddSubscriptionGood ==
  ASSUME NEW s, Good(s), NEW t, NEW tid \in Nat, NEW qos \in {0, 1}
  PROVE  Good(add_subscription(s, t, tid, qos))
<1> DEFINE sub == Cur(s).sub
           entry == [tid |-> tid, qos |-> qos, name |-> t]
           I == {i \in 1..Len(sub) : sub[i].tid = 0 /\ sub[i].name = Empty}
           hole == SelectLastInSeq(sub, LAMBDA e : e.tid = 0 /\ e.name = Empty)
           new == IF hole = 0 THEN Append(sub, entry) ELSE ReplaceAt(sub, hole, entry)
           row == [Cur(s) EXCEPT !.sub = new]
<1>1. \/ add_subscription(s, t, tid, qos) = s
      \/ Usable(s) /\ t \in Topic /\ add_subscription(s, t, tid, qos) = Put(s, row)
  <2>1. CASE ~Usable(s) \/ t \notin Topic \/ tid = 0
    <3>1. add_subscription(s, t, tid, qos) = s BY <2>1 DEF add_subscription
    <3> HIDE DEF row
    <3> QED BY <3>1
  <2>2. CASE ~(~Usable(s) \/ t \notin Topic \/ tid = 0)
    <3>1. CASE \E j \in DOMAIN sub : sub[j].tid = tid /\ sub[j].name = t
      <4>1. add_subscription(s, t, tid, qos) = s BY <2>2, <3>1 DEF add_subscription
      <4> HIDE DEF row
      <4> QED BY <4>1
    <3>2. CASE ~(\E j \in DOMAIN sub : sub[j].tid = tid /\ sub[j].name = t)
      BY <2>2, <3>2 DEF add_subscription
    <3> QED BY <3>1, <3>2
  <2> QED BY <2>1, <2>2
<1>2. ASSUME Usable(s), t \in Topic PROVE Good(Put(s, row))
  <2>1. sub \in Seq(entry_subscription) /\ Len(sub) \in Nat BY <1>2, CurType DEF entry_client
  <2>2. entry \in entry_subscription BY <1>2 DEF entry_subscription, Name
  <2>3. hole = IF I # {} THEN Max(I) ELSE 0 BY DEF SelectLastInSeq
  <2>4. I \in SUBSET (1..Len(sub)) OBVIOUS
  <2> HIDE DEF I, hole, entry
  <2>5. hole \in 0..Len(sub)
    <3> HIDE DEF sub
    <3> QED BY <2>1, <2>3, <2>4, LastIn
  <2>6. new \in Seq(entry_subscription)
    <3>1. Append(sub, entry) \in Seq(entry_subscription) BY <2>1, <2>2, AppendProperties
    <3>2. ASSUME hole # 0 PROVE ReplaceAt(sub, hole, entry) \in Seq(entry_subscription)
      <4>1. hole \in 1..Len(sub) BY <2>1, <2>5, <3>2
      <4> HIDE DEF sub
      <4> QED BY <2>1, <2>2, <4>1, ReplaceType
    <3> QED BY <3>1, <3>2
  <2> HIDE DEF new
  <2>7. row \in entry_client BY <1>2, <2>6, CurType DEF entry_client
  <2> HIDE DEF row
  <2> QED BY <1>2, <2>7, PutGood
<1> HIDE DEF row
<1> QED BY <1>1, <1>2

\* The global counts are natural numbers and do not touch the transaction.
LEMMA CountGood ==
  ASSUME NEW s, Good(s), NEW t
  PROVE  /\ Good(increment_global_subscription_count(s, t))
         /\ Good(decrement_global_subscription_count(s, t))
         /\ SameTx(s, decrement_global_subscription_count(s, t))
         /\ decrement_global_subscription_count(s, t).clients = s.clients
<1>1. ASSUME NEW c \in [Topic -> Nat]
      PROVE  Good([s EXCEPT !.count = c]) /\ SameTx(s, [s EXCEPT !.count = c])
             /\ [s EXCEPT !.count = c].clients = s.clients
  BY DEF Good, Store, SameTx
<1>2. s.count \in [Topic -> Nat] BY DEF Good, Store
<1>3. SameTx(s, s) BY DEF SameTx
<1>4. Good(increment_global_subscription_count(s, t))
  <2>1. CASE s.error \/ t \notin Topic BY <2>1 DEF increment_global_subscription_count
  <2>2. CASE ~(s.error \/ t \notin Topic)
    <3> DEFINE c == [s.count EXCEPT ![t] = @ + 1]
    <3>1. c \in [Topic -> Nat] BY <1>2, <2>2
    <3>2. increment_global_subscription_count(s, t) = [s EXCEPT !.count = c]
      BY <2>2 DEF increment_global_subscription_count
    <3> HIDE DEF c
    <3> QED BY <1>1, <3>1, <3>2
  <2> QED BY <2>1, <2>2
<1>5. \/ decrement_global_subscription_count(s, t) = s
      \/ \E c \in [Topic -> Nat] : decrement_global_subscription_count(s, t) = [s EXCEPT !.count = c]
  <2>1. CASE s.error \/ t \notin Topic \/ s.count[t] = 0 BY <2>1 DEF decrement_global_subscription_count
  <2>2. CASE ~(s.error \/ t \notin Topic \/ s.count[t] = 0)
    <3> DEFINE c == [s.count EXCEPT ![t] = @ - 1]
    <3>1. c \in [Topic -> Nat] BY <1>2, <2>2
    <3>2. decrement_global_subscription_count(s, t) = [s EXCEPT !.count = c]
      BY <2>2 DEF decrement_global_subscription_count
    <3> HIDE DEF c
    <3> QED BY <3>1, <3>2
  <2> QED BY <2>1, <2>2
<1>6. ASSUME NEW u, u = s \/ \E c \in [Topic -> Nat] : u = [s EXCEPT !.count = c]
      PROVE  Good(u) /\ SameTx(s, u) /\ u.clients = s.clients
  <2>1. CASE u = s BY <1>3, <2>1
  <2>2. CASE \E c \in [Topic -> Nat] : u = [s EXCEPT !.count = c]
    <3>1. PICK c \in [Topic -> Nat] : u = [s EXCEPT !.count = c] BY <2>2
    <3> QED BY <1>1, <3>1
  <2> QED BY <1>6, <2>1, <2>2
<1> QED BY <1>4, <1>5, <1>6

\* A subscription is blanked in place; an id without one sets the error.
LEMMA DeleteSubscriptionGood ==
  ASSUME NEW s, Good(s), NEW tid
  PROVE  LET u == delete_subscription(s, tid)
         IN /\ Good(u)
            /\ Usable(s) /\ (tid = 0 \/ \E j \in 1..Len(Cur(s).sub) : Cur(s).sub[j].tid = tid) =>
                 SameTx(s, u) /\ Cur(u).id = Cur(s).id
<1> DEFINE sub == Cur(s).sub
           I == {i \in 1..Len(sub) : sub[i].tid = tid}
           i == SelectInSeq(sub, LAMBDA e : e.tid = tid)
           row == [Cur(s) EXCEPT !.sub = ReplaceAt(@, i, SubHole)]
           u == delete_subscription(s, tid)
<1>1. CASE ~s.started \/ s.error \/ tid = 0
  <2>1. u = s BY <1>1 DEF delete_subscription
  <2> QED BY <2>1 DEF SameTx
<1>2. CASE ~(~s.started \/ s.error \/ tid = 0) /\ s.notin
  <2>1. u = Fail(s) BY <1>2 DEF delete_subscription
  <2> QED BY <1>2, <2>1, FailGood DEF Usable
<1>3. CASE Usable(s) /\ tid # 0
  <2>1. sub \in Seq(entry_subscription) /\ Len(sub) \in Nat BY <1>3, CurType DEF entry_client
  <2>2. i = IF I # {} THEN Min(I) ELSE 0 BY DEF SelectInSeq
  <2>3. I \in SUBSET (1..Len(sub)) OBVIOUS
  <2>4. (\E j \in 1..Len(sub) : sub[j].tid = tid) => I # {} OBVIOUS
  <2> HIDE DEF I
  <2>5. i \in 0..Len(sub) /\ (I # {} => i \in I)
    <3> HIDE DEF sub
    <3> QED BY <2>1, <2>2, <2>3, FirstIn
  <2>6. I # {} => i # 0 BY <2>3, <2>5
  <2> HIDE DEF i
  <2>7. CASE i = 0
    <3>1. u = Fail(s) BY <1>3, <2>7 DEF delete_subscription, Usable, i
    <3>2. Good(u) BY <3>1, FailGood
    <3> QED BY <1>3, <2>4, <2>6, <2>7, <3>2
  <2>8. CASE i # 0
    <3>1. SubHole \in entry_subscription BY DEF SubHole, entry_subscription, Name
    <3>2. i \in 1..Len(sub) BY <2>1, <2>5, <2>8
    <3>3. ReplaceAt(sub, i, SubHole) \in Seq(entry_subscription)
      <4> HIDE DEF sub
      <4> QED BY <2>1, <3>1, <3>2, ReplaceType
    <3>4. row \in entry_client /\ row.id = Cur(s).id BY <1>3, <3>3, CurType DEF entry_client
    <3>5. u = Put(s, row) BY <1>3, <2>8 DEF delete_subscription, Usable, i
    <3> HIDE DEF row, u
    <3>6. Good(u) /\ SameTx(s, u) /\ Cur(u) = row BY <1>3, <3>4, <3>5, PutGood
    <3> QED BY <3>4, <3>6 DEF u
  <2> QED BY <2>7, <2>8
<1> QED BY <1>1, <1>2, <1>3 DEF Usable

---------------------------------------------------------------------------
(* The will. *)

\* The three operations on the will file.
LEMMA WillGood ==
  ASSUME NEW s, Good(s)
  PROVE  /\ \A t \in Name, qos \in WillQos : Good(set_client_willtopic(s, t, qos))
         /\ \A msg \in Payload : Good(set_client_willmessage(s, msg))
         /\ Good(delete_will(s))
         /\ has_client_will(s) => get_client_will(s) \in entry_will
<1>1. CASE ~Usable(s)
  BY <1>1 DEF set_client_willtopic, set_client_willmessage, delete_will, has_client_will
<1>2. CASE Usable(s)
  <2>1. Cur(s) \in entry_client /\ Cur(s).will \in entry_will BY <1>2, CurType DEF entry_client
  <2>2. ASSUME NEW w \in entry_will PROVE Good(Put(s, [Cur(s) EXCEPT !.will = w]))
    <3>1. [Cur(s) EXCEPT !.will = w] \in entry_client BY <2>1 DEF entry_client
    <3> QED BY <1>2, <3>1, PutGood
  <2>3. ASSUME NEW t \in Name, NEW qos \in WillQos PROVE Good(set_client_willtopic(s, t, qos))
    <3> DEFINE w == [Cur(s).will EXCEPT !.set = TRUE, !.topic = t, !.qos = qos]
    <3>1. w \in entry_will BY <2>1 DEF entry_will
    <3>2. set_client_willtopic(s, t, qos) = Put(s, [Cur(s) EXCEPT !.will = w])
      BY <1>2 DEF set_client_willtopic
    <3> HIDE DEF w
    <3> QED BY <2>2, <3>1, <3>2
  <2>4. ASSUME NEW msg \in Payload PROVE Good(set_client_willmessage(s, msg))
    <3> DEFINE w == [Cur(s).will EXCEPT !.set = TRUE, !.msg = msg]
    <3>1. w \in entry_will BY <2>1 DEF entry_will
    <3>2. set_client_willmessage(s, msg) = Put(s, [Cur(s) EXCEPT !.will = w])
      BY <1>2 DEF set_client_willmessage
    <3> HIDE DEF w
    <3> QED BY <2>2, <3>1, <3>2
  <2>5. Good(delete_will(s))
    <3>1. NoWill \in entry_will BY DEF NoWill, entry_will, WillQos, Name, NoMsg
    <3> QED BY <2>2, <3>1 DEF delete_will
  <2> QED BY <2>1, <2>3, <2>4, <2>5 DEF get_client_will
<1> QED BY <1>1, <1>2

---------------------------------------------------------------------------
(* The queue of publishes. *)

\* Writing a queue back.
LEMMA PutQueueGood ==
  ASSUME NEW s, Good(s), Usable(s), NEW q \in Seq(entry_publish)
  PROVE  Good(Put(s, [Cur(s) EXCEPT !.pub = q]))
<1>1. [Cur(s) EXCEPT !.pub = q] \in entry_client BY CurType DEF entry_client
<1> QED BY <1>1, PutGood

\* The message get_next_publish returns when there is one.
LEMMA NextPublishType ==
  ASSUME NEW s, Good(s), has_client_publishes(s)
  PROVE  get_next_publish(s) \in entry_publish
<1> DEFINE q == Cur(s).pub
           I == {i \in 1..Len(q) : q[i].pid # 0}
<1>1. Usable(s) /\ LastPublish(s) # 0 BY DEF has_client_publishes
<1>2. q \in Seq(entry_publish) /\ Len(q) \in Nat BY <1>1, CurType DEF entry_client
<1>3. LastPublish(s) = IF I # {} THEN Max(I) ELSE 0 BY DEF LastPublish, SelectLastInSeq
<1>4. I \in SUBSET (1..Len(q)) OBVIOUS
<1> HIDE DEF I
<1>5. LastPublish(s) \in 0..Len(q)
  <2> HIDE DEF q
  <2> QED BY <1>2, <1>3, <1>4, LastIn
<1>6. LastPublish(s) \in 1..Len(q) BY <1>1, <1>2, <1>5
<1> QED BY <1>2, <1>6, ElementOfSeq DEF get_next_publish

\* A message is queued in the last hole or at the end.
LEMMA AddPublishGood ==
  ASSUME NEW s, Good(s), NEW data \in Data, NEW tid \in Nat, NEW qos \in {0, 1}
  PROVE  Good(add_client_publish(s, data, tid, qos))
<1>1. CASE ~Usable(s) BY <1>1 DEF add_client_publish
<1>2. CASE Usable(s)
  <2> DEFINE pub == Cur(s).pub
             I == {j \in 1..Len(pub) : pub[j].pid = 0}
             hole == SelectLastInSeq(pub, LAMBDA e : e.pid = 0)
             i == IF hole = 0 THEN Len(pub) + 1 ELSE hole
             entry == [pid |-> i, tid |-> tid, qos |-> qos, mid |-> 0, data |-> data]
             new == IF hole = 0 THEN Append(pub, entry) ELSE ReplaceAt(pub, hole, entry)
  <2>1. pub \in Seq(entry_publish) /\ Len(pub) \in Nat BY <1>2, CurType DEF entry_client
  <2>2. hole = IF I # {} THEN Max(I) ELSE 0 BY DEF SelectLastInSeq
  <2>3. I \in SUBSET (1..Len(pub)) OBVIOUS
  <2> HIDE DEF I, hole
  <2>4. hole \in 0..Len(pub)
    <3> HIDE DEF pub
    <3> QED BY <2>1, <2>2, <2>3, LastIn
  <2>5. i \in Nat BY <2>1, <2>4
  <2> HIDE DEF i
  <2>6. entry \in entry_publish BY <2>5 DEF entry_publish
  <2> HIDE DEF entry
  <2>7. new \in Seq(entry_publish)
    <3>1. Append(pub, entry) \in Seq(entry_publish) BY <2>1, <2>6, AppendProperties
    <3>2. ASSUME hole # 0 PROVE ReplaceAt(pub, hole, entry) \in Seq(entry_publish)
      <4>1. hole \in 1..Len(pub) BY <2>1, <2>4, <3>2
      <4> HIDE DEF pub
      <4> QED BY <2>1, <2>6, <4>1, ReplaceType
    <3> QED BY <3>1, <3>2
  <2>8. add_client_publish(s, data, tid, qos) = Put(s, [Cur(s) EXCEPT !.pub = new])
    BY <1>2 DEF add_client_publish, hole, i, entry
  <2> HIDE DEF new
  <2> QED BY <1>2, <2>7, <2>8, PutQueueGood
<1> QED BY <1>1, <1>2

\* An entry of the queue is given a message id or blanked.
LEMMA QueueEntryGood ==
  ASSUME NEW s, Good(s), NEW pid, NEW mid \in Nat
  PROVE  Good(set_publish_msg_id(s, pid, mid)) /\ Good(remove_publish_by_publish_id(s, pid))
<1> DEFINE pub == Cur(s).pub
<1>1. CASE ~Usable(s) \/ pid \notin DOMAIN pub
  BY <1>1 DEF set_publish_msg_id, remove_publish_by_publish_id
<1>2. CASE Usable(s) /\ pid \in DOMAIN pub /\ pub[pid].pid # pid
  BY <1>2, FailGood DEF set_publish_msg_id, remove_publish_by_publish_id
<1>3. CASE Usable(s) /\ pid \in DOMAIN pub /\ pub[pid].pid = pid
  <2>1. pub \in Seq(entry_publish) /\ pid \in 1..Len(pub) BY <1>3, CurType DEF entry_client
  <2>2. pub[pid] \in entry_publish BY <2>1, ElementOfSeq
  <2>3. [pub[pid] EXCEPT !.mid = mid] \in entry_publish BY <2>2 DEF entry_publish
  <2>4. PubHole \in entry_publish BY DEF PubHole, entry_publish
  <2>5. ASSUME NEW e \in entry_publish PROVE Good(Put(s, [Cur(s) EXCEPT !.pub = ReplaceAt(pub, pid, e)]))
    <3>1. ReplaceAt(pub, pid, e) \in Seq(entry_publish)
      <4> HIDE DEF pub
      <4> QED BY <2>1, ReplaceType
    <3> QED BY <1>3, <3>1, PutQueueGood
  <2>6. set_publish_msg_id(s, pid, mid)
          = Put(s, [Cur(s) EXCEPT !.pub = ReplaceAt(pub, pid, [pub[pid] EXCEPT !.mid = mid])])
    BY <1>3 DEF set_publish_msg_id
  <2>7. remove_publish_by_publish_id(s, pid) = Put(s, [Cur(s) EXCEPT !.pub = ReplaceAt(pub, pid, PubHole)])
    BY <1>3 DEF remove_publish_by_publish_id
  <2> HIDE DEF pub
  <2> QED BY <2>3, <2>4, <2>5, <2>6, <2>7
<1> QED BY <1>1, <1>2, <1>3

\* A PUBACK damages the first entry and keeps the rest.
LEMMA RemoveByMsgIdGood ==
  ASSUME NEW s, Good(s), NEW mid
  PROVE  Good(remove_publish_by_msg_id(s, mid))
<1>1. CASE ~Usable(s) BY <1>1 DEF remove_publish_by_msg_id
<1>2. CASE Usable(s)
  <2> DEFINE pub == Cur(s).pub
             found == \E j \in DOMAIN pub : pub[j].mid = mid
             hit == IF found /\ pub[1].pid # 0
                    THEN ReplaceAt(pub, 1, [pub[1] EXCEPT !.data = Damaged]) ELSE pub
             u == Put(s, [Cur(s) EXCEPT !.pub = hit])
  <2>1. pub \in Seq(entry_publish) BY <1>2, CurType DEF entry_client
  <2>2. ASSUME found PROVE ReplaceAt(pub, 1, [pub[1] EXCEPT !.data = Damaged]) \in Seq(entry_publish)
    <3>1. 1 \in 1..Len(pub) BY <2>1, <2>2
    <3>2. pub[1] \in entry_publish BY <2>1, <3>1, ElementOfSeq
    <3>3. [pub[1] EXCEPT !.data = Damaged] \in entry_publish BY <3>2 DEF entry_publish
    <3> HIDE DEF pub
    <3> QED BY <2>1, <3>1, <3>3, ReplaceType
  <2>3. hit \in Seq(entry_publish) BY <2>1, <2>2
  <2>4. remove_publish_by_msg_id(s, mid) = [u EXCEPT !.error = (mid = 0)]
    BY <1>2 DEF remove_publish_by_msg_id
  <2> HIDE DEF hit
  <2>5. Good(u) BY <1>2, <2>3, PutQueueGood
  <2> HIDE DEF u
  <2>6. ASSUME NEW b \in BOOLEAN PROVE Good([u EXCEPT !.error = b]) BY <2>5 DEF Good, Store
  <2>7. (mid = 0) \in BOOLEAN OBVIOUS
  <2> QED BY <2>4, <2>6, <2>7
<1> QED BY <1>1, <1>2
============================================================================
