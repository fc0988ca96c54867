--------------------------- MODULE Configuration ---------------------------
(***************************************************************************)
(* The configuration files.  Each attempt to connect reads MQTT.CON three  *)
(* times, line by line: for the broker and the client id, for the login,   *)
(* for the will of the gateway; what was found decides which CONNECT is    *)
(* sent.  TOPICS.PRE is read from its start for every lookup of a          *)
(* predefined topic id.                                                    *)
(*                                                                         *)
(* A line of MQTT.CON is its key (the word it starts with), its size, the  *)
(* number len of characters after the space, and nums: what atoi makes of  *)
(* a number, the parts of an address, the characters of any other text.  A *)
(* line of TOPICS.PRE is its size, the id and the name, len characters     *)
(* long.  Lines fit into the buffers they are read and copied to, and a    *)
(* line of TOPICS.PRE with more than three characters has a name.          *)
(***************************************************************************)
EXTENDS Integers, Sequences, FiniteSetsExt

CONSTANTS
  Configs,    \* <<MQTT.CON, TOPICS.PRE>> the gateway may start with
  Edits,      \* MQTT.CON after an edit
  TopicIds    \* predefined topic ids clients use

\* A number yields one value, a text its characters.
Texts == {"clientid", "username", "password", "willtopic", "willmessage"}
Numbers == {"brokerport", "willqos", "willretain"}
ConLine ==
  {l \in [key : STRING, size : Nat, len : Nat, nums : Seq(Int)] :
     /\ l.key \in Texts => Len(l.nums) = l.len
     /\ l.key \in Numbers => Len(l.nums) = 1}
PreLine == [size : Nat, len : Nat, id : Int, name : STRING]

ASSUME ConfigurationAssumption ==
  /\ \A c \in Configs : c[1] \in Seq(ConLine) /\ c[2] \in Seq(PreLine)
  /\ Edits \subseteq Seq(ConLine)
  /\ TopicIds \subseteq Int

VARIABLES
  con,     \* MQTT.CON
  pre,     \* TOPICS.PRE
  at,      \* what the thread is doing
  pos,     \* the line it reads next
  has,     \* the keys a value was found for
  val,     \* the values found
  sent,    \* the CONNECT sent last
  look     \* the last lookup in TOPICS.PRE: id and result

vars == <<con, pre, at, pos, has, val, sent, look>>

ConfigKeys == {"brokeraddress", "brokerport", "clientid"}
LoginKeys == {"username", "password"}
WillKeys == {"willtopic", "willmessage", "willqos", "willretain"}
Key == ConfigKeys \cup LoginKeys \cup WillKeys
KeysOf(pass) == CASE pass = "config" -> ConfigKeys [] pass = "login" -> LoginKeys [] OTHER -> WillKeys
Passes == {"config", "login", "will"}

NotSent == [version |-> 0, server |-> <<>>, port |-> <<>>, id |-> <<>>, login |-> <<>>, will |-> <<>>,
            retain |-> FALSE]
NoTopic == "nullptr"

Init ==
  /\ \E c \in Configs : con = c[1] /\ pre = c[2]
  /\ at = "idle" /\ pos = 1
  /\ has = {} /\ val = [k \in Key |-> <<>>]
  /\ sent = NotSent
  /\ look = [id |-> 0, name |-> NoTopic]

---------------------------------------------------------------------------
(* The values of a line: parsed or not, and what is stored. *)

\* The text is copied without its end over what an earlier line of the key left.
parse_string(l, old) == [ok |-> l.len > 0, val |-> l.nums \o SubSeq(old, l.len + 1, Len(old))]

parse_uint8_t(l) == [ok |-> l.len \in 1..3, val |-> <<l.nums[1] % 256>>]

\* Mutant of parse_uint16_t: a port of 0 is accepted.
parse_uint16_t_with_zero(l) == [ok |-> l.len \in 1..6, val |-> <<l.nums[1] % 65536>>]

parse_uint16_t(l) ==
  [ok |-> l.len \in 1..6 /\ l.nums[1] % 65536 # 0, val |-> <<l.nums[1] % 65536>>]

\* Between 8 and 16 characters, four numbers; each is cut to 16 bits before it is compared with 255.
parse_ipaddress(l) ==
  LET octets == [i \in DOMAIN l.nums |-> l.nums[i] % 65536]
  IN [ok |-> l.len \in 8..16 /\ DOMAIN octets = 1..4 /\ \A i \in DOMAIN octets : octets[i] <= 255,
      val |-> octets]

Parsed(l, old) ==
  CASE l.key = "brokeraddress" -> parse_ipaddress(l)
    [] l.key = "brokerport" -> parse_uint16_t(l)
    [] l.key \in {"willqos", "willretain"} -> parse_uint8_t(l)
    [] OTHER -> parse_string(l, old)

---------------------------------------------------------------------------
(* An attempt to connect. *)

\* Mutant of Attempt: what the last attempt found is not forgotten.
Attempt_keeping ==
  /\ at = "idle"
  /\ at' = "config" /\ pos' = 1
  /\ UNCHANGED <<con, pre, has, val, sent, look>>

Attempt ==
  /\ at = "idle"
  /\ at' = "config" /\ pos' = 1 /\ has' = {} /\ val' = [k \in Key |-> <<>>]
  /\ UNCHANGED <<con, pre, sent, look>>

\* Mutant of Ended: a last line without newline is not read.
Ended_at_last_line(file) == pos + 1 \in DOMAIN file => file[pos].size = 0

\* readLine returns 0: the end of the file, or an empty line.
Ended(file) == pos \in DOMAIN file => file[pos].size = 0

(***************************************************************************)
(* The last line of a key counts, even if it has no value; only willretain *)
(* keeps what it had when a later line is not 0 or 1.                      *)
(***************************************************************************)
ReadLine ==
  LET l == con[pos]
      p == Parsed(l, IF l.key \in Key THEN val[l.key] ELSE <<>>)
  IN /\ at \in Passes /\ ~Ended(con)
     /\ pos' = pos + 1
     /\ \/ l.key \notin KeysOf(at) /\ UNCHANGED <<has, val>>
        \/ /\ l.key \in KeysOf(at) /\ l.key # "willretain"
           /\ has' = IF p.ok THEN has \cup {l.key} ELSE has \ {l.key}
           /\ val' = IF p.ok THEN [val EXCEPT ![l.key] = p.val] ELSE val
        \/ /\ l.key \in KeysOf(at) /\ l.key = "willretain" /\ p.ok /\ p.val[1] <= 1
           /\ has' = has \cup {l.key} /\ val' = [val EXCEPT ![l.key] = p.val]
        \/ /\ l.key \in KeysOf(at) /\ l.key = "willretain" /\ ~(p.ok /\ p.val[1] <= 1)
           /\ UNCHANGED <<has, val>>
     /\ UNCHANGED <<con, pre, at, sent, look>>

\* The end of a pass; without broker, port and client id the attempt is over.
EndOfPass ==
  /\ at \in Passes /\ Ended(con)
  /\ pos' = 1
  /\ at' = CASE at = "config" /\ ConfigKeys \subseteq has -> "login"
             [] at = "config" /\ ~(ConfigKeys \subseteq has) -> "idle"
             [] at = "login" -> "will"
             [] OTHER -> "open"
  /\ UNCHANGED <<con, pre, has, val, sent, look>>

HasLogin == LoginKeys \subseteq has
HasWill == WillKeys \subseteq has

\* setServer and IPStack::connect; the address 255.255.255.255 is the mark for `no address'.
OpenSocket ==
  /\ at = "open"
  /\ \/ at' = "idle"
     \/ val["brokeraddress"] # <<255, 255, 255, 255>> /\ at' = "connect"
  /\ UNCHANGED <<con, pre, pos, has, val, sent, look>>

(***************************************************************************)
(* The four overloads of connect.  A will with a QoS above 2 is refused,   *)
(* and no CONNECT sent; without a login the retain flag is not passed on.  *)
(***************************************************************************)
Connect ==
  /\ at = "connect"
  /\ \/ HasWill /\ val["willqos"][1] > 2 /\ at' = "idle" /\ UNCHANGED sent
     \/ /\ HasWill => val["willqos"][1] <= 2
        /\ at' = "answer"
        /\ sent' =
             [version |-> IF HasLogin \/ HasWill THEN 4 ELSE 3,
              server |-> val["brokeraddress"], port |-> val["brokerport"], id |-> val["clientid"],
              login |-> IF HasLogin THEN <<val["username"], val["password"]>> ELSE <<>>,
              will |-> IF HasWill THEN <<val["willtopic"], val["willmessage"], val["willqos"]>> ELSE <<>>,
              retain |-> HasLogin /\ HasWill /\ val["willretain"] = <<1>>]
  /\ UNCHANGED <<con, pre, pos, has, val, look>>

\* The broker accepts, refuses or stays silent; a connection once made breaks.
Answer ==
  /\ at \in {"answer", "online"}
  /\ at' \in {"idle", "online"} \ {at}
  /\ UNCHANGED <<con, pre, pos, has, val, sent, look>>

\* MQTT.CON is edited between two attempts.
Edit ==
  /\ at = "idle" /\ con' \in Edits
  /\ UNCHANGED <<pre, at, pos, has, val, sent, look>>

---------------------------------------------------------------------------
(* get_predefined_topic_name. *)

Lookup ==
  /\ at = "online"
  /\ \E n \in TopicIds : look' = [id |-> n, name |-> NoTopic]
  /\ at' = "lookup" /\ pos' = 1
  /\ UNCHANGED <<con, pre, has, val, sent>>

\* An entry: more than 3 characters, a name below 255 characters; the id is cut to 16 bits.
Entry(l) == l.size > 3 /\ l.len < 255

\* Mutant of LookupLine: the lookup goes on after a match.
LookupLine_last ==
  /\ at = "lookup" /\ ~Ended(pre)
  /\ look' = IF Entry(pre[pos]) /\ pre[pos].id % 65536 = look.id THEN [look EXCEPT !.name = pre[pos].name]
             ELSE look
  /\ pos' = pos + 1
  /\ UNCHANGED <<con, pre, at, has, val, sent>>

LookupLine ==
  LET l == pre[pos]
      match == Entry(l) /\ l.id % 65536 = look.id
  IN /\ at = "lookup" /\ ~Ended(pre)
     /\ \/ match /\ look' = [look EXCEPT !.name = l.name] /\ at' = "looked" /\ UNCHANGED pos
        \/ ~match /\ pos' = pos + 1 /\ UNCHANGED <<at, look>>
     /\ UNCHANGED <<con, pre, has, val, sent>>

LookupEnds ==
  /\ at = "lookup" /\ Ended(pre)
  /\ at' = "looked"
  /\ UNCHANGED <<con, pre, pos, has, val, sent, look>>

\* The name is used, and the thread goes on.
LookupUsed ==
  /\ at = "looked"
  /\ at' = "online"
  /\ UNCHANGED <<con, pre, pos, has, val, sent, look>>

---------------------------------------------------------------------------
Next ==
  \/ Attempt \/ ReadLine \/ EndOfPass \/ OpenSocket \/ Connect \/ Answer \/ Edit
  \/ Lookup \/ LookupLine \/ LookupEnds \/ LookupUsed

Spec == Init /\ [][Next]_vars

---------------------------------------------------------------------------
(* Properties. *)

\* The lines of a key that are read: those before the first empty line.
LinesOf(k) ==
  {i \in DOMAIN con : con[i].key = k /\ \A j \in 1..i : con[j].size > 0}

Good(l) == Parsed(l, <<>>).ok /\ (l.key = "willretain" => Parsed(l, <<>>).val[1] <= 1)
GoodLines(k) == {i \in LinesOf(k) : Good(con[i])}

\* willretain needs a good line, any other key a good last one.
Complete(keys) ==
  \A k \in keys : IF k = "willretain" THEN GoodLines(k) # {}
                  ELSE LinesOf(k) # {} /\ Max(LinesOf(k)) \in GoodLines(k)

(***************************************************************************)
(* What the file says of a key, read as a whole: the last good line.  Of a *)
(* text, a character stems from the last line that is long enough to have  *)
(* it, so that a shorter text ends as an earlier, longer one did.          *)
(***************************************************************************)
Configured(k) ==
  IF k \in {"brokeraddress", "brokerport", "willqos", "willretain"}
  THEN Parsed(con[Max(GoodLines(k))], <<>>).val
  ELSE [c \in 1..Max({con[i].len : i \in GoodLines(k)}) |->
          con[Max({i \in GoodLines(k) : con[i].len >= c})].nums[c]]

(***************************************************************************)
(* The values the passes leave are in the range of their C types, and the  *)
(* gateway never goes on to the network without four octets and a port     *)
(* that is not 0, whatever the file says and however often it was read.    *)
(***************************************************************************)
ServerUsable ==
  /\ has \subseteq Key
  /\ at \in {"login", "will", "open", "connect", "answer"} =>
       /\ DOMAIN val["brokeraddress"] = 1..4
       /\ \A i \in 1..4 : val["brokeraddress"][i] \in 0..255
       /\ 0 < val["brokerport"][1] /\ val["brokerport"][1] < 65536

(***************************************************************************)
(* The CONNECT says what the file says: three passes, each a loop over the *)
(* lines that keeps flags and values of its own, find what a reader of the *)
(* whole file finds, also after failed attempts and edits.  A login is     *)
(* sent whole or not at all, and so is a will.                             *)
(***************************************************************************)
ConnectAsConfigured ==
  at \in {"answer", "online", "lookup", "looked"} =>
    /\ <<sent.server, sent.port, sent.id>> =
         <<Configured("brokeraddress"), Configured("brokerport"), Configured("clientid")>>
    /\ sent.login = IF Complete(LoginKeys) THEN <<Configured("username"), Configured("password")>> ELSE <<>>
    /\ sent.will = IF Complete(WillKeys)
                   THEN <<Configured("willtopic"), Configured("willmessage"), Configured("willqos")>> ELSE <<>>
    /\ sent.retain = (Complete(LoginKeys \cup WillKeys) /\ Configured("willretain") = <<1>>)

\* An attempt ends without the network only if the file has no usable broker, port or client id.
GivesUpIncomplete ==
  [][at' = "idle" /\ at \in Passes => ~Complete(ConfigKeys)]_vars

(***************************************************************************)
(* README, TOPICS.PRE: of several entries with the same id the first one   *)
(* in the file is used; an id without entry has no name.  Entries of three *)
(* characters and those behind an empty line do not count.                 *)
(***************************************************************************)
FirstEntryUsed ==
  at = "looked" =>
    LET found == {i \in DOMAIN pre : /\ Entry(pre[i]) /\ pre[i].id % 65536 = look.id
                                     /\ \A j \in 1..i : pre[j].size > 0}
    IN look.name = IF found = {} THEN NoTopic ELSE pre[Min(found)].name

=============================================================================
