--------------------------------- MODULE Codec ---------------------------------
(* What the user service writes as CBOR: records, commits, operations for the  *)
(* PLC directory and the frames of the event stream. A type is the sequence of *)
(* its fields in the order the generated encoder writes them; a value says of  *)
(* each field what it holds; a block is the sequence of the entries written.   *)
(*                                                                             *)
(* One object at a time is made or received, written and read. The blocks of   *)
(* others have the fields of the type, some of them left out, changed or in    *)
(* another place, and maybe one the type does not have.                        *)
EXTENDS Integers, FiniteSetsExt, SequencesExt

CONSTANTS MaxUnusual,    \* bound on the fields of a value that are not the usual
          MaxChanges     \* bound on how far a block of others is from the usual

ASSUME BoundsAssumption == MaxUnusual \in Nat /\ MaxChanges \in Nat

(* What a field holds, or an entry has. Text that is Long (1,000,000 bytes), a *)
(* list (8192), a map (4096) or bytes (2 MiB) that are, are neither written    *)
(* nor read. Odd is a union with no member set, an object of a type the union  *)
(* does not have, another type's $type, or else an entry of the wrong type.    *)
Nil == "nil"
Empty == "empty"
Full == "full"
Long == "long"
Odd == "odd"
Items == {Nil, Empty, Full, Long, Odd}

-------------------------------------------------------------------------------
(* Fields. nil: it is a pointer, so it may be null; omit: it is left out when  *)
(* it is zero.                                                                 *)
Field(kind, n, nil, omit) == [name |-> n, kind |-> kind, nil |-> nil, omit |-> omit]

Const       == Field("const", "$type", FALSE, FALSE)
Text(n)     == Field("text", n, FALSE, FALSE)
AnyText(n)  == Field("text", n, FALSE, TRUE)
NullText(n) == Field("text", n, TRUE, FALSE)
OptText(n)  == Field("text", n, TRUE, TRUE)
Number(n)   == Field("int", n, FALSE, FALSE)
Bytes(n)    == Field("bytes", n, FALSE, FALSE)
Link(n)     == Field("link", n, FALSE, FALSE)
NullLink(n) == Field("link", n, TRUE, FALSE)
Ref(n)      == Field("ref", n, TRUE, FALSE)
OptRef(n)   == Field("ref", n, TRUE, TRUE)
OptUnion(n) == Field("union", n, TRUE, TRUE)
List(n)     == Field("list", n, FALSE, FALSE)
OptList(n)  == Field("list", n, FALSE, TRUE)
Map(n)      == Field("map", n, FALSE, FALSE)

(* The records of the lexicon.                                                 *)
UserProfile == <<Const, OptRef("avatar"), OptText("createdAt"), OptText("description"),
                 OptText("displayName")>>

GraphFollow == <<Const, Text("subject"), Text("createdAt")>>

(* Mutant: the longest names sorted as words.                                  *)
BillDetailAsWords ==
  <<Const, Text("title"), OptList("topic"), Text("status"), Text("session"),
    Text("identifier"), Text("statusDate"), OptText("description"), Text("legislature"),
    Text("legislativeBody"), OptRef("currentVersion")>>

BillDetail ==
  <<Const, Text("title"), OptList("topic"), Text("status"), Text("session"),
    Text("identifier"), Text("statusDate"), OptText("description"), Text("legislature"),
    OptRef("currentVersion"), Text("legislativeBody")>>

BillVersion == <<Text("url"), Text("date"), Const, Ref("version"), Text("versionType")>>

BillVersion_VersionRef == <<Ref("bill"), Const, Ref("previous")>>

BillAction == <<OptRef("bill"), Text("date"), Const, Text("description"),
                Text("legislativeBody")>>

LegislatorProfile ==
  <<Text("name"), Text("role"), Const, OptRef("image"), Text("party"), OptText("phone"),
    Text("state"), OptText("address"), Text("district"), OptText("imageUrl"),
    Text("legislature")>>

LegislatorVote == <<Const, OptText("choice"), Ref("billAction")>>

LegislatorSponsor == <<Ref("bill"), Number("rank"), Text("type"), Const>>

UserLegislatorFollow == <<Const, Text("createdAt"), Text("legislator")>>

UserEndorsement == <<Const, Ref("subject"), Text("createdAt")>>

UserBillFollow == <<Ref("bill"), Const, Text("createdAt")>>

UserActivity ==
  <<Text("text"), Const, OptUnion("embed"), OptList("langs"), OptRef("reply"),
    OptList("facets"), OptUnion("labels"), Text("createdAt")>>

UserActivity_ReplyRef == <<Ref("root"), Const, Ref("parent")>>

(* Commits.                                                                    *)
UnsignedCommit == <<Text("did"), AnyText("rev"), Link("data"), NullLink("prev"),
                    Number("version")>>

SignedCommit == <<Text("did"), AnyText("rev"), Bytes("sig"), Link("data"),
                  NullLink("prev"), Number("version")>>

(* Operations for the PLC directory.                                           *)
Op == <<AnyText("sig"), NullText("prev"), Text("type"), Map("services"),
        List("alsoKnownAs"), List("rotationKeys"), Map("verificationMethods")>>

Service == <<Text("type"), Text("endpoint")>>

TombstoneOp == <<AnyText("sig"), Text("prev"), Text("type")>>

(* The frames of the event stream.                                             *)
EventHeader == <<AnyText("t"), Number("op")>>

ErrorFrame == <<Text("error"), Text("message")>>

Codecs ==
  [UserProfile |-> UserProfile, GraphFollow |-> GraphFollow, BillDetail |-> BillDetail,
   BillVersion |-> BillVersion, BillVersion_VersionRef |-> BillVersion_VersionRef,
   BillAction |-> BillAction, LegislatorProfile |-> LegislatorProfile,
   LegislatorVote |-> LegislatorVote, LegislatorSponsor |-> LegislatorSponsor,
   UserLegislatorFollow |-> UserLegislatorFollow, UserEndorsement |-> UserEndorsement,
   UserBillFollow |-> UserBillFollow, UserActivity |-> UserActivity,
   UserActivity_ReplyRef |-> UserActivity_ReplyRef, UnsignedCommit |-> UnsignedCommit,
   SignedCommit |-> SignedCommit, Op |-> Op, Service |-> Service,
   TombstoneOp |-> TombstoneOp, EventHeader |-> EventHeader, ErrorFrame |-> ErrorFrame]

Types == DOMAIN Codecs
FieldNames(T) == {Codecs[T][i].name : i \in DOMAIN Codecs[T]}
FieldOf(T, n) == Codecs[T][CHOOSE i \in DOMAIN Codecs[T] : Codecs[T][i].name = n]

-------------------------------------------------------------------------------
(* What a field is before anything is read into it, ...                        *)
Zero(f) ==
  IF f.nil \/ f.kind \in {"link", "bytes", "list", "map"} THEN Nil ELSE Empty

(* ... and what it may hold.                                                   *)
Holds(f) ==
  {Full, Zero(f)} \cup
  CASE f.kind = "const" -> {Odd}
    [] f.kind = "text" -> {Empty, Long}
    [] f.kind \in {"bytes", "list", "map"} -> {Empty, Long}
    [] f.kind = "ref" -> {Long}
    [] f.kind = "union" -> {Long, Odd}
    [] f.kind \in {"int", "link"} -> {}

(* A value with every field set, and one as handlers make them: the type and   *)
(* what may be left out are not set.                                           *)
AllSet(T) == [n \in FieldNames(T) |-> Full]

Bare(T) == [n \in FieldNames(T) |->
              LET f == FieldOf(T, n) IN
              IF f.omit \/ f.kind = "const" THEN Zero(f) ELSE Full]

(* Values of T with at most MaxUnusual fields that differ from one of these.   *)
Values(T) ==
  LET Unusual(S) == {g \in [S -> Items] : \A n \in S : g[n] \in Holds(FieldOf(T, n))}
      With(base, S) == {[n \in FieldNames(T) |-> IF n \in S THEN g[n] ELSE base[n]] :
                          g \in Unusual(S)}
  IN  UNION {With(AllSet(T), S) \cup With(Bare(T), S) :
             S \in UNION {kSubset(k, FieldNames(T)) : k \in 0..MaxUnusual}}

-------------------------------------------------------------------------------
(* Mutant: a pointer to empty text is left out as well.                        *)
OmittedIfEmpty(f, x) == f.omit /\ x \in {Nil, Empty}

Omitted(f, x) == f.omit /\ x = Zero(f)

Writable(f, x) ==
  \/ f.kind = "const"
  \/ x # Long /\ ~(f.kind = "link" /\ ~f.nil /\ x = Nil) /\ ~(f.kind = "union" /\ x = Odd)

(* A constant is written whatever the field holds; a nil pointer is null, and  *)
(* nil bytes or a nil list or map are of length 0.                             *)
Written(f, x) ==
  CASE f.kind = "const" -> Full
    [] x = Nil /\ ~f.nil -> Empty
    [] OTHER -> x

Entry(f, x) == [name |-> f.name, item |-> Written(f, x)]

(* The numbers of S up to n, in order, and what q has at these positions.      *)
InOrder(S, n) ==
  LET upTo[i \in 0..n] == IF i = 0 THEN <<>>
                          ELSE IF i \in S THEN Append(upTo[i - 1], i) ELSE upTo[i - 1]
  IN  upTo[n]

Only(q, S) == [k \in DOMAIN InOrder(S, Len(q)) |-> q[InOrder(S, Len(q))[k]]]

(* The fields of v that are written, by their place in the type.               *)
Present(T, v) ==
  {i \in DOMAIN Codecs[T] : LET f == Codecs[T][i] IN ~Omitted(f, v[f.name])}

CanMarshal(T, v) ==
  \A i \in Present(T, v) : LET f == Codecs[T][i] IN Writable(f, v[f.name])

Marshal(T, v) ==
  LET all == [i \in DOMAIN Codecs[T] |-> Entry(Codecs[T][i], v[Codecs[T][i].name])]
  IN  Only(all, Present(T, v))

(* What is read as the field f without error, ...                              *)
Readable(f, x) ==
  \/ x = Full \/ x \notin Items
  \/ x = Nil /\ f.nil
  \/ x = Empty /\ f.kind \notin {"link", "ref", "union"}
  \/ x = Odd /\ f.kind \in {"const", "union"}

(* ... and what it is then: nothing is allocated for a length of 0, but a map. *)
Taken(f, x) == IF x = Empty /\ f.kind \in {"bytes", "list"} THEN Nil ELSE x

(* Entries of names that T does not have are skipped.                          *)
CanUnmarshal(T, block) ==
  \A i \in DOMAIN block :
    block[i].name \in FieldNames(T) => Readable(FieldOf(T, block[i].name), block[i].item)

(* Of two entries of one name the last is kept.                                *)
Unmarshal(T, block) ==
  [n \in FieldNames(T) |->
     LET f == FieldOf(T, n)
         at == {i \in DOMAIN block : block[i].name = n}
     IN  IF at = {} THEN Zero(f) ELSE Taken(f, block[Max(at)].item)]

(* UnsignedCommit of a SignedCommit, and a block without its signature.        *)
Unsigned(v) == [n \in FieldNames("UnsignedCommit") |-> v[n]]

WithoutSig(block) == Only(block, {i \in DOMAIN block : block[i].name # "sig"})

-------------------------------------------------------------------------------
(* Blocks of T that others write: the usual one with some changes.             *)
Usual(T) == [i \in DOMAIN Codecs[T] |-> [name |-> Codecs[T][i].name, item |-> Full]]

Changed(block) ==
  {block}
  \cup {RemoveAt(block, i) : i \in DOMAIN block}
  \cup {[block EXCEPT ![i].item = x] : i \in DOMAIN block, x \in Items}
  \cup {Append(RemoveAt(block, i), block[i]) : i \in DOMAIN block}
  \cup {Append(block, [name |-> "other", item |-> Full])}

Foreign(T) ==
  LET upTo[n \in 0..MaxChanges] ==
        IF n = 0 THEN {Usual(T)} ELSE UNION {Changed(b) : b \in upTo[n - 1]}
  IN  upTo[MaxChanges]

(* Events, by the one member of XRPCStreamEvent that is set. Labels and their  *)
(* info come from labellers; "new" is any name this code does not know.        *)
Messages == {"commit", "sync", "handle", "identity", "account", "info", "migrate",
             "tombstone"}
Events == Messages \cup {"error", "labels", "labelInfo"}
NoEvent == "noEvent"

CanSerialize(e) == e \in Messages \cup {"error"}

Serialize(e) ==
  IF e = "error" THEN [t |-> Empty, op |-> "error"] ELSE [t |-> e, op |-> "message"]

(* Headers others send with an event: there is one name for both infos.        *)
ForeignHeader(e) == [Serialize(e) EXCEPT !.t = IF e = "labelInfo" THEN "info" ELSE @]

(* What a header says the event is: a name that is not known is no event.      *)
Deserialize(h) ==
  CASE h.op = "error" -> "error"
    [] h.op = "message" /\ h.t \in Messages \cup {"labels"} -> h.t
    [] OTHER -> NoEvent

-------------------------------------------------------------------------------
Unset == <<>>
NoType == "noType"

VARIABLES
  at,       \* "start", "held", "stored", "read" or "checked"
  type,     \* of the object at hand
  held,     \* its value in memory
  stored,   \* its block
  own,      \* this service wrote the block
  wrote,    \* the value it wrote it from
  signed,   \* the bytes that were signed for it
  checked,  \* the bytes its signature is checked over
  event, arrived   \* of a frame: the event sent, the event read

codecVars == <<at, type, held, stored, own, wrote, signed, checked, event, arrived>>

CodecInit ==
  /\ at = "start" /\ type = NoType
  /\ held = Unset /\ stored = Unset /\ own = FALSE /\ wrote = Unset
  /\ signed = Unset /\ checked = Unset
  /\ event = NoEvent /\ arrived = NoEvent

(* The next object.                                                            *)
Forget ==
  /\ at' = "start" /\ type' = NoType
  /\ held' = Unset /\ stored' = Unset /\ own' = FALSE /\ wrote' = Unset
  /\ signed' = Unset /\ checked' = Unset
  /\ event' = NoEvent /\ arrived' = NoEvent

(* A handler fills in a value.                                                 *)
Make ==
  /\ at = "start"
  /\ \E T \in Types \ {"EventHeader"} : \E v \in Values(T) : type' = T /\ held' = v
  /\ at' = "held"
  /\ UNCHANGED <<stored, own, wrote, signed, checked, event, arrived>>

(* A value is written: one just made, or one that was read and is put back.    *)
(* What cannot be written is an error of the request.                          *)
Put ==
  /\ at \in {"held", "read"} /\ event = NoEvent
  /\ IF CanMarshal(type, held)
       THEN /\ stored' = Marshal(type, held)
            /\ own' = TRUE /\ wrote' = held
            /\ at' = "stored"
            /\ signed' = Unset
            /\ UNCHANGED <<type, held, checked, event, arrived>>
       ELSE Forget

(* A block comes from elsewhere, a commit with a signature over the rest of it.*)
Receive ==
  /\ at = "start"
  /\ \E T \in Types \ {"UnsignedCommit", "EventHeader"} : \E b \in Foreign(T) :
       /\ type' = T /\ stored' = b
       /\ signed' = IF T = "SignedCommit" THEN WithoutSig(b) ELSE Unset
  /\ at' = "stored" /\ own' = FALSE
  /\ UNCHANGED <<held, wrote, checked, event, arrived>>

Get ==
  /\ at = "stored" /\ event = NoEvent
  /\ IF CanUnmarshal(type, stored)
       THEN /\ held' = Unmarshal(type, stored)
            /\ at' = "read"
            /\ UNCHANGED <<type, stored, own, wrote, signed, checked, event, arrived>>
       ELSE Forget

(* Repo.Commit signs the commit without, and stores it with its signature.     *)
Commit ==
  /\ at = "start"
  /\ LET u == [n \in FieldNames("UnsignedCommit") |-> IF n = "prev" THEN Nil ELSE Full]
         c == [n \in FieldNames("SignedCommit") |-> IF n = "sig" THEN Full ELSE u[n]]
     IN  /\ signed' = Marshal("UnsignedCommit", u)
         /\ held' = c /\ wrote' = c
         /\ stored' = Marshal("SignedCommit", c)
  /\ type' = "SignedCommit" /\ own' = TRUE /\ at' = "stored"
  /\ UNCHANGED <<checked, event, arrived>>

(* Mutant: the signature of an operation is made over the one with its name.   *)
SignOpAsSent ==
  /\ at = "start"
  /\ \E T \in {"Op", "TombstoneOp"} :
       LET o == [n \in FieldNames(T) |-> IF T = "Op" /\ n = "prev" THEN Nil ELSE Full]
       IN  /\ signed' = Marshal(T, o)
           /\ held' = o /\ wrote' = o /\ stored' = Marshal(T, o)
           /\ type' = T
  /\ own' = TRUE /\ at' = "stored"
  /\ UNCHANGED <<checked, event, arrived>>

(* Client.CreateDID and TombstoneDID sign the operation with its sig empty;    *)
(* the directory and the DID have it filled in.                                *)
SignOp ==
  /\ at = "start"
  /\ \E T \in {"Op", "TombstoneOp"} :
       LET o == [n \in FieldNames(T) |-> IF T = "Op" /\ n = "prev" THEN Nil ELSE Full]
       IN  /\ signed' = Marshal(T, [o EXCEPT !.sig = Empty])
           /\ held' = o /\ wrote' = o /\ stored' = Marshal(T, o)
           /\ type' = T
  /\ own' = TRUE /\ at' = "stored"
  /\ UNCHANGED <<checked, event, arrived>>

(* Manager.CheckRepoSig encodes what it read of the commit again.              *)
CheckRepoSig ==
  /\ at = "read" /\ type = "SignedCommit" /\ signed # Unset
  /\ IF CanMarshal("UnsignedCommit", Unsigned(held))
       THEN /\ checked' = Marshal("UnsignedCommit", Unsigned(held))
            /\ at' = "checked"
            /\ UNCHANGED <<type, held, stored, own, wrote, signed, event, arrived>>
       ELSE Forget

(* XRPCStreamEvent.Serialize; an event it has no case for is dropped.          *)
Publish ==
  /\ at = "start"
  /\ \E e \in Events :
       /\ CanSerialize(e)
       /\ event' = e
       /\ held' = Serialize(e) /\ wrote' = Serialize(e)
       /\ stored' = Marshal("EventHeader", Serialize(e))
  /\ type' = "EventHeader" /\ own' = TRUE /\ at' = "stored"
  /\ UNCHANGED <<signed, checked, arrived>>

ReceiveFrame ==
  /\ at = "start"
  /\ \E e \in Events :
       /\ event' = e
       /\ \/ stored' = Marshal("EventHeader", ForeignHeader(e))
          \/ stored' = Marshal("EventHeader", [ForeignHeader(e) EXCEPT !.t = "new"])
          \/ stored' = Marshal("EventHeader", [ForeignHeader(e) EXCEPT !.op = "new"])
  /\ type' = "EventHeader" /\ own' = FALSE /\ at' = "stored"
  /\ UNCHANGED <<held, wrote, signed, checked, arrived>>

(* HandleRepoStream, of one message: an op that is not known ends the stream.  *)
Consume ==
  /\ at = "stored" /\ event # NoEvent
  /\ LET h == Unmarshal("EventHeader", stored) IN
       IF CanUnmarshal("EventHeader", stored) /\ h.op \in {"message", "error"}
         THEN /\ held' = h /\ arrived' = Deserialize(h)
              /\ at' = "read"
              /\ UNCHANGED <<type, stored, own, wrote, signed, checked, event>>
         ELSE Forget

CodecNext ==
  \/ Make \/ Put \/ Receive \/ Get
  \/ Commit \/ SignOp \/ CheckRepoSig
  \/ Publish \/ ReceiveFrame \/ Consume
  \/ at \in {"read", "checked"} /\ Forget

CodecSpec == CodecInit /\ [][CodecNext]_codecVars

-------------------------------------------------------------------------------
(* DAG-CBOR's order of keys: the shorter first, equally long ones by bytes.    *)
KeyOrder ==
  <<"t", "op", "did", "rev", "sig", "url",
    "bill", "data", "date", "name", "prev", "rank", "role", "root", "text", "type",
    "$type", "embed", "error", "image", "langs", "party", "phone", "reply", "state",
    "title", "topic", "avatar", "choice", "facets", "labels", "parent", "status",
    "address", "message", "session", "subject", "version",
    "district", "endpoint", "imageUrl", "previous", "services", "createdAt",
    "billAction", "identifier", "legislator", "statusDate",
    "alsoKnownAs", "description", "displayName", "legislature", "versionType",
    "rotationKeys", "currentVersion", "legislativeBody", "verificationMethods">>

Rank(n) == CHOOSE i \in DOMAIN KeyOrder : KeyOrder[i] = n

(* What this service stores is canonical whatever the value: the same content  *)
(* always has the same bytes, and so the same CID, and every record says what  *)
(* type it is.                                                                 *)
Canonical(T, block) ==
  /\ \A i, j \in DOMAIN block : i < j => Rank(block[i].name) < Rank(block[j].name)
  /\ \A n \in FieldNames(T) : FieldOf(T, n).kind = "const" =>
       \E i \in DOMAIN block : block[i] = [name |-> n, item |-> Full]
  /\ \A i \in DOMAIN block : block[i].item \notin {Long, Odd}

CodecTypeOK ==
  /\ at \in {"start", "held", "stored", "read", "checked"}
  /\ type \in Types \cup {NoType} /\ (type = NoType <=> at = "start")
  /\ own \in BOOLEAN
  /\ at \in {"held", "read"} => DOMAIN held = FieldNames(type)
  /\ own => Canonical(type, stored)
  /\ {event, arrived} \subseteq Events \cup {NoEvent}

(* A value is read back as it was written, up to the lists, maps and bytes of  *)
(* length 0, which Go does not tell from nil, and the type, which is filled in.*)
SameValue(T, v, w) ==
  \A n \in FieldNames(T) :
    \/ v[n] = w[n]
    \/ FieldOf(T, n).kind \in {"bytes", "list", "map"} /\ {v[n], w[n]} = {Nil, Empty}
    \/ FieldOf(T, n).kind = "const" /\ w[n] = Full

(* An optional list that is there and empty: read as nil, it is left out when  *)
(* the record is next written, so a record nobody changed gets another CID.    *)
HasEmptyList(T, v) ==
  \E n \in FieldNames(T) : LET f == FieldOf(T, n) IN
    f.kind = "list" /\ f.omit /\ v[n] = Empty

(* What this service wrote can be read, is read as it was, and written again   *)
(* gives the same block but for empty optional lists.                          *)
RecordsReadBack ==
  /\ at = "stored" /\ own => CanUnmarshal(type, stored)
  /\ at = "read" /\ own =>
       /\ SameValue(type, wrote, held)
       /\ CanMarshal(type, held)
       /\ ~HasEmptyList(type, wrote) => Marshal(type, held) = stored

(* A record of others that could be read can be put back, unless it has a      *)
(* union of a kind the lexicon does not know, or no link where one must be.    *)
ForeignCanBePutBack ==
  at = "read" /\ ~own /\ event = NoEvent =>
    \/ CanMarshal(type, held)
    \/ \E n \in FieldNames(type) : LET f == FieldOf(type, n) IN
         \/ f.kind = "union" /\ held[n] = Odd
         \/ f.kind = "link" /\ held[n] = Nil

(* An event arrives as the one that was sent. Of what others send, an event of *)
(* a name that is not known is skipped, and a labeller's info is taken for a   *)
(* relay's.                                                                    *)
EventsReadBack ==
  at = "read" /\ event # NoEvent =>
    \/ arrived = event
    \/ ~own /\ arrived = NoEvent
    \/ ~own /\ event = "labelInfo" /\ arrived = "info"

ReadBack == RecordsReadBack /\ ForeignCanBePutBack /\ EventsReadBack

(* A commit or an operation without its sig is what was signed, byte for byte, *)
(* whoever takes the sig away; and CheckRepoSig checks the bytes a foreign     *)
(* repo signed exactly when its commit has every field but maybe rev, nothing  *)
(* that this service does not keep, and all in order.                          *)
Plain(block) ==
  LET names == [i \in DOMAIN WithoutSig(block) |-> WithoutSig(block)[i].name] IN
  /\ names \in {<<"did", "rev", "data", "prev", "version">>,
                <<"did", "data", "prev", "version">>}
  /\ [name |-> "rev", item |-> Empty] \notin ToSet(block)

SignaturesHold ==
  /\ own /\ signed # Unset => WithoutSig(stored) = signed
  /\ checked # Unset => (checked = signed <=> Plain(stored))

================================================================================
