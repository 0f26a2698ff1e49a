------------------------------- MODULE Archive -------------------------------
(***************************************************************************)
(* dg verify of a package archive (src/src/verify/local.ts): the walk over *)
(* the headers of a tarball, which collects the names that extended        *)
(* headers give to the member behind them, and the comparison of a zip's   *)
(* central directory with its local headers.                               *)
(*                                                                         *)
(* A name is one that stays in the extraction root or one that leaves it;  *)
(* bytes are abstracted to a sequence of headers, and the places of a zip  *)
(* to slots, each as long as the shortest entry.                           *)
(***************************************************************************)
EXTENDS Sequences, SequencesExt, FiniteSets, Naturals

CONSTANTS
    Names,      \* names that occur
    UnsafeName, \* those that leave the extraction root, or are too long
    MaxHeaders, \* bound: headers of a tarball
    MaxSlots    \* bound: slots of a zip before its central directory

ASSUME ArchiveAssumption ==
    UnsafeName \subseteq Names /\ "no path" \notin Names /\ MaxHeaders \in Nat /\ MaxSlots \in Nat

VARIABLES
    zip,        \* the zip, or NoZip for a tarball
    headers,    \* of the tarball, read so far
    longName,   \* pendingLongName
    pax,        \* pendingPax: its path and size, and whether there is one
    global,     \* globalPax
    judged,     \* the names the entries were judged by
    findings,   \* their severities
    status      \* of the report

archiveVars == <<zip, headers, longName, pax, global, judged, findings, status>>
pending == <<longName, pax, global>>

NoPath == "no path"
NoHeader == [present |-> FALSE, path |-> NoPath, size |-> "absent"]
NoZip == [slots |-> <<>>, directory |-> <<>>]

\* statusFor
Status(isError, severities) ==
    IF isError THEN "error"
    ELSE IF "block" \in severities THEN "block"
    ELSE IF "warn" \in severities THEN "warn" ELSE "pass"

\* pathSafetyFindings and packageManifestFindings
Severities(name, manifest) ==
    (IF name \in UnsafeName THEN {"block"} ELSE {})
    \cup (CASE manifest = "broken" -> {"block"} [] manifest = "script" -> {"warn"} [] OTHER -> {})

\* archiveError: too big, no gzip, no end record, zip64, a directory cut short.
CannotOpen ==
    /\ status = "reading" /\ headers = <<>>
    /\ status' = "error"
    /\ UNCHANGED <<zip, headers, pending, judged, findings>>
-----------------------------------------------------------------------------
(* A tarball.                                                              *)

\* A member, the extended headers, and what cannot be read.
Member == [type : {"member"}, name : Names, manifest : {"no", "script", "broken"}]
LongName == [type : {"long-name"}, name : Names \cup {NoPath}]
Pax == [type : {"pax", "global"}, path : Names \cup {NoPath}, size : {"absent", "agrees", "differs"}]
Header == Member \cup LongName \cup Pax \cup {[type |-> "long-link"], [type |-> "garbled"]}

Read(h, type) ==
    /\ zip = NoZip /\ status = "reading" /\ Len(headers) < MaxHeaders
    /\ h.type = type
    /\ headers' = Append(headers, h)
    /\ UNCHANGED zip

\* An error ends the walk.
Fail == status' = "error"

ReadLongName(h) ==
    /\ Read(h, "long-name")
    /\ longName' = h.name
    /\ IF h.name = NoPath THEN Fail ELSE UNCHANGED status
    /\ UNCHANGED <<pax, global, judged, findings>>

\* Slip: a later extended header replaces the one before it.
Replace(old, h) == [present |-> TRUE, path |-> h.path, size |-> h.size]

\* mergePaxRecords: a later record of the same key wins, the others stay.
Merge(old, h) == [present |-> TRUE,
                  path |-> IF h.path = NoPath THEN old.path ELSE h.path,
                  size |-> IF h.size = "absent" THEN old.size ELSE h.size]

ReadPax(h) ==
    /\ \/ Read(h, "pax") /\ pax' = Merge(pax, h) /\ UNCHANGED global
       \/ Read(h, "global") /\ global' = Merge(global, h) /\ UNCHANGED pax
    /\ UNCHANGED <<longName, judged, findings, status>>

\* The target of a link that is too long for its header is not looked at.
ReadLongLink(h) == Read(h, "long-link") /\ UNCHANGED <<pending, judged, findings, status>>

Garbled(h) == Read(h, "garbled") /\ Fail /\ UNCHANGED <<pending, judged, findings>>

PaxPath == IF pax.path # NoPath THEN pax.path ELSE global.path

Contradictory ==
    \/ PaxPath # NoPath /\ longName # NoPath /\ PaxPath # longName
    \/ pax.size = "differs"

NameOf(h) == IF PaxPath # NoPath THEN PaxPath ELSE IF longName # NoPath THEN longName ELSE h.name

\* An extended header is for one member.
ClearPending == longName' = NoPath /\ pax' = NoHeader

ReadMember(h) ==
    /\ Read(h, "member")
    /\ IF Contradictory THEN Fail /\ UNCHANGED <<longName, pax, judged, findings>>
       ELSE /\ judged' = Append(judged, NameOf(h))
            /\ findings' = findings \cup Severities(NameOf(h), h.manifest)
            /\ ClearPending
            /\ UNCHANGED status
    /\ UNCHANGED global

\* The end of the archive, or behind a member a limit that is a finding.
EndOfArchive ==
    /\ zip = NoZip /\ status = "reading"
    /\ \/ UNCHANGED findings
       \/ headers # <<>> /\ Last(headers).type = "member" /\ findings' = findings \cup {"block"}
    /\ status' = Status(longName # NoPath \/ pax.present, findings')
    /\ UNCHANGED <<zip, headers, pending, judged>>
-----------------------------------------------------------------------------
(* A zip.  A slot holds a local header or the middle of an entry (Inside); *)
(* an entry of the central directory names the slot its header is in.      *)

Slots == 0..(MaxSlots - 1)
Inside == [name |-> NoPath, size |-> 0, deferred |-> FALSE]
Slot == {Inside} \cup [name : Names, size : 1..MaxSlots, deferred : BOOLEAN]
Central == [name : Names, at : 0..MaxSlots, size : 1..MaxSlots, body : {"readable", "encrypted", "broken"}]
ZipFile == [slots : [Slots -> Slot], directory : BoundedSeq(Central, MaxSlots)]

HeaderAt(z, o) == o < MaxSlots /\ z.slots[o] # Inside
Directory(z) == Range(z.directory)

\* The headers that a walk from start on comes by, header to header by the
\* lengths given: those in every set of slots that such a walk cannot leave.
Closed(z, start, length, S) ==
    /\ HeaderAt(z, start) => start \in S
    /\ \A o \in S : HeaderAt(z, o + length[o]) => o + length[o] \in S

Visited(z, start, length) ==
    {o \in Slots : HeaderAt(z, o) /\ \A S \in SUBSET Slots : Closed(z, start, length, S) => o \in S}

\* The second pass goes by the lengths the directory gives, and fails at a
\* header that has none or whose entry would end behind the last slot.
Claims(z, o) == {e \in Directory(z) : e.at = o}
Claimed(z) == [o \in Slots |-> IF Claims(z, o) = {} THEN MaxSlots ELSE (CHOOSE e \in Claims(z, o) : TRUE).size]
Start(z) == IF HeaderAt(z, 0) THEN 0
            ELSE IF z.directory = <<>> THEN MaxSlots
            ELSE CHOOSE o \in {e.at : e \in Directory(z)} : \A e \in Directory(z) : o <= e.at
Walk(z) == Visited(z, Start(z), Claimed(z))

\* zipLocalHeaderMismatch
Mismatch(z) ==
    \/ Cardinality({e.at : e \in Directory(z)}) # Len(z.directory)
    \/ \E e \in Directory(z) : \/ ~HeaderAt(z, e.at)
                             \/ z.slots[e.at].name # e.name
                             \/ (~z.slots[e.at].deferred /\ z.slots[e.at].size # e.size)
    \/ \E o \in Walk(z) : Claims(z, o) = {} \/ o + Claimed(z)[o] > MaxSlots

\* scanZipLike, readZipEntryBody
ScanZip ==
    /\ zip # NoZip /\ status = "reading"
    /\ IF Mismatch(zip) THEN status' = "error" /\ UNCHANGED <<judged, findings>>
       ELSE /\ judged' = [i \in DOMAIN zip.directory |-> zip.directory[i].name]
            /\ findings' = UNION {Severities(e.name, "no") : e \in Directory(zip)}
                           \cup {"block" : e \in {d \in Directory(zip) : d.body = "encrypted"}}
            /\ status' = Status(\E e \in Directory(zip) : e.body = "broken", findings')
    /\ UNCHANGED <<zip, headers, pending>>
-----------------------------------------------------------------------------
ArchiveInit ==
    /\ zip \in ZipFile \cup {NoZip}
    /\ headers = <<>> /\ longName = NoPath /\ pax = NoHeader /\ global = NoHeader
    /\ judged = <<>> /\ findings = {} /\ status = "reading"

ArchiveNext ==
    \/ CannotOpen \/ EndOfArchive \/ ScanZip
    \/ \E h \in Header : ReadLongName(h) \/ ReadPax(h) \/ ReadLongLink(h) \/ Garbled(h) \/ ReadMember(h)
-----------------------------------------------------------------------------
(* What an extractor makes of the same headers, said without the walk: the *)
(* extended headers since the member before are for this one, the last of  *)
(* a kind wins, and a global one is for every member behind it.            *)
MemberAt(i) == headers[i].type = "member"
MembersRead == {i \in DOMAIN headers : MemberAt(i)}
Since(i) == {k \in 1..(i - 1) : \A j \in k..(i - 1) : ~MemberAt(j)}
Latest(S) == CHOOSE k \in S : \A j \in S : j <= k
WithPath(S, type) == {k \in S : headers[k].type = type /\ headers[k].path # NoPath}

PathFor(i) ==
    LET own    == WithPath(Since(i), "pax")
        shared == WithPath(1..(i - 1), "global")
        long   == {k \in Since(i) : headers[k].type = "long-name"}
    IN IF own # {} THEN headers[Latest(own)].path
       ELSE IF shared # {} THEN headers[Latest(shared)].path
       ELSE IF long # {} THEN headers[Latest(long)].name ELSE headers[i].name

\* And of a zip, read from its start without the directory.
StreamedSlots(z) == Visited(z, 0, [o \in Slots |-> z.slots[o].size])
Deferred(z) == \E o \in DOMAIN z.slots : z.slots[o].deferred

ExtractedNames ==
    IF zip = NoZip THEN {PathFor(i) : i \in MembersRead}
    ELSE {e.name : e \in Directory(zip)} \cup {zip.slots[o].name : o \in IF Deferred(zip) THEN {} ELSE StreamedSlots(zip)}

(***************************************************************************)
(* An archive that verifies as pass or warn holds no member that an        *)
(* extractor would put outside its root: every member was judged by the    *)
(* name it will have, whatever extended headers gave it that name and      *)
(* however many members stand between (local.ts:201-219), and whether the  *)
(* extractor of a zip goes by its directory or by its local headers        *)
(* (local.ts:373-437).                                                     *)
(***************************************************************************)
MembersAreJudged ==
    status \in {"pass", "warn"} =>
        /\ Range(judged) = ExtractedNames
        /\ ExtractedNames \cap UnsafeName = {}
        /\ zip = NoZip => Len(judged) = Cardinality(MembersRead)
==============================================================================
