--------------------------- MODULE SessionImport ---------------------------
(***************************************************************************)
(* How a session file becomes a capture: ImportFile and the three parsers  *)
(* (internal/core/import.go), the fall back to the converter of Charles,   *)
(* App.Import, which stores the result (internal/app/app.go), and the      *)
(* native snapshots of live sessions, which take the same path             *)
(* (internal/core/charles.go).  Between two calls a file may be written    *)
(* again and Charles be updated or removed.                                *)
(*                                                                         *)
(* A content is a record of its kind, of over (more than the limit, for an *)
(* archive by the sizes its directory states), of dup (an archive with a   *)
(* member twice, listed before the limit is passed) and of its             *)
(* transactions.  A transaction has the attributes that identify its       *)
(* request, what its body is written as, and, in an archive, the number of *)
(* its member and the place of the member's name in the order of the names.*)
(***************************************************************************)
EXTENDS Naturals, FiniteSets

CONSTANTS Files,          \* paths: records of a name and an extension
          Contents,       \* what each file may contain
          Formats,        \* the formats callers ask for
          Versions,       \* versions of Charles
          Convert(_, _)   \* what a version makes of a content: a content, or Failed

Failed == [kind |-> "failed"]
NoCharles == "none"

AllContents == UNION {Contents[f] : f \in Files}

ConstantsOK == Formats \subseteq {"auto", "xml", "json", "legacy_json", "native"}

VARIABLES files,      \* the content of every file
          charles,    \* the version installed, or NoCharles
          captures,   \* the IDs of the stored captures
          rows,       \* the stored entries, a function from their IDs
          call        \* the call that runs, and how far it is
vars == <<files, charles, captures, rows, call>>

NoCall == [pc |-> "none"]

----------------------------------------------------------------------------
(* The parsers *)

\* import.go:57-66
Effective(format, file) ==
  IF format # "auto" THEN format
  ELSE CASE file.ext \in {"chls", "chlz"} -> "native"
         [] file.ext \in {"chlsj", "json"} -> "json"
         [] OTHER -> "xml"

(* fromXMLMessage and jsonMessage: one body that cannot be read fails the
   session (import.go:192-216, 218-240, 301-307, 340-379). *)
Readable(tx) == tx.body # "bad"

ByNumber(s, t) == s.num < t.num \/ (s.num = t.num /\ s.place < t.place)

(* sort.Slice: with no two alike, each transaction is as far from the front as
   there are others before it. *)
Ahead(txs, n) == {m \in DOMAIN txs : ByNumber(txs[m], txs[n])}

\* import.go:404-411
MetaOrder(txs) == [k \in DOMAIN txs |-> txs[CHOOSE n \in DOMAIN txs : Cardinality(Ahead(txs, n)) = k - 1]]

Refused(why) == [error |-> why, txs |-> <<>>]

Transactions(txs) == IF \A n \in DOMAIN txs : Readable(txs[n]) THEN [error |-> "", txs |-> txs] ELSE Refused("bad")

\* import.go:380-403: the sizes are added up member by member
Native(content) ==
  IF content.kind # "zip" \/ content.dup THEN Refused("bad")
  ELSE IF content.over THEN Refused("size")
  ELSE IF content.txs = <<>> THEN Refused("bad")
  ELSE Transactions(MetaOrder(content.txs))

(* ParseSession, before the entries are numbered. *)
Parse(content, format) ==
  CASE format = "native" -> Native(content)
    [] format = "xml" /\ content.kind = "xml" -> Transactions(content.txs)
    [] format \in {"json", "legacy_json"} /\ content.kind = "json" -> Transactions(content.txs)
    [] OTHER -> Refused("bad")

NumberedEverywhere(id, txs) == {[id |-> <<n, txs[n].ident>>, capture |-> id, sequence |-> n, tx |-> txs[n]] : n \in DOMAIN txs}

(* Normalize numbers the entries, and gives each an ID by its capture, its
   number and the attributes of its request (model.go:68-101). *)
Numbered(id, txs) == {[id |-> <<id, n, txs[n].ident>>, capture |-> id, sequence |-> n, tx |-> txs[n]] : n \in DOMAIN txs}

----------------------------------------------------------------------------
(* The calls *)
Init ==
  /\ files \in {fs \in [Files -> AllContents] : \A f \in Files : fs[f] \in Contents[f]}
  /\ charles \in Versions \cup {NoCharles}
  /\ captures = {} /\ rows = {} /\ call = NoCall

Idle == call.pc \in {"none", "done", "failed"}
Fail(why) == call' = [pc |-> "failed", error |-> why]

(* ImportFile reads the file: the ID is that of its bytes and the format
   (import.go:53-68).  A file above the limit ends the call. *)
Import(file, format) ==
  /\ Idle
  /\ LET content == files[file]
         effective == Effective(format, file)
     IN IF content.over /\ content.kind # "zip" THEN Fail("size")
        ELSE call' = [pc |-> "parse", for |-> "import", file |-> file, content |-> content,
                      format |-> effective, id |-> <<effective, content>>]
  /\ UNCHANGED <<files, charles, captures, rows>>

(* A live session in the native format downloads the session
   (charles.go:53, 105-109).  A download above the limit ends the call. *)
Snapshot(content) ==
  /\ Idle
  /\ IF content.over /\ content.kind # "zip" THEN Fail("size")
     ELSE call' = [pc |-> "parse", for |-> "snapshot", content |-> content, format |-> "native", id |-> "live"]
  /\ UNCHANGED <<files, charles, captures, rows>>

ConvertsAny(error) == error # ""

(* import.go:70-74, charles.go:110-116: a size error is final. *)
Converts(error) == error = "bad"

ParseContent ==
  /\ call.pc = "parse"
  /\ LET parsed == Parse(call.content, call.format) IN
     IF parsed.error = "" THEN call' = [pc |-> "parsed", for |-> call.for, id |-> call.id, txs |-> parsed.txs]
     ELSE IF call.format = "native" /\ Converts(parsed.error) THEN call' = [call EXCEPT !.pc = "convert"]
     ELSE Fail(parsed.error)
  /\ UNCHANGED <<files, charles, captures, rows>>

(* What Charles converts: a copy, of a snapshot and of an archive that is not
   named as one, and otherwise the file, which it reads again
   (import.go:86-92, charles.go:117-129). *)
Copied == call.for = "snapshot" \/ (call.content.kind = "zip" /\ call.file.ext # "chlz")
Source == IF Copied THEN call.content ELSE files[call.file]

(* The XML is parsed in turn, under the ID of the original (import.go:75-102). *)
RunConverter ==
  /\ call.pc = "convert"
  /\ LET output == IF charles = NoCharles THEN Failed ELSE Convert(Source, charles) IN
     IF output = Failed THEN Fail("conversion")
     ELSE IF output.over THEN Fail("size")
     ELSE LET parsed == Parse(output, "xml") IN
          IF parsed.error = "" THEN call' = [pc |-> "parsed", for |-> call.for, id |-> call.id, txs |-> parsed.txs]
          ELSE Fail(parsed.error)
  /\ UNCHANGED <<files, charles, captures, rows>>

UpsertKeepsOld(old, new) == old \cup {r \in new : \A o \in old : o.id # r.id}

(* SaveCapture: a row that exists keeps its capture and its order and gets the
   new content; no row is removed (store.go:46-73). *)
Upsert(old, new) ==
  {IF \E r \in new : r.id = o.id THEN [o EXCEPT !.tx = (CHOOSE r \in new : r.id = o.id).tx] ELSE o : o \in old}
  \cup {r \in new : \A o \in old : o.id # r.id}

\* app.go:124-132, in one transaction
Save ==
  /\ call.pc = "parsed" /\ call.for = "import"
  /\ captures' = captures \cup {call.id}
  /\ rows' = Upsert(rows, Numbered(call.id, call.txs))
  /\ call' = [pc |-> "done", id |-> call.id, txs |-> call.txs]
  /\ UNCHANGED <<files, charles>>

(* The entries of a snapshot go to the live session, which numbers them itself. *)
HandOver ==
  /\ call.pc = "parsed" /\ call.for = "snapshot" /\ call' = NoCall
  /\ UNCHANGED <<files, charles, captures, rows>>

(* The user writes a file again, or updates or removes Charles. *)
Rewrite(file, content) ==
  /\ files[file] # content
  /\ files' = [files EXCEPT ![file] = content] /\ UNCHANGED <<charles, captures, rows, call>>
Install(version) ==
  /\ charles # version
  /\ charles' = version /\ UNCHANGED <<files, captures, rows, call>>

Calls == (\E f \in Files, format \in Formats : Import(f, format)) \/ (\E f \in Files : \E c \in Contents[f] : Snapshot(c))
         \/ ParseContent \/ RunConverter \/ Save \/ HandOver
Next == Calls \/ (\E f \in Files : \E c \in Contents[f] : Rewrite(f, c))
        \/ (\E v \in Versions \cup {NoCharles} : Install(v))
Spec == Init /\ [][Next]_vars

----------------------------------------------------------------------------
RowsOf(id) == {r \in rows : r.capture = id}

(* A capture whose file parses without Charles holds all of its transactions,
   once each, whatever was imported in between: files of other contents, the
   same bytes in another format, and files that failed half way
   (import.go:68, store.go:59-72). *)
CapturesAreTheirFiles ==
  \A id \in captures :
    LET parsed == Parse(id[2], id[1]) IN
    parsed.error = "" => {[sequence |-> r.sequence, tx |-> r.tx] : r \in RowsOf(id)}
                         = {[sequence |-> n, tx |-> parsed.txs[n]] : n \in DOMAIN parsed.txs}

(* An import that has answered is in the store as it was answered, each
   transaction at its number, whatever the rows held that an earlier import of
   the same bytes had left, of another converter among them (store.go:59-72). *)
ImportIsStored ==
  call.pc = "done" => /\ call.id \in captures
                      /\ \A n \in DOMAIN call.txs :
                           \E r \in RowsOf(call.id) : r.sequence = n /\ r.tx = call.txs[n]

(* A file above the limit, a download above it, and an archive whose directory
   passes it before it names a member twice, end in that error and are not
   handed to the converter that would hide it (import.go:53, 69-73,
   charles.go:53, 110-114).  An archive that names a member twice before that
   is, whatever its size: the member is met first (import.go:389-395).
   docs/verification.md:15 says it of every archive (README, Divergences). *)
TooLargeToParse(content) == content.over /\ ~(content.kind = "zip" /\ content.dup)
OversizedIsFinal == call.pc = "convert" => ~TooLargeToParse(call.content)

(* Why: a call keeps the content it took its ID from, and converts it only
   after it failed to parse; and the ID of a row tells its capture, its number
   and its request. *)
CallOK ==
  /\ call.pc \in {"parse", "convert"} =>
       /\ call = [field \in DOMAIN call |-> call[field]] /\ {"pc", "for", "id", "content", "format"} \subseteq DOMAIN call
       /\ call.for = "import" => call.id = <<call.format, call.content>> /\ call.content \in AllContents
  /\ call.pc = "convert" => Parse(call.content, call.format).error # ""
  /\ call.pc = "done" \/ (call.pc = "parsed" /\ call.for = "import") =>
       LET parsed == Parse(call.id[2], call.id[1]) IN
       call.id[2] \in AllContents /\ (parsed.error = "" => call.txs = parsed.txs)

IsRow(r) ==
  /\ r = [id |-> <<r.capture, r.sequence, r.tx.ident>>, capture |-> r.capture, sequence |-> r.sequence, tx |-> r.tx]
  /\ r.capture \in captures

(* Only an archive is parsed although it is above the limit. *)
SizeOK == call.pc \in {"parse", "convert"} => call.content.kind = "zip" \/ ~call.content.over

ImportOK ==
  /\ files \in [Files -> AllContents] /\ CallOK /\ SizeOK /\ OversizedIsFinal
  /\ (\A r \in rows : IsRow(r)) /\ CapturesAreTheirFiles /\ ImportIsStored
=============================================================================
