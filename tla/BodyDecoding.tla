---------------------------- MODULE BodyDecoding ----------------------------
(***************************************************************************)
(* What a caller is shown of a recorded body (internal/core/decode.go):    *)
(* bodyBytes undoes the content codings the headers name, the last one     *)
(* first, and Decode classifies what is left and shortens it.              *)
(*                                                                         *)
(* A body is the layers its bytes still have, outermost last, around a     *)
(* content.  Charles may have removed the layers and kept the header.  The *)
(* labels are those of the first Content-Encoding line, the only one       *)
(* Headers.Get reads.  A content has a shape, bytes and runes, and the     *)
(* length of its value as JSON.  With n of its layers the body is larger   *)
(* than the limit for n in large; for n in refused its frame asks the      *)
(* decoder of zstd for more memory than it may have.                       *)
(***************************************************************************)
EXTENDS Naturals, Sequences, FiniteSets

CONSTANTS Messages,    \* the recorded messages
          MaxChars,    \* the preview limits of callers
          Descriptors  \* what they say of protobuf: subset of "none", "half", "both"

Codings == {"gzip", "deflate", "br", "zstd"}
Labels == Codings \cup {"identity", "other"}
BodyFormats == {"none", "binary", "protobuf", "json", "form", "multipart", "text"}

(* The layers are among the first n labels, in their order; "identity" is none. *)
AreAmong(codings, labels, n) ==
  /\ \A i \in 1..Len(codings) : codings[i] # "identity"
  /\ \E at \in [1..Len(codings) -> 1..n] :
       /\ \A i \in 1..Len(codings) : labels[at[i]] = codings[i]
       /\ \A i, j \in 1..Len(codings) : i < j => at[i] < at[j]

IsMessage(m) ==
  /\ m.labels \in Seq(Labels) /\ m.layers \in Seq(Labels) /\ AreAmong(m.layers, m.labels, Len(m.labels))
  /\ m.bytes \in Nat /\ m.runes \in Nat /\ m.value \in Nat
  /\ m.large \subseteq Nat /\ m.refused \subseteq Nat /\ m.missing \in BOOLEAN

ConstantsOK ==
  /\ \A m \in Messages : IsMessage(m)
  /\ MaxChars \subseteq Nat \ {0} /\ Descriptors \subseteq {"none", "half", "both"}

VARIABLES message, maxChars, descriptor,   \* the call
          pc,        \* "start", "unwrap", "preview", "classify", "limit", then "shown" or "failed"
          left,      \* how many labels the loop has still to look at
          layers,    \* the layers the bytes still have
          warnings,  \* the warnings so far
          result     \* format, whether there is a value, what of it is shown, truncated
vars == <<message, maxChars, descriptor, pc, left, layers, warnings, result>>
call == <<message, maxChars, descriptor>>

Results == [format : BodyFormats, value : BOOLEAN, shown : Nat, truncated : BOOLEAN]
NoResult == [format |-> "none", value |-> FALSE, shown |-> 0, truncated |-> FALSE]

----------------------------------------------------------------------------
Init ==
  /\ message \in Messages /\ maxChars \in MaxChars /\ descriptor \in Descriptors
  /\ pc = "start" /\ left = Len(message.labels) /\ layers = message.layers
  /\ warnings = {} /\ result = NoResult

Fail == pc' = "failed" /\ UNCHANGED <<call, left, layers, warnings, result>>

\* decode.go:131-133
Missing == pc = "start" /\ message.missing /\ Fail

TooLarge(n) == n \in message.large

(* The bytes as they were recorded (decode.go:41-46). *)
Start ==
  /\ pc = "start" /\ ~message.missing
  /\ IF TooLarge(Len(layers)) THEN Fail
     ELSE pc' = "unwrap" /\ UNCHANGED <<call, left, layers, warnings, result>>

Label == message.labels[left]
Outermost == layers # <<>> /\ layers[Len(layers)] = Label
Inner == Len(layers) - 1
Refused == Label = "zstd" /\ Inner \in message.refused
Decodable == Outermost /\ ~Refused

(* One turn of the loop over the labels (decode.go:47-100). *)
Unwrapping == pc = "unwrap" /\ left > 0

SkipIdentity ==
  /\ Unwrapping /\ Label = "identity" /\ left' = left - 1
  /\ UNCHANGED <<call, pc, layers, warnings, result>>

SkipUnsupported ==
  /\ Unwrapping /\ Label \notin Codings \cup {"identity"} /\ left' = left - 1
  /\ warnings' = warnings \cup {"unsupported"}
  /\ UNCHANGED <<call, pc, layers, result>>

(* An error of a decoder ends the loop with a warning (decode.go:97). *)
EndLoop == pc' = "preview" /\ warnings' = warnings \cup {"not decompressed"} /\ UNCHANGED <<call, left, layers, result>>

TakeOff ==
  /\ layers' = SubSeq(layers, 1, Inner) /\ left' = left - 1
  /\ UNCHANGED <<call, pc, warnings, result>>

UnwrapOrWarn ==
  /\ Unwrapping /\ Label \in Codings /\ Decodable
  /\ IF TooLarge(Inner) THEN EndLoop ELSE TakeOff

(* readBounded stops behind the limit: the call ends (decode.go:84, 92-96). *)
Unwrap ==
  /\ Unwrapping /\ Label \in Codings /\ Decodable
  /\ IF TooLarge(Inner) THEN Fail ELSE TakeOff

NotUnwrappedSilent ==
  /\ Unwrapping /\ Label \in Codings /\ ~Decodable
  /\ pc' = "preview" /\ UNCHANGED <<call, left, layers, warnings, result>>

(* The bytes are not what the label says, or the decoder of zstd asks for more
   memory than decode.go:73 gives it, which is no SizeLimitError. *)
NotUnwrapped == Unwrapping /\ Label \in Codings /\ ~Decodable /\ EndLoop

Clipped(n) == IF n > maxChars THEN maxChars ELSE n

(* The text of the bytes is previewed first (decode.go:139-142).  Bytes that
   are not text are far fewer runes: a run of invalid ones is one. *)
Preview ==
  /\ pc = "preview" \/ (pc = "unwrap" /\ left = 0)
  /\ pc' = "classify"
  /\ result' = [NoResult EXCEPT !.shown = Clipped(message.runes), !.truncated = message.runes > maxChars]
  /\ UNCHANGED <<call, left, layers, warnings>>

----------------------------------------------------------------------------
(* The cases of decode.go:145-230, in their order.  Bytes that still have a
   layer are binary. *)
Shape == IF layers = <<>> THEN message.shape ELSE "binary"
IsProtobuf == descriptor # "none" \/ message.type = "protobuf"
IsJSON == ~IsProtobuf /\ (message.type = "json" \/ Shape = "json")
IsForm == ~IsProtobuf /\ ~IsJSON /\ message.type = "form"
IsMultipart == ~IsProtobuf /\ ~IsJSON /\ message.type = "multipart"
IsOther == ~(IsProtobuf \/ IsJSON \/ IsForm \/ IsMultipart)

(* Half of the limit in bytes, as two digits each. *)
HexShown == IF message.bytes > maxChars \div 2 THEN maxChars \div 2 ELSE message.bytes

Settle(format, value, to) ==
  /\ result' = [result EXCEPT !.format = format, !.value = value] /\ pc' = to
  /\ UNCHANGED <<call, left, layers>>
SettleHex(to) ==
  /\ result' = [result EXCEPT !.format = "binary", !.shown = HexShown] /\ pc' = to
  /\ UNCHANGED <<call, left, layers>>

\* decode.go:146-184
Protobuf ==
  /\ pc = "classify" /\ IsProtobuf
  /\ IF descriptor # "both" THEN SettleHex("shown") /\ warnings' = warnings \cup {"descriptor required"}
     ELSE IF Shape # "protobuf" THEN Fail
     ELSE Settle("protobuf", TRUE, "limit") /\ UNCHANGED warnings

\* decode.go:185-190
JSON ==
  /\ pc = "classify" /\ IsJSON
  /\ IF Shape = "json" THEN Settle("json", TRUE, "limit") /\ UNCHANGED warnings
     ELSE Settle("text", FALSE, "limit") /\ warnings' = warnings \cup {"json"}

\* decode.go:191-223: what does not parse fails the call
FormOrMultipart ==
  /\ pc = "classify" /\ (IsForm \/ IsMultipart)
  /\ IF Shape # message.type THEN Fail
     ELSE Settle(message.type, TRUE, "limit") /\ UNCHANGED warnings

\* decode.go:224-230
Other ==
  /\ pc = "classify" /\ IsOther /\ UNCHANGED warnings
  /\ IF Shape \in {"binary", "protobuf"} /\ message.type # "text" THEN SettleHex("limit")
     ELSE Settle("text", FALSE, "limit")

LimitQuietly ==
  /\ pc = "limit" /\ pc' = "shown"
  /\ result' = IF result.value /\ message.value > maxChars
               THEN [result EXCEPT !.value = FALSE, !.shown = maxChars] ELSE result
  /\ UNCHANGED <<call, left, layers, warnings>>

\* decode.go:231-238: a value that is too long is replaced by its beginning
Limit ==
  /\ pc = "limit" /\ pc' = "shown"
  /\ result' = IF result.value /\ message.value > maxChars
               THEN [result EXCEPT !.value = FALSE, !.shown = maxChars, !.truncated = TRUE] ELSE result
  /\ UNCHANGED <<call, left, layers, warnings>>

Next == Missing \/ Start \/ SkipIdentity \/ SkipUnsupported \/ Unwrap \/ NotUnwrapped \/ Preview
        \/ Protobuf \/ JSON \/ FormOrMultipart \/ Other \/ Limit
Spec == Init /\ [][Next]_vars

----------------------------------------------------------------------------
(* A result without a warning is about the content itself: no layer of coding
   is left on it, however many codings the header named and whether or not
   Charles had removed them (decode.go:41-101; docs/tutorials/gzip-response.md
   takes the absence of warnings for success). *)
NoWarningNoLayer == (pc = "shown" /\ warnings = {}) => layers = <<>>

(* A body that is larger than the limit, as it was recorded or without any of
   the layers that were taken off, is never shown; and where a decoder gave up
   and the call went on with a warning, the bytes were not what the label says,
   or zstd had refused the frame: the limit is never taken for a body that
   Charles had decoded already (decode.go:44-46, 84, 92-97). *)
TooLargeIsAnError ==
  pc = "shown" =>
    /\ \A n \in Len(layers)..Len(message.layers) : ~TooLarge(n)
    /\ left > 0 /\ Outermost => Refused

(* What a caller is not told to be truncated, it has as a whole: the text, or
   the value (decode.go:139-142, 231-238).  Previews in hexadecimal are cut
   at another limit than the one the mark is computed from (README, Divergences). *)
Whole == IF result.value THEN message.value <= maxChars
         ELSE IF result.format = "binary" THEN result.shown = message.bytes
         ELSE result.shown = message.runes
TextIsWhole == (pc = "shown" /\ ~result.truncated /\ result.format # "binary") => Whole

----------------------------------------------------------------------------
(* Why: until something is warned of, the layers left are among the labels
   left; no body on the way was too large; and the preview is the whole text
   unless it is marked, until a value takes its place. *)
PeelingOK ==
  warnings = {} => CASE pc \in {"start", "unwrap"} -> AreAmong(layers, message.labels, left)
                     [] pc \in {"preview", "classify", "limit", "shown"} -> layers = <<>>
                     [] OTHER -> TRUE

SizesOK ==
  /\ pc \in {"unwrap", "preview", "classify", "limit", "shown"} =>
       \A n \in Len(layers)..Len(message.layers) : ~TooLarge(n)
  /\ pc \in {"preview", "classify", "limit", "shown"} /\ left > 0 /\ Outermost => Refused
  /\ pc = "start" => layers = message.layers

PreviewOK ==
  CASE pc = "classify" -> ~result.value /\ (~result.truncated => result.shown = message.runes)
    [] pc = "limit" -> ~result.truncated /\ result.format # "binary" => result.shown = message.runes
    [] pc = "shown" -> TextIsWhole
    [] OTHER -> TRUE

DecodingOK ==
  /\ message \in Messages /\ maxChars \in MaxChars
  /\ pc \in {"start", "unwrap", "preview", "classify", "limit", "shown", "failed"}
  /\ left \in Nat /\ layers \in Seq(Labels)
  /\ result \in Results
  /\ message.missing => pc \in {"start", "failed"}
  /\ PeelingOK /\ SizesOK /\ PreviewOK
=============================================================================
