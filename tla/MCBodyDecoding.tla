--------------------------- MODULE MCBodyDecoding ---------------------------
(* Values of the constants of BodyDecoding for TLC. *)
EXTENDS Naturals, Sequences, SequencesExt

(* The bytes have all of the layers the labels name, or Charles removed some of
   the outer ones; those of zstd are large frames that are refused, or others. *)
Labels == {<<>>, <<"gzip">>, <<"br", "gzip">>, <<"zstd", "gzip">>, <<"gzip", "identity">>, <<"gzip", "other">>, <<"other">>}
Types == {"protobuf", "json", "form", "multipart", "text", "none"}
Shapes == {"json", "form", "multipart", "plain", "protobuf"}
Wrapped(labels) == SelectSeq(labels, LAMBDA l : l # "identity")
Layers == UNION {{SubSeq(Wrapped(l), 1, n) : n \in 0..Len(Wrapped(l))} : l \in Labels}

Mixtures ==
  {[labels |-> l, layers |-> w, type |-> t, shape |-> s, bytes |-> b, runes |-> r, value |-> v,
    missing |-> FALSE, large |-> {}, refused |-> {}] :
     l \in Labels, w \in Layers, t \in Types, s \in Shapes, b \in {2, 6}, r \in {1, 2, 6}, v \in {2, 5}}

Ordinary ==
  {m \in Mixtures : /\ IsPrefix(m.layers, Wrapped(m.labels)) /\ m.runes <= m.bytes
                    /\ (m.shape # "protobuf" => m.runes = m.bytes)}

Sized == {m \in Ordinary : m.type \in {"json", "text"} /\ m.shape = "json" /\ m.bytes = 2 /\ m.value = 2}

DecodeMessages ==
  Ordinary
  \cup {[m EXCEPT !.large = {n}, !.refused = f] : m \in Sized, n \in 0..2, f \in {{}, {0}}}
  \cup {[m EXCEPT !.missing = TRUE] : m \in {x \in Ordinary : x.labels = <<>> /\ x.layers = <<>> /\ x.type = "none"}}
=============================================================================
