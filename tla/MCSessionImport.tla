-------------------------- MODULE MCSessionImport --------------------------
(* Values of the constants of SessionImport for TLC. *)
EXTENDS Naturals, Sequences, TLC

T(ident, body, num, place) == [ident |-> ident, body |-> body, num |-> num, place |-> place]

(* Member "10-meta.json" sorts before "2-meta.json" by name. *)
ZipFile(txs, over, dup) == [kind |-> "zip", over |-> over, dup |-> dup, txs |-> txs]
TextFile(kind, txs) == [kind |-> kind, over |-> FALSE, dup |-> FALSE, txs |-> txs]

Archive == ZipFile(<<T("a", "text", 10, 1), T("b", "base64", 2, 2)>>, FALSE, FALSE)
Big == ZipFile(<<T("a", "text", 1, 1)>>, TRUE, FALSE)
BigDup == ZipFile(<<T("a", "text", 1, 1)>>, TRUE, TRUE)
Old == [kind |-> "old", over |-> FALSE, dup |-> FALSE, txs |-> <<>>]
BigOld == [Old EXCEPT !.over = TRUE]
Good == TextFile("xml", <<T("a", "text", 0, 0), T("a", "text", 0, 0)>>)
Half == TextFile("xml", <<T("a", "text", 0, 0), T("b", "bad", 0, 0)>>)
Json == TextFile("json", <<T("a", "base64", 0, 0)>>)

NativeFile == [name |-> "one", ext |-> "chls"]
Export == [name |-> "two", ext |-> "xml"]
ImportFiles == {NativeFile, Export}
ImportContents == NativeFile :> {Archive, Big, BigDup, Old, BigOld} @@ Export :> {Good, Half, Json}

(* The versions write the body of one request in two ways. *)
ImportConvert(content, version) ==
  CASE content.kind = "old" -> TextFile("xml", <<T("a", version, 0, 0)>>)
    [] content = BigDup -> Half
    [] OTHER -> [kind |-> "failed"]
=============================================================================
