---------------------------- MODULE MCQueryPages ----------------------------
(* Values of the constants of QueryPages for TLC. *)
EXTENDS Naturals

E(status, error, class, start, size) ==
  [texts |-> IF class = "image" THEN {} ELSE {"json"}, status |-> status, error |-> error, class |-> class,
   priority |-> IF status >= 400 \/ error THEN 100 ELSE IF class = "api" THEN 90 ELSE 5,
   start |-> start, size |-> size, decodes |-> status # 404, duration |-> size]

PageEntries == {E(0, FALSE, "api", 0, 0), E(200, FALSE, "api", 0, 2), E(404, FALSE, "api", 0, 1),
              E(0, TRUE, "document", 0, 1), E(200, FALSE, "image", 0, 3)}

All == [texts |-> {}, hasError |-> "any", statuses |-> {}, classes |-> {}, minPriority |-> 0,
        preset |-> "all_http", since |-> 0, minSize |-> 0, maxSize |-> 0, body |-> FALSE]

PageQueries == {All, [All EXCEPT !.preset = "api_focus"], [All EXCEPT !.preset = "page_bootstrap", !.hasError = "no"],
              [All EXCEPT !.texts = {"json"}], [All EXCEPT !.statuses = {200, 404}], [All EXCEPT !.since = 1],
              [All EXCEPT !.classes = {"api"}, !.minPriority = 95], [All EXCEPT !.minSize = 1, !.maxSize = 2],
              [All EXCEPT !.minSize = 2, !.maxSize = 1], [All EXCEPT !.body = TRUE]}
=============================================================================
