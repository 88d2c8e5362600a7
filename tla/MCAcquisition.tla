---- MODULE MCAcquisition ----
(* Sources of up to three pages, and the two kinds of host policy. *)
EXTENDS Acquisition

Source(kind, pages, short, cyclic, cached, path) ==
  [kind |-> kind, pages |-> pages, short |-> short, cyclic |-> cyclic, cached |-> cached,
   itemsPath |-> path]

MCSources ==
  {Source("none", 1, FALSE, FALSE, TRUE, "data"),
   Source("next-link", 2, FALSE, FALSE, TRUE, "items"),
   Source("next-link", 1, FALSE, TRUE, FALSE, "items"),
   Source("page-number", 2, TRUE, FALSE, TRUE, "data"),
   Source("page-number", 1, FALSE, FALSE, TRUE, "items"),
   Source("page-number", 3, FALSE, FALSE, TRUE, "items")}

MCPolicies == {[min |-> 2, max |-> 0, window |-> 0], [min |-> 0, max |-> 2, window |-> 3]}
====
