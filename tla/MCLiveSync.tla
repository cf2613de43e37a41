----------------------------- MODULE MCLiveSync -----------------------------
(* Instances of LiveSync: small notebooks of prose (p, q, h) and code      *)
(* (x, y, z).                                                              *)
EXTENDS LiveSync

Flat(c, chrome) == [contents |-> c, nested |-> {}, chrome |-> chrome]

Nested(c, at) == [contents |-> c, nested |-> at, chrome |-> "toc"]

(* A code block edited (z for x), one inserted above code as a duplicate of*)
(* one below, and a new heading.                                           *)
DocsEdited ==
  {Flat(<<"x", "p", "y">>, "toc"), Flat(<<"z", "p", "y">>, "toc"),
   Flat(<<"y", "x", "p", "y">>, "toc"), Flat(<<"x", "h", "p", "y">>, "toc2")}

DocsNested ==
  {Nested(<<"x", "p", "y">>, {2}), Nested(<<"x", "p", "x", "y">>, {2, 3})}

(* A code block edited, and a paragraph added at the end.                  *)
DocsCode ==
  {Flat(<<"x", "p", "y">>, "toc"), Flat(<<"z", "p", "y">>, "toc"),
   Flat(<<"z", "p", "y", "q">>, "toc")}

DocsSteady == DocsEdited \cup DocsNested

CodesXYZ == {"x", "y", "z"}
=============================================================================
