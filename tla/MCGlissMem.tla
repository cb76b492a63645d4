----------------------------- MODULE MCGlissMem -----------------------------
(* Instances of GlissMem for TLC: two pages of four bytes. *)
EXTENDS GlissMem

(* With the same byte orders fast and io move the same bytes. *)
MCBuilds == ({"fast", "vfast", "mem16"} \X BOOLEAN) \cup {<<"io", TRUE>>}

(* Five bytes from address 3 are a byte and a whole page. *)
MCBlocks == {<<1, 0, 1, 1, 0>>, <<0, 1, 1, 0, 1>>}

(* The last byte of a page and the whole of the next, and within a page    *)
(* neither its first byte nor its last.                                    *)
MCBounds == {<<3, 7>>, <<1, 2>>}

=============================================================================
