------------------------ MODULE MCUnlimitedSender ------------------------
(* The unlimited sender with the sizes of the code: a report never fits    *)
(* into a pooled slice.                                                    *)
EXTENDS UnlimitedSender
=============================================================================
