------------------------------ MODULE Framing -------------------------------
(* How sign.rs joins a context label and a message into the bytes that both  *)
(* signature algorithms sign.  Strings are sequences of bytes; the 8-byte    *)
(* big-endian length of frame() stands as one element, since it is of fixed  *)
(* width and I2OSP(n, 8) is one-to-one below 2^64.                           *)
EXTENDS Naturals, Sequences

(* Faulty variant: a fixed prefix instead of the context's length.           *)
FrameWithoutLength(context, message) == <<0>> \o context \o message

(* frame(context, message) *)
Frame(context, message) == <<Len(context)>> \o context \o message
=============================================================================
