------------------------------ MODULE Framing ------------------------------
(***************************************************************************)
(* What surrounds a sentence on its way out: the checks and the frame of a *)
(* sentence the operator typed (custom_sentence) and the TAG block that an *)
(* output may put in front of one.                                         *)
(*                                                                         *)
(* A typed body is told apart by what the checks look at: whether there is *)
(* anything but blanks, its delimiter, what follows a star, the length of  *)
(* its address, whether characters are in it that may not be sent, and its *)
(* width.                                                                  *)
(***************************************************************************)
EXTENDS Decoder

CONSTANT MaxBody    \* widest body: 80 characters less delimiter, star and checksum

TypedBody == [blank : BOOLEAN, delimiter : {"", "$", "!"},
              suffix : {"none", "checksum", "other"}, address : Nat,
              reserved : BOOLEAN, width : Nat]

(* normalise: the first rule a typed body breaks.                          *)
CustomError(body) ==
    CASE body.blank -> "empty"
      [] body.suffix = "other" -> "star"
      [] body.reserved -> "characters"
      [] body.address < 3 -> "address"
      [] body.width > MaxBody -> "width"
      [] OTHER -> "none"

(* frame_custom_sentence: the delimiter typed or $, and a fresh checksum.  *)
(* A reader takes at most two characters of the address for the talker.    *)
FrameCustom(body) ==
    IF CustomError(body) # "none" THEN <<>>
    ELSE <<[Sentence(IF body.address > 2 THEN "XYZ" ELSE "", <<>>)
            EXCEPT !.delimiter = IF body.delimiter = "" THEN "$" ELSE body.delimiter]>>

(* format_tag_block: the source, the time in seconds or milliseconds when  *)
(* it is asked for, and the checksum.                                      *)
TagBlock(options, time) ==
    [source |-> IF options.source = "" THEN "SIM" ELSE options.source,
     time |-> IF ~ options.include_time THEN None
              ELSE IF options.milliseconds THEN time ELSE time \div 1000,
     checksum |-> "good"]
=============================================================================
