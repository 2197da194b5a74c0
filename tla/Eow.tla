--------------------------------- MODULE Eow ---------------------------------
(***************************************************************************)
(* The 12-bit engineering orderwire field every D_PDU carries (eow.py):    *)
(* the type in the upper 4 bits, what it means in the lower 8.             *)
(***************************************************************************)
EXTENDS Naturals

Eows == 0 .. 4095
\* The w bits of x from bit b on.
Bits(x, b, w) == (x \div 2^b) % 2^w

EowType == [CAPABILITY |-> 0, DRC_REQUEST |-> 1, DRC_RESPONSE |-> 2, UNRECOGNIZED_TYPE |-> 3,
            CAPABILITY_ADVERTISEMENT |-> 4, HDR_CHANGE_REQUEST |-> 7]
(* DRC_RATE_TO_BPS: codes 12 to 15 have no rate.                           *)
RateBps ==
  <<75, 150, 300, 600, 1200, 2400, 3200, 3600, 4800, 6400, 8000, 9600>>
BpsOf(code) == IF code < 12 THEN RateBps[code + 1] ELSE 0
InterleaveMode == [NONE |-> 0, SHORT |-> 1, LONG |-> 2, RESERVED |-> 3]
DrcResponse == [ACCEPT |-> 0, REFUSE |-> 1, CANCEL |-> 2, CONFIRM |-> 3]
Busy == 1

Typed(type, content) == EowType[type] * 256 + (content % 256)

(* build_eow_drc, build_eow_drc_response, build_eow_unrecognized,          *)
(* build_eow_capability, build_eow_hdr_change_request: values too large    *)
(* lose their upper bits, but for the last, which refuses them.            *)
BuildDrc(rate, interleave) == Typed("DRC_REQUEST", (rate % 16) * 16 + (interleave % 4) * 4)
BuildDrcResponse(response, reason) == Typed("DRC_RESPONSE", (response % 8) * 32 + (reason % 32))
BuildUnrecognized(type) == Typed("UNRECOGNIZED_TYPE", type % 16)
BuildCapability(bitmap) == Typed("CAPABILITY_ADVERTISEMENT", bitmap)
\* Eight channels are written as 0.
BuildHdr(waveform, channels) ==
  Typed("HDR_CHANGE_REQUEST", waveform * 8 + IF channels = 8 THEN 0 ELSE channels)
HdrIsValid(waveform, channels) == waveform \in 0 .. 31 /\ channels \in 1 .. 8

(* parse_eow, parse_eow_hdr_change_request.                                *)
ParseEow(eow) ==
  LET type == Bits(eow, 8, 4)
      content == Bits(eow, 0, 8)
  IN  CASE type = 1 -> [type |-> type, rate |-> Bits(content, 4, 4), bps |-> BpsOf(Bits(content, 4, 4)),
                        interleave |-> Bits(content, 2, 2), other |-> Bits(content, 0, 2)]
        [] type = 2 -> [type |-> type, response |-> Bits(content, 5, 3), reason |-> Bits(content, 0, 5)]
        [] type = 3 -> [type |-> type, unrecognized |-> Bits(content, 0, 4)]
        [] type = 4 -> [type |-> type, bitmap |-> content]
        [] OTHER    -> [type |-> type]
ParseHdr(eow) ==
  [waveform |-> Bits(eow, 3, 5), channels |-> IF Bits(eow, 0, 3) = 0 THEN 8 ELSE Bits(eow, 0, 3)]
-----------------------------------------------------------------------------
(* The fields tried, by the function that builds them.                     *)
Fields ==
  [kind : {"drc"}, x : 0 .. 15, y : 0 .. 3] \cup [kind : {"response"}, x : 0 .. 7, y : 0 .. 31]
    \cup [kind : {"unrecognized"}, x : 0 .. 15, y : {0}] \cup [kind : {"capability"}, x : 0 .. 255, y : {0}]
    \cup {f \in [kind : {"hdr"}, x : 0 .. 31, y : 0 .. 8] : HdrIsValid(f.x, f.y)}
EowReadsBack(f) ==
  CASE f.kind = "drc" -> /\ ParseEow(BuildDrc(f.x, f.y)).rate = f.x
                         /\ ParseEow(BuildDrc(f.x, f.y)).interleave = f.y
    [] f.kind = "response" -> /\ ParseEow(BuildDrcResponse(f.x, f.y)).response = f.x
                              /\ ParseEow(BuildDrcResponse(f.x, f.y)).reason = f.y
    [] f.kind = "unrecognized" -> ParseEow(BuildUnrecognized(f.x)).unrecognized = f.x
    [] f.kind = "capability" -> ParseEow(BuildCapability(f.x)).bitmap = f.x
    [] f.kind = "hdr" -> ParseHdr(BuildHdr(f.x, f.y)) = [waveform |-> f.x, channels |-> f.y]
=============================================================================
