------------------------------ MODULE Registers ------------------------------
(***************************************************************************)
(* What the two 16-bit words of a register mean: the encodings of          *)
(* control_adapter.py, the decoder with its sentinels, and the two         *)
(* readers of the inverter's fallback, the preflight of a session and the  *)
(* commissioning report.                                                   *)
(*                                                                         *)
(* Nothing here changes state and 2^32 is beyond TLC's integers: what the  *)
(* module promises is proved, for every word.                              *)
(***************************************************************************)
EXTENDS Integers, TLAPS

CONSTANT None       \* a reading that is withheld

Word == {n \in Nat : n < 65536}
Unsigned32 == {n \in Nat : n < 4294967296}
Signed32 == {n \in Int : -2147483648 <= n /\ n < 2147483648}
FallbackPower == {n \in Nat : n <= 1000000}    \* up to 10 kW

-----------------------------------------------------------------------------
(* The words on the wire.                                                  *)

(* raw & 0xFFFFFFFF                                                        *)
Masked(raw) == IF raw < 0 THEN raw + 4294967296 ELSE raw

Split(unsigned) == <<unsigned \div 65536, unsigned % 65536>>

(* (words[0] << 16) | words[1]                                             *)
Join(words) == words[1] * 65536 + words[2]

(* The sign bit decides, in the decoder and in _read_s32 alike.            *)
Sign(unsigned) ==
  IF unsigned >= 2147483648 THEN unsigned - 4294967296 ELSE unsigned

(* set_active_power and _write_s32, of a value that is rounded and in      *)
(* range.                                                                  *)
EncodeSigned(raw) == Split(Masked(raw))

DecodeSigned(words) == Sign(Join(words))

-----------------------------------------------------------------------------
(* decode_registers: sentinels are compared with the raw bits.             *)

Unavailable == 4294967295          \* 0xFFFFFFFF
NotANumber == 2147483648           \* 0x80000000

Reading(words, signed, invalid) ==
  IF Join(words) \in invalid THEN None
  ELSE IF signed THEN DecodeSigned(words) ELSE Join(words)

(* The battery's power and current have two sentinels, the rest has one.   *)
SignedReading(words) == Reading(words, TRUE, {Unavailable, NotANumber})
UnsignedReading(words) == Reading(words, FALSE, {Unavailable})

-----------------------------------------------------------------------------
(* The fallback of the inverter: registers 40210, 41193, 41195 and 44037.  *)
(* The fallback power is kept in hundredths of a watt.                     *)

(* configure_failsafe, after the mode was selected.                        *)
Configured(seconds, power) ==
  [mode |-> Split(1079), behavior |-> Split(2507), timeout |-> Split(seconds),
   power |-> EncodeSigned(power)]

(* verify_failsafe                                                         *)
Verified(r) ==
  /\ Join(r.mode) = 1079
  /\ Join(r.behavior) = 2507
  /\ Join(r.timeout) \in 1..1800
  /\ DecodeSigned(r.power) \in FallbackPower

(* CommissioningReport: read without sentinels, through the decoder.       *)
Report(r) ==
  [external_mode |-> Reading(r.mode, FALSE, {}),
   fallback_behavior |-> Reading(r.behavior, FALSE, {}),
   timeout_seconds |-> Reading(r.timeout, FALSE, {}),
   fallback_power |-> Reading(r.power, TRUE, {})]

ReadyForControl(report) ==
  /\ report.external_mode = 1079
  /\ report.fallback_behavior = 2507
  /\ report.timeout_seconds # None /\ report.timeout_seconds \in 1..1800
  /\ report.fallback_power # None /\ report.fallback_power \in FallbackPower

Words == Word \X Word
Fallbacks == [mode : Words, behavior : Words, timeout : Words, power : Words]

-----------------------------------------------------------------------------
(* Splitting and joining lose nothing.                                     *)
LEMMA SplitJoin ==
  ASSUME NEW u \in Unsigned32
  PROVE  Split(u) \in Word \X Word /\ Join(Split(u)) = u
<1>1. u \div 65536 \in Word /\ u % 65536 \in Word
  BY SMT DEF Unsigned32, Word
<1>2. u = (u \div 65536) * 65536 + (u % 65536)
  BY SMT DEF Unsigned32
<1> QED BY SMT, <1>1, <1>2 DEF Split, Join

LEMMA JoinSplit ==
  ASSUME NEW w \in Words
  PROVE  Join(w) \in Unsigned32 /\ Split(Join(w)) = w
<1>1. PICK h \in Word, l \in Word : w = <<h, l>>
  BY SMT DEF Words
<1>2. Join(w) = h * 65536 + l /\ Join(w) \in Unsigned32
  BY SMT, <1>1 DEF Join, Word, Unsigned32
<1>3. (h * 65536 + l) \div 65536 = h /\ (h * 65536 + l) % 65536 = l
  BY SMT DEF Word
<1> QED BY SMT, <1>1, <1>2, <1>3 DEF Split

LEMMA MaskedRange ==
  ASSUME NEW raw \in Signed32
  PROVE  Masked(raw) \in Unsigned32 /\ Sign(Masked(raw)) = raw
BY SMT DEF Signed32, Unsigned32, Masked, Sign

(* A setpoint arrives: the words written to 40149 are words, and the       *)
(* inverter reads from them the power that was meant, of either sign.      *)
THEOREM SetpointArrives ==
  ASSUME NEW raw \in Signed32
  PROVE  EncodeSigned(raw) \in Word \X Word /\ DecodeSigned(EncodeSigned(raw)) = raw
<1>1. Masked(raw) \in Unsigned32 /\ Sign(Masked(raw)) = raw
  BY SMT, MaskedRange
<1>2. Split(Masked(raw)) \in Word \X Word /\ Join(Split(Masked(raw))) = Masked(raw)
  BY SMT, <1>1, SplitJoin
<1> QED BY SMT, <1>1, <1>2 DEF EncodeSigned, DecodeSigned

(* No sentinel passes as a measurement: a signed reading is withheld       *)
(* exactly for the two sentinels, and is a value of the type that is       *)
(* neither of what they would decode to.  So a battery at -1 W is withheld.*)
THEOREM ReadingsGenuine ==
  ASSUME NEW w \in Words, None \notin Int
  PROVE  /\ (SignedReading(w) = None) <=> (Join(w) \in {Unavailable, NotANumber})
         /\ SignedReading(w) # None =>
              SignedReading(w) \in Signed32 \ {-1, -2147483648}
         /\ UnsignedReading(w) # None => UnsignedReading(w) \in Unsigned32 \ {Unavailable}
<1>1. Join(w) \in Unsigned32
  BY SMT, JoinSplit
<1>2. DecodeSigned(w) \in Signed32
  BY SMT, <1>1 DEF DecodeSigned, Sign, Unsigned32, Signed32
<1>3. DecodeSigned(w) # None /\ Join(w) # None
  BY SMT, <1>1, <1>2 DEF Unsigned32, Signed32
<1>4. Join(w) \notin {Unavailable, NotANumber} => DecodeSigned(w) \notin {-1, -2147483648}
  BY SMT, <1>1 DEF DecodeSigned, Sign, Unsigned32, Unavailable, NotANumber
<1> QED BY SMT, <1>1, <1>2, <1>3, <1>4 DEF SignedReading, UnsignedReading, Reading

(* What configure_failsafe writes, verify_failsafe accepts, for every      *)
(* timeout and fallback power it takes.                                    *)
THEOREM ConfiguredVerifies ==
  ASSUME NEW seconds \in 1..1800, NEW power \in FallbackPower
  PROVE  Verified(Configured(seconds, power))
<1>1. 1079 \in Unsigned32 /\ 2507 \in Unsigned32 /\ seconds \in Unsigned32
  BY SMT DEF Unsigned32
<1>2. /\ Join(Split(1079)) = 1079
      /\ Join(Split(2507)) = 2507
      /\ Join(Split(seconds)) = seconds
  BY SMT, <1>1, SplitJoin
<1>3. DecodeSigned(EncodeSigned(power)) = power
  BY SMT, SetpointArrives DEF Signed32, FallbackPower
<1> QED BY SMT, <1>2, <1>3 DEF Verified, Configured

(* The commissioning report, with which an installer is told that control  *)
(* may be enabled, and the preflight of a session agree on every content   *)
(* of the registers.                                                       *)
THEOREM ReportAgrees ==
  ASSUME NEW r \in Fallbacks, None \notin Int
  PROVE  ReadyForControl(Report(r)) <=> Verified(r)
<1>1. /\ Join(r.timeout) \in Unsigned32
      /\ Join(r.power) \in Unsigned32
  BY SMT, JoinSplit DEF Fallbacks
<1>2. Join(r.timeout) # None /\ DecodeSigned(r.power) # None
  BY SMT, <1>1 DEF DecodeSigned, Sign, Unsigned32
<1> QED BY SMT, <1>2 DEF ReadyForControl, Report, Verified, Reading
=============================================================================
