------------------------------- MODULE Helpers -------------------------------
(***************************************************************************)
(* Two helpers the code writes itself to spare a dependency, each beside   *)
(* what it stands for: the time stamps of src/src/tape/mod.rs and          *)
(* isolation_proof.rs (civil_from_days) beside a calendar that counts its  *)
(* days and seconds one by one, and the base64 decoder of                  *)
(* capture_screenshot in src/src/commands.rs beside an encoder.            *)
(*                                                                         *)
(* A run does one `task`.  A character of base64 is the number of its six  *)
(* bits.                                                                   *)
(***************************************************************************)
EXTENDS Integers, Sequences, FiniteSets

CONSTANTS
  LastDay,           \* bound: days since 1970-01-01
  FullDays,          \* bound: days gone through second by second
  Bytes, MaxBytes,   \* of an image, bound
  MaxNoise,          \* bound: characters in a data URL that are not its own
  Modulus            \* 2^w for a buffer of w bits: 2^32 in the code

Byte == 0..255

(* The buffer holds twelve bits at least: what is left of a byte, and a    *)
(* character.                                                              *)
ASSUME HelpersAssumption ==
  /\ LastDay \in Nat /\ FullDays \subseteq Nat
  /\ Bytes \subseteq Byte /\ MaxBytes \in Nat /\ MaxNoise \in Nat
  /\ Modulus \in Nat \ {0} /\ Modulus % 4096 = 0

VARIABLES
  task,              \* "stamp" or "decode"
  day, time,         \* days since 1970, seconds of the day
  date, clock,       \* what the calendar and the clock show
  bytes,             \* the image
  header,            \* length of the data URL's header
  url, sent,         \* the data URL, and its own characters in it so far
  text,              \* the base64 in it
  pos,               \* of the filter in url, then of the decoder in text
  buf, nbits,        \* of the decoder
  out,               \* the bytes decoded
  phase              \* of the capture

stampVars  == <<day, time, date, clock>>
pageVars   == <<bytes, header, url, sent>>
decodeVars == <<text, pos, buf, nbits, out>>
vars       == <<task, stampVars, pageVars, decodeVars, phase>>

-----------------------------------------------------------------------------
(* Dates.                                                                  *)

(* Mutant: no day is taken back for the fourth century.                    *)
JulianOfEra(doe) == (doe - doe \div 1460 + doe \div 36524) \div 365

(* civil_from_days: the year, from March on, of a day in its 400 years.    *)
YearOfEra(doe) == (doe - doe \div 1460 + doe \div 36524 - doe \div 146096) \div 365

(* The days before that year.                                              *)
YearStart(yoe) == 365 * yoe + yoe \div 4 - yoe \div 100

(* Month and day of a day of that year.                                    *)
MonthOfYear(doy) == (5 * doy + 2) \div 153
MonthDay(doy) ==
  LET mp == MonthOfYear(doy)
  IN  <<IF mp < 10 THEN mp + 3 ELSE mp - 9, doy - (153 * mp + 2) \div 5 + 1>>

(* civil_from_days, for the days since 1970.                               *)
CivilFromDays(d) ==
  LET era == (d + 719468) \div 146097
      doe == (d + 719468) % 146097
      md  == MonthDay(doe - YearStart(YearOfEra(doe)))
  IN  <<YearOfEra(doe) + era * 400 + (IF md[1] <= 2 THEN 1 ELSE 0), md[1], md[2]>>

(* The hour, minute and second of format_iso_utc.                          *)
TimeOfDay(tod) == <<tod \div 3600, (tod % 3600) \div 60, tod % 60>>

(* The calendar.                                                           *)
Leap(y) == y % 4 = 0 /\ (y % 100 # 0 \/ y % 400 = 0)
DaysOf(y, m) ==
  CASE m = 2 -> IF Leap(y) THEN 29 ELSE 28
    [] m \in {4, 6, 9, 11} -> 30
    [] OTHER -> 31
DayAfter(y, m, d) ==
  CASE d < DaysOf(y, m) -> <<y, m, d + 1>>
    [] d >= DaysOf(y, m) /\ m < 12 -> <<y, m + 1, 1>>
    [] OTHER -> <<y + 1, 1, 1>>
SecondAfter(h, m, s) ==
  CASE s < 59 -> <<h, m, s + 1>>
    [] s >= 59 /\ m < 59 -> <<h, m + 1, 0>>
    [] OTHER -> <<h + 1, 0, 0>>

Tomorrow == DayAfter(date[1], date[2], date[3])

(* A day passes, from midnight to midnight.                                *)
NextDay ==
  /\ task = "stamp" /\ time = 0 /\ day < LastDay
  /\ day' = day + 1 /\ date' = Tomorrow
  /\ UNCHANGED <<task, time, clock, pageVars, decodeVars, phase>>

(* A second passes.                                                        *)
NextSecond ==
  /\ task = "stamp" /\ day \in FullDays /\ day < LastDay
  /\ IF time < 86399
       THEN /\ time' = time + 1 /\ clock' = SecondAfter(clock[1], clock[2], clock[3])
            /\ UNCHANGED <<day, date>>
       ELSE time' = 0 /\ clock' = <<0, 0, 0>> /\ day' = day + 1 /\ date' = Tomorrow
  /\ UNCHANGED <<task, pageVars, decodeVars, phase>>

-----------------------------------------------------------------------------
(* The page, which encodes its screenshot as a data URL.                   *)

Pad == -1
Space == -2
Comma == -3
Alien == -4          \* any other character
Base64 == 0..63
Chars == Base64 \cup {Pad, Space, Comma, Alien}

(* What an encoder makes of an image: four characters of three bytes, the  *)
(* bits missing at the end as zeros, and `=` up to a multiple of four.     *)
ByteAt(bs, k) == IF k <= Len(bs) THEN bs[k] ELSE 0
Sextet(bs, i) ==
  LET k == 3 * ((i - 1) \div 4) IN
  CASE i % 4 = 1 -> ByteAt(bs, k + 1) \div 4
    [] i % 4 = 2 -> 16 * (ByteAt(bs, k + 1) % 4) + ByteAt(bs, k + 2) \div 16
    [] i % 4 = 3 -> 4 * (ByteAt(bs, k + 2) % 16) + ByteAt(bs, k + 3) \div 64
    [] OTHER -> ByteAt(bs, k + 3) % 64
Sextets == (8 * Len(bytes) + 5) \div 6
Char(i) == IF i <= Sextets THEN Sextet(bytes, i) ELSE Pad

Send ==
  /\ task = "decode" /\ phase = "sending"
  /\ sent < Sextets + ((-Sextets) % 4)
  /\ url' = Append(url, Char(sent + 1))
  /\ sent' = sent + 1
  /\ UNCHANGED <<task, stampVars, bytes, header, decodeVars, phase>>

(* A line break, or a character that does not belong there.                *)
SendNoise ==
  /\ task = "decode" /\ phase = "sending"
  /\ Len(url) < header + sent + MaxNoise
  /\ \E c \in {Space, Alien} : url' = Append(url, c)
  /\ UNCHANGED <<task, stampVars, bytes, header, sent, decodeVars, phase>>

-----------------------------------------------------------------------------
(* capture_screenshot.                                                     *)

(* split_once(','): what comes behind the first comma, or all of it.       *)
BodyStart(u) ==
  IF \E i \in DOMAIN u : u[i] = Comma
  THEN (CHOOSE i \in DOMAIN u : u[i] = Comma /\ \A j \in 1..(i - 1) : u[j] # Comma) + 1
  ELSE 1

(* The response of capture_native_screenshot, its padding there or left    *)
(* out; it may be an error, or have neither dataUrl nor data.              *)
Respond ==
  /\ task = "decode" /\ phase = "sending"
  /\ \/ sent >= Sextets /\ pos' = BodyStart(url) /\ phase' = "cleaning"
     \/ phase' = "failed" /\ pos' = pos
  /\ UNCHANGED <<task, stampVars, pageVars, text, buf, nbits, out>>

(* Mutant: only what comes behind a line break is kept.                    *)
CleanLastLine ==
  /\ task = "decode" /\ phase = "cleaning" /\ pos \in DOMAIN url
  /\ text' = IF url[pos] = Space THEN <<>> ELSE Append(text, url[pos])
  /\ pos' = pos + 1
  /\ UNCHANGED <<task, stampVars, pageVars, buf, nbits, out, phase>>

(* decode_base64: the whitespace is left out.                              *)
Clean ==
  /\ task = "decode" /\ phase = "cleaning" /\ pos \in DOMAIN url
  /\ text' = IF url[pos] = Space THEN text ELSE Append(text, url[pos])
  /\ pos' = pos + 1
  /\ UNCHANGED <<task, stampVars, pageVars, buf, nbits, out, phase>>

(* trim_end_matches('=')                                                   *)
Padded == text # <<>> /\ text[Len(text)] = Pad

Trim ==
  /\ task = "decode" /\ phase = "cleaning" /\ pos > Len(url)
  /\ Padded
  /\ text' = SubSeq(text, 1, Len(text) - 1)
  /\ UNCHANGED <<task, stampVars, pageVars, pos, buf, nbits, out, phase>>

(* Mutant: the padding is left on.                                         *)
BeginPadded ==
  /\ task = "decode" /\ phase = "cleaning" /\ pos > Len(url)
  /\ pos' = 1 /\ phase' = "decoding"
  /\ UNCHANGED <<task, stampVars, pageVars, text, buf, nbits, out>>

Begin ==
  /\ task = "decode" /\ phase = "cleaning" /\ pos > Len(url)
  /\ ~Padded
  /\ pos' = 1 /\ phase' = "decoding"
  /\ UNCHANGED <<task, stampVars, pageVars, text, buf, nbits, out>>

(* Mutant: `>` for `>=`: eight bits are not enough for a byte.             *)
DecodeLate ==
  /\ task = "decode" /\ phase = "decoding" /\ pos \in DOMAIN text /\ text[pos] \in Base64
  /\ buf' = (buf * 64 + text[pos]) % Modulus
  /\ IF nbits + 6 > 8
       THEN nbits' = nbits - 2 /\ out' = Append(out, (buf' \div 2^nbits') % 256)
       ELSE nbits' = nbits + 6 /\ out' = out
  /\ pos' = pos + 1
  /\ UNCHANGED <<task, stampVars, pageVars, text, phase>>

(* A character goes into the buffer, a byte comes out of it once there are *)
(* eight bits.                                                             *)
Decode ==
  /\ task = "decode" /\ phase = "decoding" /\ pos \in DOMAIN text /\ text[pos] \in Base64
  /\ buf' = (buf * 64 + text[pos]) % Modulus
  /\ IF nbits + 6 >= 8
       THEN nbits' = nbits - 2 /\ out' = Append(out, (buf' \div 2^nbits') % 256)
       ELSE nbits' = nbits + 6 /\ out' = out
  /\ pos' = pos + 1
  /\ UNCHANGED <<task, stampVars, pageVars, text, phase>>

(* "invalid base64 char".                                                  *)
Reject ==
  /\ task = "decode" /\ phase = "decoding" /\ pos \in DOMAIN text /\ text[pos] \notin Base64
  /\ phase' = "invalid"
  /\ UNCHANGED <<task, stampVars, pageVars, decodeVars>>

(* The directory is made and the file written, or not.                     *)
Write ==
  /\ task = "decode" /\ phase = "decoding" /\ pos > Len(text)
  /\ phase' \in {"written", "failed"}
  /\ UNCHANGED <<task, stampVars, pageVars, decodeVars>>

-----------------------------------------------------------------------------
Init ==
  /\ task \in {"stamp", "decode"}
  /\ day = 0 /\ time = 0 /\ date = <<1970, 1, 1>> /\ clock = <<0, 0, 0>>
  /\ IF task = "stamp" THEN bytes = <<>> /\ url = <<>>
     ELSE /\ bytes \in UNION {[1..n -> Bytes] : n \in 0..MaxBytes}
          /\ url \in {<<>>, <<Alien, Alien, Comma>>}
  /\ header = Len(url) /\ sent = 0
  /\ text = <<>> /\ pos = 1 /\ buf = 0 /\ nbits = 0 /\ out = <<>>
  /\ phase = "sending"

Next ==
  \/ NextDay \/ NextSecond
  \/ Send \/ SendNoise
  \/ Respond \/ Clean \/ Trim \/ Begin \/ Decode \/ Reject \/ Write

Spec == Init /\ [][Next]_vars

-----------------------------------------------------------------------------
TypeOK ==
  /\ task \in {"stamp", "decode"}
  /\ day \in 0..LastDay /\ time \in Nat /\ time < 86400
  /\ bytes \in Seq(Byte)
  /\ header \in {0, 3} /\ url \in Seq(Chars) /\ sent \in Nat
  /\ text \in Seq(Chars) /\ pos \in Nat \ {0}
  /\ nbits \in {0, 2, 4, 6} /\ buf \in Nat
  /\ out \in Seq(Byte)
  /\ phase \in {"sending", "cleaning", "decoding", "written", "failed", "invalid"}

(* A time stamp is the date and the time it was taken at, at every month's *)
(* end, leap day and century of the calendar.                              *)
StampsRight == CivilFromDays(day) = date /\ TimeOfDay(time) = clock

(* capture_screenshot writes the image the page sent, however its base64   *)
(* is padded and broken into lines, and refuses one if and only if there   *)
(* is a character in it that is not base64.                                *)
Foreign == \E i \in (header + 1)..Len(url) : url[i] = Alien

ScreenshotIsImage ==
  /\ phase = "written" => out = bytes /\ ~Foreign
  /\ phase = "invalid" => Foreign

-----------------------------------------------------------------------------
(* What makes it inductive.  Of the data URL: where its header ends, and   *)
(* which of its own characters each is, if there is no foreign one.        *)
Kept(i) == Cardinality({j \in (header + 1)..i : url[j] # Space})

Sent ==
  /\ header <= Len(url)
  /\ \A i \in DOMAIN url : url[i] = Comma <=> i = header
  /\ Foreign \/
       /\ sent = Kept(Len(url))
       /\ \A i \in (header + 1)..Len(url) : url[i] # Space => url[i] = Char(Kept(i))
  /\ phase \notin {"sending", "failed"} => sent >= Sextets

(* Of the text that is being cleaned: it has what was kept, in its order.  *)
Cleaned ==
  /\ phase = "sending" => text = <<>>
  /\ phase \in {"sending", "cleaning"} => buf = 0 /\ nbits = 0 /\ out = <<>>
  /\ phase = "cleaning" =>
       /\ pos \in (header + 1)..(Len(url) + 1)
       /\ ~Foreign =>
            /\ \A k \in DOMAIN text : text[k] = Char(k)
            /\ IF pos <= Len(url) THEN Len(text) = Kept(pos - 1) ELSE Len(text) >= Sextets
       /\ (\E i \in (header + 1)..(pos - 1) : url[i] = Alien) =>
            \E k \in DOMAIN text : text[k] = Alien

(* Once trimmed it is the encoded image, or has a foreign character.       *)
Trimmable ==
  phase \in {"decoding", "written", "invalid"} =>
    IF Foreign THEN \E k \in DOMAIN text : text[k] = Alien
    ELSE Len(text) = Sextets /\ \A k \in DOMAIN text : text[k] = Sextet(bytes, k)

(* Of the decoder: the bits it has read are those of the bytes it put out, *)
(* and of one more that it has begun.                                      *)
Decoded ==
  phase \in {"decoding", "written"} =>
    /\ pos <= Len(text) + 1
    /\ \A k \in 1..(pos - 1) : text[k] \in Base64
    /\ phase = "written" => pos = Len(text) + 1
    /\ ~Foreign =>
         /\ 8 * Len(out) + nbits = 6 * (pos - 1)
         /\ \A k \in DOMAIN out : out[k] = ByteAt(bytes, k)
         /\ buf % 2^nbits = ByteAt(bytes, Len(out) + 1) \div 2^(8 - nbits)

IInv == TypeOK /\ StampsRight /\ Sent /\ Cleaned /\ Trimmable /\ Decoded /\ ScreenshotIsImage
=============================================================================
