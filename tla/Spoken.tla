------------------------------- MODULE Spoken -------------------------------
(***************************************************************************)
(* How a Hindi voice reads out what is written in digits                   *)
(* (spoken_hindi): numbers, amounts, times, dates and phone numbers become *)
(* words.  A word is a string: the 100 units are their numeral, the others *)
(* their name in Latin letters; a comma is a word, for it is a pause.  The *)
(* system takes one written expression of a kind and reads it; which       *)
(* pattern a text matches is left to the caller.                           *)
(***************************************************************************)
EXTENDS Naturals, Sequences, TLC, SequencesExt

CONSTANTS Amounts,       \* written numbers: [whole, fraction], digits of the fraction
          MaxScaled,     \* bound: so many of a scale
          Hours, Minutes, Days, Months, Years,  \* what clocks and dates are tried
          PhoneNumbers      \* written phone numbers: [country, groups], digits each

VARIABLES written,   \* what is written
          readAs     \* how it was read, << >> while it was not

spokenVars == <<written, readAs>>

word(n) == <<ToString(n)>>
SCALES == {<<10000000, "karor">>, <<100000, "lakh">>, <<1000, "hazar">>, <<100, "sau">>}

\* The largest scale in n, how many of it, and what is left.
number_words[n \in Nat] ==
  IF n < 100 THEN word(n)
  ELSE LET scale == CHOOSE s \in SCALES :
                      /\ s[1] <= n
                      /\ \A t \in SCALES : t[1] <= n => t[1] <= s[1]
           left == n % scale[1]
       IN number_words[n \div scale[1]] \o <<scale[2]>>
            \o IF left = 0 THEN <<>> ELSE number_words[left]

digit_words(digits) == [i \in DOMAIN digits |-> ToString(digits[i])]

\* Half past one and half past two, one and a half, have words of their own.
half(n) == CASE n = 1 -> <<"derh">> [] n = 2 -> <<"dhai">>
             [] OTHER -> <<"sarhe">> \o number_words[n]
decimal_words(whole, fraction) ==
  IF fraction = <<5>> /\ whole >= 1 THEN half(whole)
  ELSE number_words[whole] \o <<"dashamlav">> \o digit_words(fraction)

\* What is left of a fraction without the zeros at its end.
stripped(fraction) ==
  SubSeq(fraction, 1, CHOOSE n \in 0 .. Len(fraction) :
                        /\ n = 0 \/ fraction[n] # 0
                        /\ \A i \in n + 1 .. Len(fraction) : fraction[i] = 0)
quantity_words(amount) ==
  IF stripped(amount.fraction) = <<>> THEN number_words[amount.whole]
  ELSE decimal_words(amount.whole, stripped(amount.fraction))

\* Mutated form: the first digit of the fraction alone does not stand for tens.
paiseAsWritten(fraction) ==
  CASE fraction = <<>> -> 0 [] Len(fraction) = 1 -> fraction[1]
    [] OTHER -> 10 * fraction[1] + fraction[2]

paise(fraction) ==
  CASE fraction = <<>> -> 0 [] Len(fraction) = 1 -> 10 * fraction[1]
    [] OTHER -> 10 * fraction[1] + fraction[2]

rupees(amount, scale) ==
  IF scale # 1
  THEN quantity_words(amount) \o <<(CHOOSE s \in SCALES : s[1] = scale)[2], "rupaye">>
  ELSE number_words[amount.whole] \o <<IF amount.whole = 1 THEN "rupaya" ELSE "rupaye">>
         \o IF paise(amount.fraction) = 0 THEN <<>>
            ELSE number_words[paise(amount.fraction)] \o <<"paise">>

period_of_day(hour, meridiem) ==
  CASE meridiem = "am" -> IF hour = 12 \/ hour < 4 THEN <<"raat">> ELSE <<"subah">>
    [] meridiem = "pm" -> IF hour = 12 \/ hour < 4 THEN <<"dopahar">>
                          ELSE IF hour < 7 THEN <<"shaam">> ELSE <<"raat">>
    [] OTHER -> CASE hour = 0 -> <<"raat">> [] hour \in 1 .. 12 -> <<>>
                  [] hour \in 13 .. 15 -> <<"dopahar">> [] hour \in 16 .. 18 -> <<"shaam">>
                  [] OTHER -> <<"raat">>

clock_hour(hour) == IF hour % 12 = 0 THEN 12 ELSE hour % 12

time_words(hour, minute, meridiem) ==
  LET h == clock_hour(hour)
  IN period_of_day(hour, meridiem) \o
       CASE minute = 0 -> word(h) \o <<"baje">>
         [] minute = 15 -> <<"sava">> \o word(h) \o <<"baje">>
         [] minute = 30 -> half(h) \o <<"baje">>
         [] minute = 45 -> <<"paune">> \o word(clock_hour(h + 1)) \o <<"baje">>
         [] OTHER -> word(h) \o <<"bajkar">> \o word(minute) \o <<"minat">>

\* What is no time, no date and no phone number stays as it was written.
AsWritten == <<"as written">>

times(t) == IF t.hour > 23 \/ t.minute > 59 THEN AsWritten
            ELSE time_words(t.hour, t.minute, t.meridiem)

\* A year of the centuries 11 to 19 is so many hundreds; two digits are 20xx.
year_words(year) ==
  IF year \in 1100 .. 1999
  THEN word(year \div 100) \o <<"sau">> \o IF year % 100 = 0 THEN <<>> ELSE word(year % 100)
  ELSE number_words[year]
full_year(digits, year) == IF digits = 2 THEN 2000 + year ELSE year
date_words(day, month, year) == word(day) \o <<"month", ToString(month)>> \o year_words(year)
dates(t) == IF t.month \notin 1 .. 12 \/ t.day \notin 1 .. 31 THEN AsWritten
            ELSE date_words(t.day, t.month, full_year(t.digits, t.year))

\* The groups of a number, a pause between them.
paused(groups) ==
  FlattenSeq([i \in DOMAIN groups |-> (IF i = 1 THEN <<>> ELSE <<",">>) \o groups[i]])
grouped(digits) ==
  LET size == IF Len(digits) = 10 THEN 5 ELSE 3
      least(a, b) == IF a < b THEN a ELSE b
  IN paused([i \in 1 .. (Len(digits) + size - 1) \div size |->
               digit_words(SubSeq(digits, (i - 1) * size + 1, least(i * size, Len(digits))))])

\* Eight to thirteen digits, in groups or with a country, are a phone number.
phones(p) ==
  LET said == [i \in DOMAIN p.groups |->
                 IF Len(p.groups[i]) > 5 THEN grouped(p.groups[i]) ELSE digit_words(p.groups[i])]
      alone == p.country = <<>> /\ Len(p.groups) < 2
  IN IF Len(FlattenSeq(p.groups)) \notin 8 .. 13 \/ alone THEN AsWritten
     ELSE paused(IF p.country = <<>> THEN said
                 ELSE <<(<<"plus">> \o digit_words(p.country))>> \o said)

Texts ==
  [kind : {"quantity", "percent"}, amount : Amounts] \cup
  [kind : {"rupees"}, amount : Amounts, scale : {1}] \cup
  [kind : {"rupees"}, amount : {a \in Amounts : a.whole < MaxScaled},
   scale : {1000, 100000, 10000000}] \cup
  [kind : {"time"}, hour : Hours, minute : Minutes, meridiem : {"", "am", "pm"}] \cup
  [kind : {"date"}, day : Days, month : Months, digits : {2}, year : Years \cap 0 .. 99] \cup
  [kind : {"date"}, day : Days, month : Months, digits : {4}, year : Years] \cup
  [kind : {"phone"}, phone : PhoneNumbers] \cup
  [kind : {"digits"}, phone : {p \in PhoneNumbers : Len(p.groups) = 1 /\ p.country = <<>>}]

read_out(t) ==
  CASE t.kind = "quantity" -> quantity_words(t.amount)
    [] t.kind = "rupees" -> rupees(t.amount, t.scale)
    [] t.kind = "percent" -> quantity_words(t.amount) \o <<"pratishat">>
    [] t.kind = "digits" -> grouped(t.phone.groups[1])
    [] t.kind = "time" -> times(t)
    [] t.kind = "date" -> dates(t)
    [] t.kind = "phone" -> phones(t.phone)

SpokenInit == written \in Texts /\ readAs = <<>>

readsOut == readAs = <<>> /\ readAs' = read_out(written) /\ UNCHANGED written

SpokenSpec == SpokenInit /\ [][readsOut]_spokenVars

(***************************************************************************)
(* Property.                                                               *)
(***************************************************************************)

\* What a written expression means: a number; for rupees the thousands of
\* hundredths, the hundredths over, and the digits of a scale beyond those; the
\* minute of a day, a date, the digits of a phone number.
hundredths(amount) ==
  LET f == amount.fraction \o <<0, 0>> IN 100 * amount.whole + 10 * f[1] + f[2]
beyond(amount) == LET f == stripped(amount.fraction) IN SubSeq(f, 3, Len(f))
meaning(t) ==
  CASE t.kind \in {"quantity", "percent"} -> <<t.amount.whole, stripped(t.amount.fraction)>>
    [] t.kind = "rupees" ->
         IF t.scale = 1
         THEN <<hundredths(t.amount) \div 1000, hundredths(t.amount) % 1000, <<>>>>
         ELSE <<hundredths(t.amount) * (t.scale \div 1000), 0,
                IF beyond(t.amount) = <<>> THEN <<>> ELSE <<t.scale>> \o beyond(t.amount)>>
    [] t.kind = "time" -> <<(IF t.meridiem = "" THEN t.hour
                             ELSE (t.hour % 12) + IF t.meridiem = "pm" THEN 12 ELSE 0) * 60 + t.minute>>
    [] t.kind = "date" -> <<t.day, t.month, IF t.digits = 2 THEN 2000 + t.year ELSE t.year>>
    [] t.kind \in {"phone", "digits"} -> <<t.phone.country, FlattenSeq(t.phone.groups)>>

\* A time with am or pm is one of the 12-hour clock.  The others have no meaning
\* but are read all the same (times): 15:30 pm in the words of 3:30 am.
OfTheClock(t) == t.kind = "time" /\ t.meridiem # "" => t.hour <= 12

\* Two expressions of a kind that are read alike mean the same: who listens can
\* tell an amount, a time, a date or a number from every other.  And a number, a
\* share or a date has one reading, however it is written: with zeros at its end
\* (quantity_words), with two digits for its year (full_year).
ReadsBack ==
  readAs \notin {<<>>, AsWritten} /\ OfTheClock(written) =>
    \A other \in Texts :
      other.kind = written.kind /\ OfTheClock(other) =>
        /\ read_out(other) = readAs => meaning(other) = meaning(written)
        /\ written.kind \in {"quantity", "percent", "date"} /\ meaning(other) = meaning(written)
             => read_out(other) = readAs
=============================================================================
