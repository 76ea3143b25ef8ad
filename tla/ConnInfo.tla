------------------------------ MODULE ConnInfo ------------------------------
(***************************************************************************)
(* Connection strings: the loop of parse_connection_string_libpq, over     *)
(* strings as an operator writes them into the configuration and over the  *)
(* primary_conninfo line that pglookout itself has written.  Following a   *)
(* master compares what the line says with what it should say              *)
(* (AutoFollow.tla), so a line that is not read back costs a restart of    *)
(* PostgreSQL.  A string is a sequence of characters, of which Space       *)
(* stands for all white space.                                             *)
(***************************************************************************)
EXTENDS Integers, Sequences, FiniteSetsExt, Functions

CONSTANTS Characters, Space, Quote, Backslash, Equals,
          Keys,     \* the keywords, words, in the order of the dictionary
          Values    \* what they may be given

ASSUME CharactersAssumption ==
  /\ {Space, Quote, Backslash, Equals} \subseteq Characters
  /\ Space \notin {Quote, Backslash, Equals} /\ Quote \notin {Backslash, Equals}
  /\ Backslash # Equals

ASSUME KeysAssumption ==
  /\ Keys \in Seq(Seq(Characters)) /\ Keys # <<>>
  /\ \A i \in DOMAIN Keys : Keys[i] # <<>> /\ {Space, Equals} \cap Range(Keys[i]) = {}
  /\ \A i, j \in DOMAIN Keys : Keys[i] = Keys[j] => i = j

ASSUME ValuesAssumption == Values \subseteq Seq(Characters)

VARIABLES
  info,     \* what the string was made from
  own,      \* it is pglookout's own line
  quotes,   \* the values as they are written into it
  rest,     \* connection_string, what is left of it
  fields,   \* the dictionary so far
  status    \* "parsing", "done", or "failed" (ValueError)

vars == <<info, own, quotes, rest, fields, status>>

Words == Seq(Characters)

\* What a loop over the elements of s makes of start; effect[x] is a turn's.
Loop(s, effect, start) ==
  LET after[i \in 0..Len(s)] == IF i = 0 THEN start ELSE effect[s[i]][after[i - 1]]
  IN after[Len(s)]

\* The elements of s replaced by words.
Each(s, word) == Loop(s, [x \in DOMAIN word |-> [text \in Words |-> text \o word[x]]], <<>>)

Escaped(s) ==
  Each(s, [c \in Characters |-> IF c \in {Quote, Backslash} THEN <<Backslash, c>> ELSE <<c>>])
Doubled(s) == Each(s, [c \in Characters |-> IF c = Quote THEN <<c, c>> ELSE <<c>>])
Enclosed(s) == <<Quote>> \o s \o <<Quote>>

\* The fragments for some of the keywords.
Joined(keys, value) ==
  Each(keys, [k \in Range(Keys) |-> <<Space>> \o k \o <<Equals>> \o value[k]])

MustEnclose(v) == v = <<>> \/ Space \in Range(v)
Bare(v) == ~MustEnclose(v) /\ {Quote, Backslash} \cap Range(v) = {}

\* How the documentation of libpq has values written that contain anything;
\* those of the keywords in bare are written as they are.  It also allows spaces
\* around the "=" and backslashes in a bare value, which the parser takes for a part
\* of the key, or literally: an operator who writes them is not modelled.
OperatorQuotes(i, bare) ==
  [k \in Range(Keys) |-> IF k \in bare THEN i[k] ELSE Enclosed(Escaped(i[k]))]

\* psycopg2's make_dsn, for create_connection_string: quotes where it must.
DsnQuotes(i) ==
  [k \in Range(Keys) |-> IF MustEnclose(i[k]) THEN Enclosed(Escaped(i[k])) ELSE Escaped(i[k])]
MakeDsn(i) == Tail(Joined(Keys, DsnQuotes(i)))

\* The value written to recovery.conf: psycopg2's adapt makes a literal of it
\* (with standard_conforming_strings).
OwnValue(i) == <<Space>> \o Enclosed(Doubled(MakeDsn(i)))

\* str.strip().
Strip(s) ==
  LET visible == {i \in DOMAIN s : s[i] # Space}
  IN IF visible = {} THEN <<>> ELSE SubSeq(s, Min(visible), Max(visible))

\* str.find() of any of the characters, from 1; 0 if there is none.
Find(s, chars) ==
  LET at == {i \in DOMAIN s : s[i] \in chars}
  IN IF at = {} THEN 0 ELSE Min(at)

\* str.replace() of two quotes by one, at a character c; half if what was read
\* ends with a quote that may be the first of two.
Unpair(read, c) ==
  IF c = Quote /\ read.half THEN [text |-> read.text, half |-> FALSE]
  ELSE [text |-> Append(read.text, c), half |-> c = Quote]
Unpaired(s) ==
  Loop(s, [c \in Characters |-> [read \in [text : Words, half : BOOLEAN] |-> Unpair(read, c)]],
       [text |-> <<>>, half |-> FALSE]).text

\* Faulty variant: the doubled quotes stay.
AsWritten(value) == SubSeq(Strip(value), 2, Len(Strip(value)) - 1)

\* get_connection_info_from_config_line.
FromConfigLine(value) == Unpaired(SubSeq(Strip(value), 2, Len(Strip(value)) - 1))

Init ==
  /\ info \in [Range(Keys) -> Values]
  /\ own \in BOOLEAN
  /\ \/ /\ own
        /\ quotes = DsnQuotes(info)
        /\ rest = FromConfigLine(OwnValue(info))
     \/ /\ ~own
        /\ \E bare \in SUBSET {k \in Range(Keys) : Bare(info[k])} :
             quotes = OperatorQuotes(info, bare)
        /\ rest = Joined(Keys, quotes)
  /\ fields = [k \in {} |-> <<>>]
  /\ status = "parsing"

\* A value, how its loop has ended, and what is left behind it.
Scanned(value, mode, left) == [value |-> value, mode |-> mode, rest |-> left]

\* Faulty variant: a backslash is a character like others.
ScanVerbatim(s) ==
  LET end == Find(s, {Quote})
  IN IF end = 0 THEN Scanned(s, "open", <<>>)
     ELSE Scanned(SubSeq(s, 1, end - 1), "closed", SubSeq(s, end + 1, Len(s)))

\* A turn of the loop over a quoted value; what is behind the quote that ends it
\* is the rest.
ScanCharacter(scan, c) ==
  IF scan.mode = "closed" THEN Scanned(scan.value, "closed", Append(scan.rest, c))
  ELSE IF scan.mode = "asis" THEN Scanned(Append(scan.value, c), "open", <<>>)
  ELSE IF c = Quote THEN Scanned(scan.value, "closed", <<>>)
  ELSE IF c = Backslash THEN Scanned(scan.value, "asis", <<>>)
  ELSE Scanned(Append(scan.value, c), "open", <<>>)

\* The whole loop, from behind the quote that starts the value.
Scans == [value : Words, mode : {"open", "asis", "closed"}, rest : Words]
Scan(s) ==
  Loop(s, [c \in Characters |-> [scan \in Scans |-> ScanCharacter(scan, c)]],
       Scanned(<<>>, "open", <<>>))

\* rem.split(None, 1), whose single word is not used but rem itself.
FirstWord(rem) ==
  LET start == Find(rem, Characters \ {Space})
      after == Find(SubSeq(rem, start, Len(rem)), {Space})
      more == Strip(SubSeq(rem, start + after, Len(rem)))
  IN IF start = 0 \/ after = 0 \/ more = <<>>
     THEN Scanned(rem, "closed", <<>>)
     ELSE Scanned(SubSeq(rem, start, start + after - 2), "closed", more)

Value(rem) == IF rem # <<>> /\ rem[1] = Quote THEN Scan(Tail(rem)) ELSE FirstWord(rem)

With(f, key, value) == [k \in DOMAIN f \cup {key} |-> IF k = key THEN value ELSE f[k]]

\* One turn of the loop; with `=' at position at of what is left.
Fragment(text, at) ==
  \E rem \in {SubSeq(text, at + 1, Len(text))} :
  \E part \in {Value(rem)} :
    IF part.mode = "closed"
    THEN /\ fields' = With(fields, SubSeq(text, 1, at - 1), part.value)
         /\ rest' = part.rest /\ UNCHANGED status
    ELSE status' = "failed" /\ UNCHANGED <<rest, fields>>

Parse ==
  /\ status = "parsing"
  /\ \E text \in {Strip(rest)} :
     \E at \in {Find(text, {Equals})} :
       \/ text = <<>> /\ status' = "done" /\ UNCHANGED <<rest, fields>>
       \/ text # <<>> /\ at = 0 /\ status' = "failed" /\ UNCHANGED <<rest, fields>>
       \/ at # 0 /\ Fragment(text, at)
  /\ UNCHANGED <<info, own, quotes>>

Spec == Init /\ [][Parse]_vars
-----------------------------------------------------------------------------
\* Values that make_dsn does not escape without enclosing them.
Readable == \A k \in Range(Keys) : MustEnclose(info[k]) \/ Bare(info[k])

\* pgutil.py:63-96.  Whatever a value contains, a string written as libpq wants
\* it, with quotes where they are needed or everywhere, is understood.
UnderstandsQuoting == ~own => status # "failed" /\ (status = "done" => fields = info)

\* pglookout.py:731-760, pgutil.py:25-28.  What pglookout writes as
\* primary_conninfo it reads back, so that following the same master again is
\* not a change; but not values with a quote or a backslash and no space, which
\* make_dsn escapes without enclosing them.
ReadsOwnLine == own /\ Readable => status # "failed" /\ (status = "done" => fields = info)
=============================================================================
