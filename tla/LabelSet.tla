------------------------------ MODULE LabelSet ------------------------------
(***************************************************************************)
(* Label sets of profiles (labelset/labelset.go, labelset/validate.go) and *)
(* the ingest handler that rewrites them (application/agent/restapi/       *)
(* pyroscope.go): a parser taken from a pool reads one rune at a time.     *)
(*                                                                         *)
(* Text is a sequence of runes, and a rune stands for a class: x and p are *)
(* runes of label names, - only of service names, ? of neither; N stands   *)
(* for the whole word __name__.  The order of labels in a normalized name  *)
(* is some fixed order.                                                    *)
(***************************************************************************)
EXTENDS Naturals, Sequences, FiniteSets, SequencesExt, FiniteSetsExt

CONSTANTS
  Runes,      \* the runes profiles are named with
  MaxLen,     \* bound: the length of a profile name
  Peers       \* the labels ingest adds, of each agent there can be: id, hostname, ...

LabelNameRunes == {"x", "p", "N"}

ServiceNameRunes == LabelNameRunes \cup {"-"}

\* Text is written in the runes of requests, those of names and the separators.
Alphabet == Runes \cup ServiceNameRunes \cup {"{", "}", "=", ",", " "}

Text == Seq(Alphabet)

VARIABLES
  parser,  \* the pooled parser: its state, key and value buffers
  call,    \* the call of Parse by ingest: idle, parsing, parsed, failed, sent
  input,   \* the runes the call has read
  labels,  \* LabelSet.labels
  peer,    \* the labels of the agent whose request ingest forwards
  name     \* the name ingest forwards

vars == <<parser, call, input, labels, peer, name>>

-----------------------------------------------------------------------------
Name == <<"N">>

\* strings.TrimSpace
Trim(s) ==
  LET text == {i \in DOMAIN s : s[i] # " "}
  IN IF text = {} THEN << >> ELSE SubSeq(s, Min(text), Max(text))

\* The keys of the labels of an agent are names; their values are what the agent
\* says of itself.
ASSUME LabelSetAssumption ==
  /\ MaxLen \in Nat
  /\ \A p \in Peers :
       /\ IsFiniteSet(DOMAIN p)
       /\ p = [key \in DOMAIN p |-> p[key]]
       /\ \A key \in DOMAIN p :
            key \in Seq({"x", "p"}) /\ key # << >> /\ p[key] \in Text

IsLabelNameReserved(k) == k = Name

ValidLabelName(k) ==
  k # << >> /\ ToSet(k) \subseteq LabelNameRunes /\ ~IsLabelNameReserved(k)

ValidServiceName(n) == n # << >> /\ ToSet(n) \subseteq ServiceNameRunes

ValidLabelSet(k) ==
  \A key \in DOMAIN k :
    IF key = Name THEN ValidServiceName(k[key]) ELSE ValidLabelName(key)

NoLabels == [key \in {} |-> << >>]

\* k[key] = value
With(k, key, value) ==
  [j \in DOMAIN k \cup {key} |-> IF j = key THEN value ELSE k[j]]

-----------------------------------------------------------------------------
(***************************************************************************)
(* The parser.  A step yields the parser, the labels and whether it failed.*)
(***************************************************************************)
NewParser == [state |-> "name", key |-> << >>, value |-> << >>]

\* Mutant: the key buffer survives.
ResetKeepsKey(p) == [NewParser EXCEPT !.key = p.key]

\* parser.reset
Reset(p) == NewParser

Step(p, k, ok) == [parser |-> p, labels |-> k, ok |-> ok]

nameParserCase(p, k, r) ==
  IF r = "{"
  THEN LET n == Trim(p.value)
           q == [p EXCEPT !.state = "tagLabelSet"]
       IN IF ValidServiceName(n) THEN Step(q, With(k, Name, n), TRUE) ELSE Step(q, k, FALSE)
  ELSE Step([p EXCEPT !.value = Append(@, r)], k, TRUE)

tagLabelSetParserCase(p, k, r) ==
  CASE r = "}" -> Step([p EXCEPT !.state = "done"], k, TRUE)
    [] r = "=" -> Step([[p EXCEPT !.value = << >>] EXCEPT !.state = "tagValue"], k, TRUE)
    [] OTHER   -> Step([p EXCEPT !.key = Append(@, r)], k, TRUE)

\* Mutant: the value is not trimmed.
tagValueUntrimmed(p, k, r) ==
  IF r \in {",", "}"}
  THEN LET key == Trim(p.key)
           q == [p EXCEPT !.state = "tagLabelSet"]
       IN IF IsLabelNameReserved(key) \/ ValidLabelName(key)
          THEN Step([q EXCEPT !.key = << >>], With(k, key, p.value), TRUE)
          ELSE Step(q, k, FALSE)
  ELSE Step([p EXCEPT !.value = Append(@, r)], k, TRUE)

tagValueParserCase(p, k, r) ==
  IF r \in {",", "}"}
  THEN LET key == Trim(p.key)
           q == [p EXCEPT !.state = "tagLabelSet"]
       IN IF IsLabelNameReserved(key) \/ ValidLabelName(key)
          THEN Step([q EXCEPT !.key = << >>], With(k, key, Trim(p.value)), TRUE)
          ELSE Step(q, k, FALSE)
  ELSE Step([p EXCEPT !.value = Append(@, r)], k, TRUE)

\* The switch of Parse.
Read(p, k, r) ==
  CASE p.state = "name"        -> nameParserCase(p, k, r)
    [] p.state = "tagLabelSet" -> tagLabelSetParserCase(p, k, r)
    [] p.state = "tagValue"    -> tagValueParserCase(p, k, r)
    [] p.state = "done"        -> Step(p, k, TRUE)

\* The loop of Parse goes on unless an error has been returned.
Feed(st, r) == IF st.ok THEN Read(st.parser, st.labels, r) ELSE st

\* What a parser nobody has used makes of a text.
Fed[s \in Text] ==
  IF s = << >> THEN Step(NewParser, NoLabels, TRUE) ELSE Feed(Fed[Front(s)], Last(s))

\* Parse with a parser nobody has used.
Parse(s) == Fed[Append(s, "{")]

-----------------------------------------------------------------------------
(***************************************************************************)
(* Normalized, and the keys of trees.                                      *)
(***************************************************************************)
Label(k, key) == key \o <<"=">> \o k[key]

\* Mutant: the separator of the second label is forgotten.
NormalizedUnseparated(k) ==
  LET keys == SetToSeq(DOMAIN k \ {Name})
      app == IF Name \in DOMAIN k THEN k[Name] ELSE << >>
  IN app \o <<"{">> \o FlattenSeq([i \in DOMAIN keys |-> Label(k, keys[i])]) \o <<"}">>

\* LabelSet.Normalized
Normalized(k) ==
  LET keys == SetToSeq(DOMAIN k \ {Name})
      tags == [i \in DOMAIN keys |-> IF i = 1 THEN Label(k, keys[i])
                                              ELSE <<",">> \o Label(k, keys[i])]
      app == IF Name \in DOMAIN k THEN k[Name] ELSE << >>
  IN app \o <<"{">> \o FlattenSeq(tags) \o <<"}">>

\* TreeLabelSet, for a depth and a time of one digit each.
TreeLabelSet(n, depth, time) == n \o <<":", depth, ":", time>>

\* strings.Split(k, ":")
Fields(k) ==
  LET cuts == {0, Len(k) + 1} \cup {i \in DOMAIN k : k[i] = ":"}
      at == SetToSortSeq(cuts, <)
  IN [j \in 1 .. Len(at) - 1 |-> SubSeq(k, at[j] + 1, at[j + 1] - 1)]

Digits == {"0", "1", "2"}

\* strconv.Atoi
IsNumber(f) == f # << >> /\ ToSet(f) \subseteq Digits

\* ParseTreeLabelSet: the depth and the time, or nothing and an error.
ParseTreeLabelSet(k) ==
  LET a == Fields(k)
  IN IF Len(a) >= 3 /\ IsNumber(a[2]) /\ IsNumber(a[3]) THEN <<a[2], a[3]>> ELSE << >>

\* Mutant: the last brace ends the name.
FromTreeToLastBrace(k) ==
  SubSeq(k, 1, Max({i \in DOMAIN k : k[i] = "{"}) - 1)

\* FromTreeToDictLabelSet
FromTreeToDictLabelSet(k) ==
  SubSeq(k, 1, Min({i \in DOMAIN k : k[i] = "{"}) - 1)

-----------------------------------------------------------------------------
(***************************************************************************)
(* ingest, one request after the other, with the parser of the pool.       *)
(***************************************************************************)
Init ==
  /\ parser = NewParser
  /\ call = "idle"
  /\ input = << >>
  /\ labels = NoLabels
  /\ peer = NoLabels
  /\ name = << >>

\* A request arrives; Parse gets the parser from the pool and resets it.
Begin ==
  /\ call \in {"idle", "failed", "sent"}
  /\ parser' = Reset(parser)
  /\ call' = "parsing"
  /\ input' = << >>
  /\ labels' = NoLabels
  /\ peer' = NoLabels
  /\ name' = << >>

\* The next rune of the name, which is appended with "{" at its end.
ReadRune(r, last) ==
  LET st == Read(parser, labels, r)
  IN /\ call = "parsing"
     /\ parser' = st.parser
     /\ labels' = st.labels
     /\ call' = IF ~st.ok THEN "failed" ELSE IF last THEN "parsed" ELSE "parsing"
     /\ input' = IF last THEN input ELSE Append(input, r)
     /\ UNCHANGED <<peer, name>>

\* Mutant: the labels of the request win over those of the agent.
IngestRequestWins(p) ==
  /\ call = "parsed"
  /\ peer' = p
  /\ labels' = [key \in DOMAIN p \cup DOMAIN labels |->
                  IF key \in DOMAIN labels THEN labels[key] ELSE p[key]]
  /\ name' = Normalized(labels')
  /\ call' = "sent"
  /\ UNCHANGED <<parser, input>>

\* ingest writes the labels p of the agent over those of the request, and forwards
\* the normalized name.
Ingest(p) ==
  /\ call = "parsed"
  /\ peer' = p
  /\ labels' = [key \in DOMAIN p \cup DOMAIN labels |->
                  IF key \in DOMAIN p THEN p[key] ELSE labels[key]]
  /\ name' = Normalized(labels')
  /\ call' = "sent"
  /\ UNCHANGED <<parser, input>>

Next ==
  \/ Begin
  \/ \E r \in Runes : Len(input) < MaxLen /\ ReadRune(r, FALSE)
  \/ ReadRune("{", TRUE)
  \/ \E p \in Peers : Ingest(p)

Spec == Init /\ [][Next]_vars

-----------------------------------------------------------------------------
(***************************************************************************)
(* Properties.                                                             *)
(***************************************************************************)

\* A pooled parser gives what a new one gives: nothing of an earlier request,
\* parsed or failed half way, is left in it (sync.Pool, parser.reset).
PoolIndependent ==
  /\ call = "parsed" => labels = Parse(input).labels /\ Parse(input).ok
  /\ call = "failed" => ~Parse(input).ok

\* What Parse lets through: a name, and valid or reserved keys whose values hold
\* no rune that would end them and no space around them.
ParsedIsClean ==
  call = "parsed" =>
    /\ Name \in DOMAIN labels
    /\ \A key \in DOMAIN labels :
         /\ key = Name \/ ValidLabelName(key)
         /\ ToSet(labels[key]) \cap {",", "}"} = {}
         /\ Trim(labels[key]) = labels[key]

\* A value that is read back as it is written: no rune of it ends a value, and no
\* space is around it.
Unbroken(v) == ToSet(v) \cap {",", "}"} = {} /\ Trim(v) = v

\* Labels that are written without a brace before the one that ends the name, and
\* with unbroken values.
Plain(k) == "{" \notin ToSet(k[Name]) /\ \A key \in DOMAIN k : Unbroken(k[key])

\* A normalized name means the same labels: whoever parses with this same code, as
\* Pyroscope does, sees the labels that were normalized, or refuses a service name
\* that is not valid.  Neither Parse nor ingest asks for Plain labels: a
\* reserved __name__ may bring a brace in its value, and an agent any value.
NormalizedMeansTheSame ==
  call \in {"parsed", "sent"} /\ Plain(labels) =>
    LET again == Parse(Normalized(labels))
    IN /\ again.ok <=> ValidServiceName(labels[Name])
       /\ again.ok => again.labels = labels

\* A forwarded name that parses carries the identity of the agent, whatever labels
\* the request brings along under the same keys.  The ways out are two, and
\* ingest stops neither: a request whose reserved __name__ holds a brace, and an
\* agent one of whose values is broken.
PeerIdentityKept ==
  call = "sent" /\ Parse(name).ok =>
    \/ \A key \in DOMAIN peer : /\ key \in DOMAIN Parse(name).labels
                               /\ Parse(name).labels[key] = peer[key]
    \/ "{" \in ToSet(labels[Name])
    \/ \E key \in DOMAIN peer : ~Unbroken(peer[key])

\* FromTreeToDictLabelSet gives back the service name of a tree key of labels that
\* ValidateLabelSet accepts, whatever braces the values of the others hold.
DictLabelSetFromTree ==
  call = "parsed" /\ ValidLabelSet(labels) =>
    FromTreeToDictLabelSet(TreeLabelSet(Normalized(labels), "1", "2")) = labels[Name]

\* labelset.go:184: ParseTreeLabelSet retrieves tree time and depth level from
\* the given key, that is from a key TreeLabelSet makes.
TreeKeyParses ==
  call = "parsed" =>
    ParseTreeLabelSet(TreeLabelSet(Normalized(labels), "1", "2")) = <<<<"1">>, <<"2">>>>
=============================================================================
