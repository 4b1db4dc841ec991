-------------------------- MODULE ProcessingRules ---------------------------
(***************************************************************************)
(* kafka-ws: what the subscribers of a topic are sent.                      *)
(*                                                                         *)
(* A subscriber asks for fields and for conditions ("where").  Its request *)
(* becomes a processing rule, which it shares with every subscriber whose  *)
(* request has the same fingerprint: the request with its fields, its      *)
(* conditions and the values of each condition sorted, as one text.  The   *)
(* rule that runs is the one of whoever came first.                        *)
(***************************************************************************)
EXTENDS Integers, Sequences, FiniteSets, Functions

CONSTANTS
    Subscribers,    \* sessions on one topic
    Names,
    Parameters,     \* the parameters of a message: the path of names to each
    FieldLists,     \* selections of requests: sequences of pieces, <<>> for everything
    Wheres,         \* sequences of conditions, as the query string has them
    Payloads,       \* messages of the topic: parameter -> datum
    TextOrder,      \* the texts of data and values, as Array.sort() puts them
    PiecesOf,       \* text -> its pieces between commas
    NumberOf,       \* text -> the number it reads as, or NaN
    NumberText,     \* number -> its text, as String() writes it
    Within,         \* pairs <<v, t>> of texts: v is found in t
    NaN, NoMessage

\* A value of a condition, as the query string has it.
Value == [text : Range(TextOrder), quoted : BOOLEAN]

\* What "fields" has between two commas: b, a/b, a(b, a(b) or b), for names a and b.
Piece == [opens : Seq(Names), name : Seq(Names), closes : BOOLEAN]

\* The texts: one without a comma is one piece, and two numbers have two texts.
TextsAreTold ==
    /\ TextOrder \in Seq(DOMAIN PiecesOf \cap DOMAIN NumberOf)
    /\ \A t \in DOMAIN PiecesOf : PiecesOf[t] = <<t>> \/ Len(PiecesOf[t]) > 1
    /\ \A t, u \in {v \in DOMAIN NumberOf : NumberOf[v] # NaN} :
          NumberText[NumberOf[t]] = NumberText[NumberOf[u]] => NumberOf[t] = NumberOf[u]

\* Requests and messages.
ShapesAreKept ==
    /\ Parameters \subseteq Seq(Names) /\ FieldLists \subseteq Seq(Piece)
    /\ \A where \in Wheres : \A i \in DOMAIN where :
          where[i].parameter \in Parameters /\ where[i].values \in Seq(Value)
    /\ \A p \in Payloads : DOMAIN p = Parameters
    /\ NoMessage \notin Payloads

ASSUME RulesAssumption == TextsAreTold /\ ShapesAreKept

VARIABLES
    subscriber,     \* subscriber[s]: "none", "open", "refused", "gone"
    asked,          \* asked[s]: the request of s
    ruleOf,         \* ruleOf[s]: the rule its callback runs
    rulesHeld,      \* fingerprint -> the rule and how many subscribers share it
    sentTo,         \* sentTo[s]: what the last message became for s
    message         \* the last message

ruleVars == <<subscriber, asked, ruleOf, rulesHeld, sentTo, message>>

numericOperators == {"gt", "gte", "lt", "lte", "eq", "neq"}
setOperators == {"in", "nin"}

-----------------------------------------------------------------------------
(* Reading a request *)

\* parseBoolean
Booleans == [text \in {"true", "1", "false", "0"} |-> text \in {"true", "1"}]

\* The positions of a sequence that come before j by their rank and, with one rank, by themselves.
PositionsBefore(rank, j) ==
    {k \in DOMAIN rank : rank[k] < rank[j] \/ (rank[k] = rank[j] /\ k < j)}

\* The elements by their rank, those of one rank as they were: what a stable sort returns.
StablySorted(seq, rank) ==
    [i \in DOMAIN seq |->
        seq[CHOOSE j \in DOMAIN seq : Cardinality(PositionsBefore(rank, j)) = i - 1]]

\* separateValues: those in quotes first; only these may hold a comma.
SeparateValues(values) ==
    LET separated == StablySorted(values, [i \in DOMAIN values |-> IF values[i].quoted THEN 0 ELSE 1])
    IN  [i \in DOMAIN separated |-> separated[i].text]

\* OperatorValidator: numbers and booleans are compared with one value of theirs.
ValidValues(operator, texts) ==
    \/ operator \in setOperators
    \/ operator \in numericOperators /\ Len(texts) = 1 /\ NumberOf[texts[1]] # NaN
    \/ operator = "bool" /\ Len(texts) = 1 /\ texts[1] \in DOMAIN Booleans

\* formatValues: the number or the boolean that the text stands for.
FormatValues(operator, texts) ==
    CASE operator \in numericOperators -> <<NumberOf[texts[1]]>>
      [] operator = "bool" -> <<Booleans[texts[1]]>>
      [] OTHER -> texts

\* The parse throws on the first condition whose values do not fit its operator.
WellFormed(where) ==
    \A i \in DOMAIN where : ValidValues(where[i].operator, SeparateValues(where[i].values))

ProcessCondition(c) ==
    [parameter |-> c.parameter, operator |-> c.operator,
     values |-> FormatValues(c.operator, SeparateValues(c.values))]

\* processRule: the filters of the conditions, in their order, and then the mask.
ProcessRule(request) ==
    [fields |-> request.fields,
     conditions |-> [i \in DOMAIN request.where |-> ProcessCondition(request.where[i])]]

TextRank(text) == CHOOSE i \in DOMAIN TextOrder : TextOrder[i] = text

\* The pieces of the texts in a row: what join(',') makes of them.
Joined(texts) ==
    LET upTo[i \in 0..Len(texts)] == IF i = 0 THEN <<>> ELSE upTo[i - 1] \o PiecesOf[texts[i]]
    IN  upTo[Len(texts)]

\* String() of a number or of a boolean.
ValueText(operator, v) ==
    IF operator = "bool" THEN IF v THEN "true" ELSE "false" ELSE NumberText[v]

\* Mutant: the canonical form of a condition leaves its operator out.
CanonicalConditionAnyOperator(c) ==
    [parameter |-> c.parameter,
     values |-> IF c.operator \in setOperators
                THEN Joined(c.values)
                ELSE <<ValueText(c.operator, c.values[1])>>]

\* convertConditionToString: the values sorted, and joined by commas.
CanonicalCondition(c) ==
    [parameter |-> c.parameter, operator |-> c.operator,
     values |-> IF c.operator \in setOperators
                THEN LET ranks == [i \in DOMAIN c.values |-> TextRank(c.values[i])]
                     IN  Joined(StablySorted(c.values, ranks))
                ELSE <<ValueText(c.operator, c.values[1])>>]

\* Two sequences are equal once sorted when each element occurs as often in both.
Occurrences(seq) == [x \in Range(seq) |-> Cardinality({i \in DOMAIN seq : seq[i] = x})]

\* createFingerprint: "fields" is cut at its commas, those within a group too, and the pieces are sorted.
CreateFingerprint(rule) ==
    <<Occurrences(rule.fields),
      Occurrences([i \in DOMAIN rule.conditions |-> CanonicalCondition(rule.conditions[i])])>>

-----------------------------------------------------------------------------
(* Applying a rule *)

Absent(datum) == datum.type = "absent"

\* Number(): a boolean is a number too.
Number(datum) ==
    CASE Absent(datum) -> NaN
      [] datum.type = "boolean" -> IF datum.text = "true" THEN 1 ELSE 0
      [] OTHER -> NumberOf[datum.text]

Compares(operator, n, v) ==
    CASE operator = "gt" -> n > v
      [] operator = "gte" -> n >= v
      [] operator = "lt" -> n < v
      [] operator = "lte" -> n <= v
      [] operator = "eq" -> n = v
      [] operator = "neq" -> n # v

Truthy(datum) ==
    ~Absent(datum) /\ (datum.type = "string" \/ datum.text \notin {"0", "false"})

MatchesAny(datum, values) ==
    Truthy(datum) /\ \E i \in DOMAIN values : <<values[i], datum.text>> \in Within

\* The operators; bool throws where there is no boolean, and nothing is sent.
MeetsCondition(c, datum) ==
    CASE c.operator \in numericOperators ->
            Number(datum) # NaN /\ Compares(c.operator, Number(datum), c.values[1])
      [] c.operator = "in" -> MatchesAny(datum, c.values)
      [] c.operator = "nin" -> ~MatchesAny(datum, c.values)
      [] c.operator = "bool" ->
            ~Absent(datum) /\ datum.text \in DOMAIN Booleans
                           /\ Booleans[datum.text] = c.values[1]

\* json-mask, external: the pieces of a group are of the parent it opened with, up to its end.  A group
\* has no group in it.
Parent(fields, i) ==
    LET opened == {j \in 1..i : fields[j].opens # <<>> /\ \A k \in j..(i - 1) : ~fields[k].closes}
    IN  IF opened = {} THEN <<>> ELSE fields[CHOOSE j \in opened : TRUE].opens

Selects(path, parameter) == Len(path) <= Len(parameter) /\ SubSeq(parameter, 1, Len(path)) = path

\* The mask: everything when no field is named.
Mask(fields, payload) ==
    [p \in {q \in Parameters : ~Absent(payload[q])
                /\ (fields = <<>>
                      \/ \E i \in DOMAIN fields : Selects(Parent(fields, i) \o fields[i].name, q))} |-> payload[p]]

\* The empty object, which nobody is sent, once a filter has dropped the message.
Filtered(rule, payload) ==
    IF \A i \in DOMAIN rule.conditions :
            MeetsCondition(rule.conditions[i], payload[rule.conditions[i].parameter])
    THEN Mask(rule.fields, payload)
    ELSE Mask(<<>>, [p \in Parameters |-> [type |-> "absent", text |-> ""]])

-----------------------------------------------------------------------------
RulesInit ==
    /\ subscriber = [s \in Subscribers |-> "none"]
    /\ asked = [s \in Subscribers |-> NoMessage]
    /\ ruleOf = [s \in Subscribers |-> NoMessage]
    /\ rulesHeld = <<>>
    /\ sentTo = [s \in Subscribers |-> NoMessage]
    /\ message = NoMessage

\* addRule: the rule of the first who came with this fingerprint.
AddRule(s, rule) ==
    LET fingerprint == CreateFingerprint(rule)
        held == IF fingerprint \in DOMAIN rulesHeld
                THEN [rulesHeld[fingerprint] EXCEPT !.count = @ + 1]
                ELSE [count |-> 1, rule |-> rule]
    IN  /\ rulesHeld' = [f \in DOMAIN rulesHeld \cup {fingerprint} |->
                            IF f = fingerprint THEN held ELSE rulesHeld[f]]
        /\ ruleOf' = [ruleOf EXCEPT ![s] = held.rule]

\* onConnection, as far as the rule goes; a malformed request is closed.
Subscribes(s, request) ==
    /\ subscriber[s] = "none"
    /\ asked' = [asked EXCEPT ![s] = request]
    /\ IF WellFormed(request.where)
       THEN /\ AddRule(s, ProcessRule(request))
            /\ subscriber' = [subscriber EXCEPT ![s] = "open"]
       ELSE /\ subscriber' = [subscriber EXCEPT ![s] = "refused"]
            /\ UNCHANGED <<ruleOf, rulesHeld>>
    /\ UNCHANGED <<sentTo, message>>

\* removeRule, by the fingerprint the subscriber was given.
RemoveRule(s) ==
    LET fingerprint == CreateFingerprint(ProcessRule(asked[s]))
        count == rulesHeld[fingerprint].count
    IN  rulesHeld' = IF count > 1
                     THEN [rulesHeld EXCEPT ![fingerprint].count = count - 1]
                     ELSE [f \in DOMAIN rulesHeld \ {fingerprint} |-> rulesHeld[f]]

\* onClose
Unsubscribes(s) ==
    /\ subscriber[s] = "open"
    /\ RemoveRule(s)
    /\ subscriber' = [subscriber EXCEPT ![s] = "gone"]
    /\ sentTo' = [sentTo EXCEPT ![s] = NoMessage]
    /\ UNCHANGED <<asked, ruleOf, message>>

\* A message of the topic: the callback of every subscriber filters it.
Broadcasts(payload) ==
    /\ message = NoMessage
    /\ message' = payload
    /\ sentTo' = [s \in Subscribers |->
                     IF subscriber[s] = "open" THEN Filtered(ruleOf[s], payload) ELSE NoMessage]
    /\ UNCHANGED <<subscriber, asked, ruleOf, rulesHeld>>

RulesNext ==
    \/ \E s \in Subscribers, fields \in FieldLists, where \in Wheres :
            Subscribes(s, [fields |-> fields, where |-> where])
    \/ \E s \in Subscribers : Unsubscribes(s)
    \/ \E payload \in Payloads : Broadcasts(payload)

RulesSpec == RulesInit /\ [][RulesNext]_ruleVars

-----------------------------------------------------------------------------
(* Properties *)

\* Shapes of the state of the rules.
RulesTypeOK ==
    /\ subscriber \in [Subscribers -> {"none", "open", "refused", "gone"}]
    /\ \A f \in DOMAIN rulesHeld : rulesHeld[f].count > 0
    /\ message \in Payloads \cup {NoMessage}
    /\ \A s \in Subscribers : sentTo[s] # NoMessage => message # NoMessage

\* A value with a comma in it: the canonical text cannot tell it from two values.
HoldsComma(s) ==
    /\ subscriber[s] \in {"open", "gone"}
    /\ \E i \in DOMAIN asked[s].where : \E j \in DOMAIN asked[s].where[i].values :
            Len(PiecesOf[asked[s].where[i].values[j].text]) > 1

\* A group with a comma in it: once sorted, its pieces may be of any group, or of none.
GroupsFields(s) ==
    /\ subscriber[s] \in {"open", "gone"}
    /\ \E i \in DOMAIN asked[s].fields : asked[s].fields[i].opens # <<>> /\ ~asked[s].fields[i].closes

\* Nobody can tell that rules are shared: whoever came before and whoever left,
\* each subscriber is sent what a rule of its own would make of the message,
\* unless somebody's value or group of fields holds a comma: in:"a,b" and in:a,b
\* have one fingerprint, and so have a(b,c),d and a(b,d,c).
SharingIsInvisible ==
    \A s \in Subscribers :
        sentTo[s] # NoMessage /\ (\A r \in Subscribers : ~HoldsComma(r) /\ ~GroupsFields(r))
            => sentTo[s] = Filtered(ProcessRule(asked[s]), message)
=============================================================================
