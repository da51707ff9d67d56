------------------------------- MODULE Replies -------------------------------
(***************************************************************************)
(* How a reply is made (toolbox.Answering.llm_node): the conversation is   *)
(* cut to what memory.Memory keeps, a line said to the room is judged, and *)
(* the model's answer is asked for again when it is refused (recovering)   *)
(* or repeats an earlier one (unrepeated).  The conversation is the        *)
(* framework's; its items count one token each, and a word is a chunk.     *)
(* What a summary says is the set of the items it was made from.           *)
(***************************************************************************)
EXTENDS Naturals, Sequences, FiniteSets, FiniteSetsExt

CONSTANTS Kinds,      \* kinds of items: messages, "call" and "output"
          Verbatim,   \* VERBATIM_TOKENS
          Hard,       \* HARD_TOKENS
          Retry,      \* RETRY_ITEMS
          Opening,    \* OPENING_WORDS
          MaxItems,   \* bound: items of the conversation
          MaxWordsSaid,   \* bound: words of a reply
          MaxReplies0     \* bound: replies

ASSUME RepliesAssumption ==
  /\ Kinds \subseteq {"user", "room", "assistant", "cut", "blank", "call", "output"}
  /\ {Verbatim, Hard, Retry, Opening, MaxItems, MaxWordsSaid, MaxReplies0} \subseteq Nat
  /\ Verbatim <= Hard /\ Opening > 0

VARIABLES switching,    \* agent.languageSwitching.enabled, read once
          items,        \* the conversation: kinds, with the call of an output
          folded, summary, folding,      \* Memory
          request,      \* what the model is asked with
          stage,        \* where the reply is
          started,      \* recovering's flag
          held, spoken, \* words held back by unrepeated; words passed on
          made          \* replies so far

memoryVars == <<folded, summary, folding>>
streamOf == <<request, stage, started, held, spoken, made>>
repliesVars == <<switching, items, memoryVars, streamOf>>

Messages == {"user", "room", "assistant", "cut", "blank"}
NoRequest == [summary |-> {}, body |-> {}]

RepliesInit ==
  /\ switching \in BOOLEAN /\ items = <<>>
  /\ folded = {} /\ summary = {} /\ folding = {}
  /\ request = NoRequest /\ stage = "idle" /\ started = FALSE
  /\ held = <<>> /\ spoken = <<>> /\ made = 0

(***************************************************************************)
(* The prompt.  A body is a set of places in the conversation; its items   *)
(* are asked with in the order of their places.                            *)
(***************************************************************************)
kind(i) == items[i].kind

cut_short(i) == kind(i) = "cut"

\* Mutated form: a call is kept whose output is not.
half_formed(body) ==
  {i \in body : /\ kind(i) = "output" => items[i].of \in body
                /\ kind(i) # "blank"}

\* Calls without an output, outputs without their call and blank lines go.
well_formed(body) ==
  {i \in body :
    /\ kind(i) = "call" => \E o \in body : kind(o) = "output" /\ items[o].of = i
    /\ kind(i) = "output" => items[i].of \in body
    /\ kind(i) # "blank"}

remembers == {i \in 1 .. Len(items) : ~cut_short(i) /\ i \notin folded}

newest(body, n) == {i \in body : Cardinality({j \in body : i <= j}) <= n}
oldest(body, n) == {i \in body : Cardinality({j \in body : j <= i}) <= n}

\* Memory.context: the oldest turns that do not fit are left out.
context == LET keep == IF Hard > 1 THEN Hard ELSE 1 IN
           [summary |-> summary, body |-> well_formed(newest(remembers, keep))]

\* _fold takes the older half, never the last item, once at a time.
_fold ==
  LET size == Cardinality(remembers)
      half == (size + 1) \div 2
  IN folding' = IF size > Verbatim /\ folding = {}
                  THEN oldest(remembers, IF half < size - 1 THEN half ELSE size - 1)
                  ELSE folding

recent_turns(body) == newest({i \in body : kind(i) \in Messages}, Retry)

judged(body) == LET asked == {i \in body : kind(i) \in {"user", "room"}}
                IN asked # {} /\ kind(Max(asked)) = "room"

(***************************************************************************)
(* The conversation grows: a line, a reply's message, a tool's call and    *)
(* its output (of a call that was not answered yet).                       *)
(***************************************************************************)
added(item) ==
  /\ Len(items) < MaxItems
  /\ item.kind = "output" =>
       /\ item.of \in 1 .. Len(items) /\ kind(item.of) = "call"
       /\ \A i \in 1 .. Len(items) : ~(kind(i) = "output" /\ items[i].of = item.of)
  /\ items' = Append(items, item)
  /\ UNCHANGED <<switching, memoryVars, streamOf>>

\* With language switching the instructions are written anew after the
\* memory wrote its summary into them.
llm_node ==
  /\ stage = "idle" /\ made < MaxReplies0 /\ made' = made + 1
  /\ _fold /\ UNCHANGED <<folded, summary>>
  /\ request' = [context EXCEPT !.summary = IF switching THEN {} ELSE @]
  /\ stage' = IF judged(request'.body) THEN "judging" ELSE "asked"
  /\ started' = FALSE /\ held' = <<>> /\ spoken' = <<>>
  /\ UNCHANGED <<switching, items>>

\* The minutes of the older turns are written, or could not be.
_folded_into_summary(written) ==
  /\ folding # {} /\ folding' = {}
  /\ IF written
       THEN /\ summary' = summary \cup {i \in folding : kind(i) \in Messages \ {"blank"}}
            /\ folded' = folded \cup folding
       ELSE UNCHANGED <<summary, folded>>
  /\ UNCHANGED <<switching, items, streamOf>>

(***************************************************************************)
(* The stream of a reply: asked -> (refused -> plain) -> passed on, or     *)
(* asked again.                                                            *)
(***************************************************************************)
streamStays == UNCHANGED <<switching, items, memoryVars, made>>

\* meant_for_her: a verdict that does not come, or fails, is a no.
decided(meant) ==
  /\ stage = "judging"
  /\ stage' = IF meant THEN "asked" ELSE "idle"
  /\ UNCHANGED <<request, started, held, spoken>> /\ streamStays

opened == Len(held) >= Opening

chunk ==
  /\ stage \in {"asked", "plain"} /\ ~opened
  /\ held' = Append(held, stage) /\ started' = TRUE
  /\ UNCHANGED <<request, stage, spoken>> /\ streamStays

\* Enough was heard to compare, or the answer is over before.
unrepeated(repeats) ==
  /\ stage \in {"asked", "plain"}
  /\ repeats => opened
  /\ IF repeats
       THEN stage' = "again" /\ UNCHANGED spoken
       ELSE stage' = (IF opened THEN "passed" ELSE "idle") /\ spoken' = spoken \o held
  /\ UNCHANGED <<request, started, held>> /\ streamStays

passedOn ==
  /\ stage \in {"passed", "again"} /\ Len(spoken) < MaxWordsSaid
  /\ spoken' = Append(spoken, IF stage = "again" THEN "again" ELSE held[1])
  /\ UNCHANGED <<request, stage, started, held>> /\ streamStays

\* The answer is over, or the framework interrupts the reply.
replyEnds ==
  /\ stage # "idle" /\ stage' = "idle"
  /\ UNCHANGED <<request, started, held, spoken>> /\ streamStays

\* The provider answers with an error: before anything came of a request it
\* will not take, the last turns alone are asked with; else the reply fails.
recovering(retryable) ==
  /\ stage \in {"asked", "plain", "passed", "again"}
  /\ IF stage = "asked" /\ ~started /\ ~retryable
       THEN stage' = "plain" /\ request' = [request EXCEPT !.body = recent_turns(@)]
       ELSE stage' = "idle" /\ UNCHANGED request
  /\ UNCHANGED <<started, held, spoken>> /\ streamStays

RepliesNext ==
  \/ \E k \in Kinds \ {"output"} : added([kind |-> k, of |-> 0])
  \/ \E c \in 1 .. Len(items) : added([kind |-> "output", of |-> c])
  \/ llm_node
  \/ \E b \in BOOLEAN :
       _folded_into_summary(b) \/ decided(b) \/ unrepeated(b) \/ recovering(b)
  \/ chunk \/ passedOn \/ replyEnds

RepliesSpec == RepliesInit /\ [][RepliesNext]_repliesVars

(***************************************************************************)
(* Properties.                                                             *)
(***************************************************************************)

\* What is heard of a reply is one answer: no word of an answer that was
\* refused or repeats an earlier one is said before the other.
OneAnswerIsSaid == \A i, j \in 1 .. Len(spoken) : spoken[i] = spoken[j]

\* The model is never asked with a call whose output is missing or an output
\* whose call is, whatever was folded or left out between them.
PairsAreWhole ==
  \A i \in request.body :
    /\ kind(i) = "output" => items[i].of \in request.body
    /\ kind(i) = "call" =>
         \E o \in request.body : kind(o) = "output" /\ items[o].of = i

\* Minutes are made of each line once, and a line that is no longer asked
\* with word for word is in them.
MinutesAreWhole ==
  /\ folding \cap folded = {}
  /\ {i \in folded : kind(i) \in Messages \ {"blank", "cut"}} \subseteq summary

\* One answer is said of each reply, calls and outputs are asked with in pairs,
\* and each line is folded into the minutes once.
RepliesInv ==
  /\ OneAnswerIsSaid
  /\ PairsAreWhole
  /\ MinutesAreWhole
=============================================================================
