------------------------------- MODULE MCTalk -------------------------------
(***************************************************************************)
(* What is decided while people talk to the agent, for model checking: a   *)
(* behaviour is one of a single part, the others stay as they began.  An   *)
(* idle part begins in one state, with nothing due that fairness asks for. *)
(***************************************************************************)
EXTENDS Gate, Called, Sieve, Ears, Fillers, Phones, TLC

CONSTANTS a, b
VARIABLE part

Parts == {"gate", "called", "sieve", "ears", "fillers", "phones"}

Line(words, chars, seconds) == [words |-> words, chars |-> chars, seconds |-> seconds]

MCPhrases == {<<"hm">>, <<"ach", "so">>}
MCTexts == {<<>>, <<"hm">>, <<"a">>, <<"ach">>, <<"ach", "so">>, <<"no">>}
MCStartOf == {<<"ach", "a">>}
MCSays == {<<"a", "b", "c">>}
MCHears == {Line(<<"a", "b">>, 2, 1), Line(<<"b", "c">>, 2, 1), Line(<<"no">>, 2, 1),
            Line(<<"a", "no">>, 2, 1), Line(<<"no", "no", "no">>, 3, 1),
            Line(<<"x">>, 90, 1), Line(<<"stop">>, 4, 1)}
MCStops == {<<"stop">>}
MCFillerPhrases == "hi" :> 2 @@ "en" :> 1 @@ "ta" :> 0

TalkInit ==
  /\ part \in Parts
  /\ GateInit /\ (part # "gate" => ~staysAwake /\ interruptible /\ present = {})
  /\ CalledInit /\ (part # "called" => here = {} /\ mayInterrupt)
  /\ SieveInit
  /\ EarsInit /\ (part # "ears" => ~cancelsEcho /\ ~hasVad)
  /\ FillersInit /\ (part # "fillers" => tongue = "ta" /\ ~heldFill)
  /\ IF part = "phones" THEN PhonesInit
     ELSE /\ inRoom = <<>> /\ pickedUp = {} /\ mayJoin = {}
          /\ agentIs = "listening" /\ linkedTo = NoLink
          /\ seen = {} /\ wait = [p \in Phone |-> "none"] /\ told = {} /\ greeted = 0

Others ==
  /\ IF part = "gate" THEN TRUE ELSE UNCHANGED gateVars
  /\ IF part = "called" THEN TRUE ELSE UNCHANGED calledVars
  /\ IF part = "sieve" THEN TRUE ELSE UNCHANGED sieveVars
  /\ IF part = "ears" THEN TRUE ELSE UNCHANGED earsVars
  /\ IF part = "fillers" THEN TRUE ELSE UNCHANGED fillersVars
  /\ IF part = "phones" THEN TRUE ELSE UNCHANGED phonesVars

TalkNext ==
  /\ UNCHANGED part
  /\ \/ part = "gate" /\ GateNext
     \/ part = "called" /\ CalledNext
     \/ part = "sieve" /\ SieveNext
     \/ part = "ears" /\ EarsNext
     \/ part = "fillers" /\ FillersNext
     \/ part = "phones" /\ PhonesNext
  /\ Others

TalkSpec ==
  /\ TalkInit
  /\ [][TalkNext]_<<part, gateVars, calledVars, sieveVars, earsVars, fillersVars, phonesVars>>
  /\ GateFairness /\ CalledFairness /\ PhonesFairness
=============================================================================
