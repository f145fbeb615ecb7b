------------------------------ MODULE MCBroker ------------------------------
(* A small instance of the MQTT broker for TLC. *)
EXTENDS MqttBroker

MCTopics == {<<"a", "b">>}
MCProbes == {<<"a">>, <<"a", "b">>, <<"b", "a", "b">>}
MCFilters == {<<"a", "#">>, <<"a", "+">>}
Perms == Permutations(Conns) \cup Permutations(Clients)
MCWillTopic == <<"a", "b">>

(* Filters as MQTT has them, `#` at the end only, on which the two ways to match are
   meant to agree, and topics, of up to three levels. *)
MCWords(S) == UNION {[1 .. n -> S] : n \in 1 .. 3}
MCPlain == {f \in MCWords({"a", "b", "+", "#"}) : Plain(f) /\ f \in WellFormed({"a", "b", "+", "#"})}

ASSUME MCMatchersAgree == MatchersAgree(MCPlain, MCWords({"a", "b"})) /\ MatchersAgree(Filters, Topics)
=============================================================================
