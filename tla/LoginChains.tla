----------------------------- MODULE LoginChains -----------------------------
(****************************************************************************)
(* What one-time codes and refresh sessions promise, without their          *)
(* transactions: a code opens at most one login; a login holds one valid    *)
(* token, which may be exchanged for one never used before; whatever ends a *)
(* login (logout, reuse, deactivation) ends it for good.                    *)
(****************************************************************************)
CONSTANTS
    Codes,   \* one-time codes
    Tokens   \* refresh tokens

VARIABLES
    code,    \* code[c]: "none", "open" or "closed"
    valid,   \* valid[c]: the tokens of c's login that can be exchanged
    spent    \* spent[c]: the ones that no longer can

vars == <<code, valid, spent>>

Init ==
    /\ code = [c \in Codes |-> "none"]
    /\ valid = [c \in Codes |-> {}]
    /\ spent = [c \in Codes |-> {}]

Fresh(t) == \A c \in Codes : t \notin valid[c] \cup spent[c]

\* A new code; older ones may close with it.
Issue ==
    /\ \E c \in Codes, old \in SUBSET Codes :
          /\ code[c] = "none"
          /\ \A d \in old : code[d] = "open"
          /\ code' = [d \in Codes |->
                IF d = c THEN "open" ELSE IF d \in old THEN "closed" ELSE code[d]]
    /\ UNCHANGED <<valid, spent>>

\* A code is used up without a login.
Close ==
    /\ \E c \in Codes : code[c] = "open" /\ code' = [code EXCEPT ![c] = "closed"]
    /\ UNCHANGED <<valid, spent>>

Login ==
    /\ \E c \in Codes, t \in Tokens :
          /\ code[c] = "open" /\ Fresh(t)
          /\ code' = [code EXCEPT ![c] = "closed"]
          /\ valid' = [valid EXCEPT ![c] = {t}]
    /\ UNCHANGED spent

Exchange ==
    /\ \E c \in Codes, s, t \in Tokens :
          /\ valid[c] = {s} /\ Fresh(t)
          /\ valid' = [valid EXCEPT ![c] = {t}]
          /\ spent' = [spent EXCEPT ![c] = @ \cup {s}]
    /\ UNCHANGED code

End ==
    /\ UNCHANGED code
    /\ \E ended \in SUBSET Codes :
          /\ valid' = [c \in Codes |-> IF c \in ended THEN {} ELSE valid[c]]
          /\ spent' = [c \in Codes |->
                IF c \in ended THEN spent[c] \cup valid[c] ELSE spent[c]]

Next == End \/ Issue \/ Close \/ Login \/ Exchange

Spec == Init /\ [][Next]_vars
=============================================================================
