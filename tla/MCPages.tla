------------------------------ MODULE MCPages ------------------------------
(***************************************************************************)
(* Pages on small inputs: a file written by hand with a key out of range,  *)
(* a proxy URL with whitespace at both ends and the other keys missing; a  *)
(* URL typed with a blank after its host; a flag, and a cache size left    *)
(* empty or zero.                                                          *)
(***************************************************************************)
EXTENDS Pages, TLC

Proxy == [scheme |-> "socks5", credentials |-> TRUE, host |-> "proxy.lan", port |-> NoPort,
          path |-> FALSE, before |-> FALSE, after |-> FALSE]

MCFiles ==
    {[font_size |-> 99, proxy_url |-> [Proxy EXCEPT !.before = TRUE, !.after = TRUE]]}

MCFieldEdits == {[field |-> "proxy_url", text |-> [Proxy EXCEPT !.after = TRUE]]}

MCSizeTexts == {NoText, 0}
=============================================================================
