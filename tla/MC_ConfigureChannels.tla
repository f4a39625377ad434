------------------------- MODULE MC_ConfigureChannels -------------------------
(* Telegram and Slack behind it; the first revision of Telegram is right, its second one wrong. *)
EXTENDS ConfigureChannels

CONSTANTS telegram, slack

MCProviders == {telegram, slack}
MCPlace == [p \in {telegram, slack} |-> IF p = telegram THEN 1 ELSE 2]
MCLast  == [p \in {telegram, slack} |-> IF p = telegram THEN 2 ELSE 1]
MCBad   == {<<telegram, 2>>}
=============================================================================
