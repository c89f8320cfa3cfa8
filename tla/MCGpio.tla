------------------------------- MODULE MCGpio -------------------------------
EXTENDS Gpio
MCLinks == {<<1, 2, "BISTABLE_NO">>, <<1, 2, "MONOSTABLE_NO">>,
            <<3, 2, "BISTABLE_NC">>, <<3, 2, "MONOSTABLE_NC">>}
=============================================================================
