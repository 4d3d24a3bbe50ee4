----------------------------- MODULE MCCompositor -----------------------------
(* The constants of the desktop's runs.                                    *)
EXTENDS Compositor

MCStack == <<Monitor, Console, Files>>
MCStartX == [w \in Windows |-> (w + 1) % 3]
MCOne == {{Monitor}}
MCTwo == {{Monitor, Files}}
MCMouseCells == {<<"desk", 0>>, <<"foot", 2>>, <<"dock", 2>>}
=============================================================================
