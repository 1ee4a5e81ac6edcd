---------------------------- MODULE MCContainer ----------------------------
(***************************************************************************)
(* Small constants for Container: records of up to two bytes, two          *)
(* vocabularies, of which one is the default, two dictionaries, and sizes  *)
(* under which the candidates win in turn, some of them by their order.    *)
(***************************************************************************)
EXTENDS Container

MCTexts == {<<>>, <<0>>, <<1>>, <<0, 1>>, <<1, 1>>}
MCSize(m, t) == ((m * 5) + (3 * t[1]) + Len(t)) % 4
MCTokens(primed, t) == IF primed /\ t # <<>> THEN 1 ELSE IF t = <<0, 1>> THEN 4 ELSE Len(t)
MCOverflows(t) == t = <<0, 1>>
MCForcedModes == {NotForced, MODE_RAW_TOKENS, MODE_RAW_FALLBACK, MODE_RANS_DICT,
                  MODE_RANS_PPM, MODE_RANS_PPM_SPLIT}
=============================================================================
