------------------------- MODULE MCNativeScrollback -------------------------
(* Instances of NativeScrollback for TLC. *)
EXTENDS NativeScrollback

\* The upper rows of a screen, which still enter the scrollback.
MCRegions == {<<1, 1>>}

\* Bound: neither DECSC nor DECOM, which only move the cursor.
MCSpec == NativeInit /\ [][NativeNext /\ UNCHANGED <<origin_mode, saved_cursor_state>>]_nativeVars
=============================================================================
