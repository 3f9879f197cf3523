------------------------------- MODULE MCAudio --------------------------------
EXTENDS AudioVoices

MCSlots == 0 .. 1
MCClipSlots == 0 .. 0
=============================================================================
