------------------------------ MODULE MCLcdBus ------------------------------
(* Every command byte that lcd.c sends a display of up to four rows of 20
   columns, and every byte of data: a program can die while the display holds
   any half byte. *)
EXTENDS LcdBus

(* LCD_CLEAR, LCD_HOME, LCD_ENTRY | LCD_ENTRY_ID, LCD_CTRL with its three
   bits, LCD_CDSHIFT | LCD_CDSHIFT_RL, LCD_FUNC | LCD_FUNC_N, LCD_CGRAM with
   an index, LCD_DGRAM with an address. *)
DriverCommands ==
    {1, 2, 6} \cup 8..15 \cup {20, 40}
    \cup {64 + 8 * i : i \in 0..7}
    \cup {128 + off + x : off \in {0, 64, 20, 84}, x \in 0..20}
AnyText == 0..255
=============================================================================
