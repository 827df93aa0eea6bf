------------------------------- MODULE MCPlic -------------------------------
(* Small instances of Plic for TLC.                                          *)
EXTENDS Plic, TLC

\* Two contexts share the UART; the first serves the disk too.
BothSources == 1 :> 2 @@ UART_IRQ :> 1
SharedUart  == 0 :> {1, UART_IRQ} @@ 1 :> {UART_IRQ}

\* One context, both sources at the same priority.
EqualSources == 1 :> 1 @@ UART_IRQ :> 1
OneContext   == 0 :> {1, UART_IRQ}
=============================================================================
