----------------------------- MODULE MCSerialPort -----------------------------
(* Programs that vary two or three settings whose handling interferes.       *)
EXTENDS SerialPort

Program(p, v, l, u) == [platform |-> p, values |-> v, lines |-> l, unnoticed |-> u]
MCPrograms ==
  { Program("posix", [baudrate |-> {9600, 250000}, inter_byte_timeout |-> {None, "long"}], {}, {}),
    Program("posix", [exclusive |-> {None, TRUE, FALSE}, stopbits |-> {10, 15}], {}, {"stopbits"}),
    Program("posix", [rs485_mode |-> {None, "on"}, rtscts |-> BOOLEAN], {"rts"}, {"rtscts"}),
    Program("win32", [bytesize |-> {8, 5}, stopbits |-> {10, 15, 20}], {}, {}),
    Program("win32", [rtscts |-> BOOLEAN, rs485_mode |-> {None, "on", "delayed"}], {"rts"}, {}),
    Program("win32", [timeout |-> {None, 0}, inter_byte_timeout |-> {None, "short"},
                      exclusive |-> {FALSE}], {}, {}),
    Program("cli", [dsrdtr |-> {None, TRUE}, rtscts |-> BOOLEAN], {"dtr"}, {}),
    Program("java", [bytesize |-> {8, 5}, rtscts |-> BOOLEAN], {"break"}, {}) }
MCRefused == {<<5, 20>>, <<8, 15>>}
=============================================================================
