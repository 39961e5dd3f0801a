--------------------------- MODULE MCApplication ---------------------------
(* Application with the registration of app.module.ts and those that differ *)
(* from it in one module, or in the two whose hooks meet at app.listen.     *)
EXTENDS Application

MCPrismaCodes == Mapped \cup {"P2023", "P2034"}

AppModule ==
    [sqs |-> "absent", sqsRepeats |-> FALSE, prisma |-> "forRoot", client |-> "absent",
     casl |-> "forRoot", feature |-> TRUE, s3 |-> FALSE, imports |-> {},
     explicitConnect |-> FALSE, s3Config |-> TRUE]

Small == [AppModule EXCEPT !.feature = FALSE, !.casl = "absent", !.explicitConnect = TRUE]

MCRegistered ==
    {AppModule, [AppModule EXCEPT !.casl = "forRootAsync"]}
    \cup {[Small EXCEPT !.sqs = way, !.imports = imports] :
            way \in {"plain", "useClass", "useExisting", "none"},
            imports \in SUBSET {"SqsModuleOptionsFactory"}}
    \cup {[Small EXCEPT !.sqs = sqs, !.prisma = way, !.imports = imports] :
            sqs \in {"absent", "register", "useFactory"},
            way \in {"plain", "forRoot", "useFactory", "useClass", "useExisting", "none"},
            imports \in SUBSET {"PrismaOptionsFactory"}}
    \cup {[Small EXCEPT !.sqs = way, !.sqsRepeats = TRUE] : way \in {"register", "useFactory"}}
    \cup {[Small EXCEPT !.client = way] : way \in {"forRoot", "useFactory", "useClass", "none"}}
    \cup {[Small EXCEPT !.s3 = TRUE, !.s3Config = loaded] : loaded \in BOOLEAN}
=============================================================================
