------------------------- MODULE Application_proofs -------------------------
(***************************************************************************)
(* The start of the application, proved for every way of registering its   *)
(* modules and every order in which the injector gets to their providers.  *)
(* The inductive invariant says what each token holds once it is made, and *)
(* that a provider is made only when all it injects is provided.           *)
(***************************************************************************)
EXTENDS Application, HttpPipeline_proofs, FiniteSets, Integers, FiniteSetTheorems

LEMMA SqsProviders ==
    /\ SqsModule("plain") =
          {SqsService}
    /\ SqsModule("register") =
          Register
    /\ SqsModule("useFactory") =
          {Factory("SQS_OPTIONS", {"ConfigService"}), SqsService}
    /\ SqsModule("useClass") =
          {Provider("SQS_OPTIONS", {"SqsModuleOptionsFactory"}, "nothing", TRUE),
            Class("SqsModuleOptionsFactory"), SqsService}
    /\ SqsModule("useExisting") =
          {Provider("SQS_OPTIONS", {"SqsModuleOptionsFactory"}, "nothing", TRUE), SqsService}
    /\ SqsModule("none") =
          {Provider("SQS_OPTIONS", {Undefined}, "nothing", TRUE), SqsService}
<1>1. SqsModule("plain") = {SqsService}
  BY DEF SqsModule, Merged, SqsService, Register, RegisterAsync, SqsAsyncProviders,
     SqsOptionsProvider, SqsOptionsFactory, When, Async, Provider, Value, Class, Factory, Holder
<1>2. SqsModule("register") = Register
  <2>1. \E d \in Register : d.token = "SqsService"
    BY DEF Register, Provider
  <2>2. SqsService.token = "SqsService"
    BY DEF SqsService, Holder, Provider
  <2>3. {s \in {SqsService} : \A d \in Register : d.token # s.token} = {}
    BY <2>1, <2>2
  <2>4. When("register" = "register", Register)
           \cup When("register" \in Async, RegisterAsync("register")) = Register
    BY DEF When, Async
  <2>5. QED
    BY <2>3, <2>4 DEF SqsModule, Merged
<1>3. SqsModule("useFactory") = {Factory("SQS_OPTIONS", {"ConfigService"}), SqsService}
  BY DEF SqsModule, Merged, SqsService, Register, RegisterAsync, SqsAsyncProviders,
     SqsOptionsProvider, SqsOptionsFactory, When, Async, Provider, Value, Class, Factory, Holder
<1>4. SqsModule("useClass") = {Provider("SQS_OPTIONS", {"SqsModuleOptionsFactory"}, "nothing", TRUE),
            Class("SqsModuleOptionsFactory"), SqsService}
  BY DEF SqsModule, Merged, SqsService, Register, RegisterAsync, SqsAsyncProviders,
     SqsOptionsProvider, SqsOptionsFactory, When, Async, Provider, Value, Class, Factory, Holder
<1>5. SqsModule("useExisting") = {Provider("SQS_OPTIONS", {"SqsModuleOptionsFactory"}, "nothing", TRUE), SqsService}
  BY DEF SqsModule, Merged, SqsService, Register, RegisterAsync, SqsAsyncProviders,
     SqsOptionsProvider, SqsOptionsFactory, When, Async, Provider, Value, Class, Factory, Holder
<1>6. SqsModule("none") = {Provider("SQS_OPTIONS", {Undefined}, "nothing", TRUE), SqsService}
  BY DEF SqsModule, Merged, SqsService, Register, RegisterAsync, SqsAsyncProviders,
     SqsOptionsProvider, SqsOptionsFactory, When, Async, Provider, Value, Class, Factory, Holder
<1> QED BY <1>1, <1>2, <1>3, <1>4, <1>5, <1>6

LEMMA PrismaProviders ==
    /\ PrismaModule("plain") = {PrismaService}
    /\ PrismaModule("forRoot") = {Value("PRISMA_SERVICE_OPTIONS"), PrismaService}
    /\ PrismaModule("useFactory") =
          {Factory("PRISMA_SERVICE_OPTIONS", {"ConfigService"}), PrismaService}
    /\ PrismaModule("useClass") =
          {Factory("PRISMA_SERVICE_OPTIONS", {"PrismaOptionsFactory"}),
           Class("PrismaOptionsFactory"), PrismaService}
    /\ PrismaModule("useExisting") =
          {Factory("PRISMA_SERVICE_OPTIONS", {"PrismaOptionsFactory"}), PrismaService}
    /\ PrismaModule("none") = {Factory("PRISMA_SERVICE_OPTIONS", {Undefined}), PrismaService}
BY DEF PrismaModule, Merged, PrismaService, PrismaAsyncProviders, PrismaOptionsProvider,
   PrismaOptionsFactory, When, Async, Provider, Value, Class, Factory, Holder

LEMMA FeatureProviders ==
    CaslFeature = {AbilityFactory, Value("CASL_FEATURE_OPTIONS")}
BY DEF CaslFeature, Merged, AbilityFactory, Provider, Value, Holder

(* What a provider of each module is made from, and makes.                 *)
LEMMA SqsTable ==
    ASSUME NEW way \in {"plain", "register"} \cup Async, NEW p \in SqsModule(way)
    PROVE  \/ /\ p.token = "SqsService" /\ p.inject = {"SQS_OPTIONS"}
              /\ p.makes = IF way = "register" THEN "given" ELSE "SQS_OPTIONS"
           \/ /\ p.token = "SQS_OPTIONS" /\ way # "plain"
              /\ p.inject = CASE way = "register"                  -> {}
                              [] way = "useFactory"                -> {"ConfigService"}
                              [] way \in {"useClass", "useExisting"} ->
                                    {"SqsModuleOptionsFactory"}
                              [] way = "none"                      -> {Undefined}
              /\ p.makes = IF way \in {"register", "useFactory"} THEN "given" ELSE "nothing"
           \/ /\ p.token = "SqsModuleOptionsFactory" /\ way = "useClass"
              /\ p.inject = {} /\ p.makes = "given"
<1>1. CASE way = "plain"
  BY <1>1, SqsProviders DEF SqsService, Register, Provider, Value, Class, Factory, Holder
<1>2. CASE way = "register"
  BY <1>2, SqsProviders DEF SqsService, Register, Provider, Value, Class, Factory, Holder
<1>3. CASE way = "useFactory"
  BY <1>3, SqsProviders DEF SqsService, Register, Provider, Value, Class, Factory, Holder
<1>4. CASE way = "useClass"
  BY <1>4, SqsProviders DEF SqsService, Register, Provider, Value, Class, Factory, Holder
<1>5. CASE way = "useExisting"
  BY <1>5, SqsProviders DEF SqsService, Register, Provider, Value, Class, Factory, Holder
<1>6. CASE way = "none"
  BY <1>6, SqsProviders DEF SqsService, Register, Provider, Value, Class, Factory, Holder
<1>7. QED
  BY <1>1, <1>2, <1>3, <1>4, <1>5, <1>6 DEF Async

LEMMA PrismaTable ==
    ASSUME NEW way \in {"plain", "forRoot"} \cup Async, NEW p \in PrismaModule(way)
    PROVE  \/ /\ p.token = "PrismaService" /\ p.inject = {"PRISMA_SERVICE_OPTIONS"}
              /\ p.makes = "PRISMA_SERVICE_OPTIONS"
           \/ /\ p.token = "PRISMA_SERVICE_OPTIONS" /\ way # "plain"
              /\ p.inject = CASE way = "forRoot"                   -> {}
                              [] way = "useFactory"                -> {"ConfigService"}
                              [] way \in {"useClass", "useExisting"} -> {"PrismaOptionsFactory"}
                              [] way = "none"                      -> {Undefined}
              /\ p.makes = "given"
           \/ /\ p.token = "PrismaOptionsFactory" /\ way = "useClass"
              /\ p.inject = {} /\ p.makes = "given"
<1>1. CASE way = "plain"
  BY <1>1, PrismaProviders DEF PrismaService, Provider, Value, Class, Factory, Holder
<1>2. CASE way = "forRoot"
  BY <1>2, PrismaProviders DEF PrismaService, Provider, Value, Class, Factory, Holder
<1>3. CASE way = "useFactory"
  BY <1>3, PrismaProviders DEF PrismaService, Provider, Value, Class, Factory, Holder
<1>4. CASE way = "useClass"
  BY <1>4, PrismaProviders DEF PrismaService, Provider, Value, Class, Factory, Holder
<1>5. CASE way = "useExisting"
  BY <1>5, PrismaProviders DEF PrismaService, Provider, Value, Class, Factory, Holder
<1>6. CASE way = "none"
  BY <1>6, PrismaProviders DEF PrismaService, Provider, Value, Class, Factory, Holder
<1>7. QED
  BY <1>1, <1>2, <1>3, <1>4, <1>5, <1>6 DEF Async

LEMMA ClientTable ==
    ASSUME NEW way \in {"forRoot", "useFactory", "useClass", "none"},
           NEW p \in CustomPrismaModule(way)
    PROVE  \/ /\ p.token = "CustomPrismaService" /\ p.inject = {"CUSTOM_PRISMA_CLIENT"}
              /\ p.makes = "CUSTOM_PRISMA_CLIENT"
           \/ /\ p.token = "CUSTOM_PRISMA_CLIENT" /\ way # "none"
              /\ p.inject = CASE way = "forRoot"    -> {}
                              [] way = "useFactory" -> {"ConfigService"}
                              [] way = "useClass"   -> {"CustomPrismaClientFactory"}
              /\ p.makes = "given"
           \/ /\ p.token = "CustomPrismaClientFactory" /\ way = "useClass"
              /\ p.inject = {} /\ p.makes = "given"
BY DEF CustomPrismaModule, CustomClientProvider, CustomPrismaService, When,
   Provider, Value, Class, Factory, Holder

LEMMA FeatureTable ==
    ASSUME NEW p \in CaslFeature
    PROVE  \/ /\ p.token = "AbilityFactory" /\ p.inject = {"CASL_FEATURE_OPTIONS"}
              /\ p.makes = "CASL_FEATURE_OPTIONS"
           \/ p.token = "CASL_FEATURE_OPTIONS" /\ p.inject = {} /\ p.makes = "given"
BY FeatureProviders DEF AbilityFactory, Provider, Value, Holder

(* The provider of each token of an application, whatever else it has.     *)
LEMMA Table ==
    ASSUME NEW r \in Registrations, NEW p \in ProvidersOf(r)
    PROVE  \/ p.token = "ConfigService" /\ p.inject = {} /\ p.makes = "given"
           \/ p.token \in {"SqsModuleOptionsFactory", "PrismaOptionsFactory"}
              /\ p.inject = {} /\ p.makes = "given"
           \/ r.sqs # "absent" /\ p \in SqsModule(r.sqs)
           \/ p \in PrismaModule(r.prisma)
           \/ r.client # "absent" /\ p \in CustomPrismaModule(r.client)
           \/ /\ r.casl = "forRootAsync" /\ p.token = "CASL_ROOT_OPTIONS"
              /\ p.inject = {"ConfigService"} /\ p.makes = "given"
           \/ r.feature /\ p \in CaslFeature
           \/ /\ r.s3 /\ p.token = "S3Service"
              /\ p.inject = {"ConfigService"} /\ p.makes = "given"
<1>1. \/ p = Value("ConfigService")
      \/ \E t \in r.imports : p = Class(t)
      \/ r.sqs # "absent" /\ p \in SqsModule(r.sqs)
      \/ p \in PrismaModule(r.prisma)
      \/ r.client # "absent" /\ p \in CustomPrismaModule(r.client)
      \/ r.casl = "forRootAsync" /\ p \in CaslRootAsync
      \/ r.feature /\ p \in CaslFeature
      \/ r.s3 /\ p = S3Service
  BY DEF ProvidersOf, When
<1>2. r.imports \subseteq {"SqsModuleOptionsFactory", "PrismaOptionsFactory"}
  BY DEF Registrations
<1>3. QED
  BY <1>1, <1>2 DEF Value, Class, Provider, CaslRootAsync, Factory, S3Service

LEMMA Ways ==
    ASSUME NEW r \in Registrations
    PROVE  /\ r.sqs # "absent" => r.sqs \in {"plain", "register"} \cup Async
           /\ r.prisma \in {"plain", "forRoot"} \cup Async
           /\ r.client # "absent" => r.client \in {"forRoot", "useFactory", "useClass", "none"}
BY DEF Registrations

(* What a token holds once it is made.                                     *)
Expected(r, t) ==
    CASE t \in {"SQS_OPTIONS", "SqsService"} ->
            IF r.sqs \in {"register", "useFactory"} THEN "given" ELSE "nothing"
      [] t = "PrismaService" -> IF r.prisma = "plain" THEN "default" ELSE "given"
      [] t \notin {"SQS_OPTIONS", "SqsService", "PrismaService"} -> "given"

LEMMA TokenTable ==
    ASSUME NEW r \in Registrations, NEW p \in ProvidersOf(r)
    PROVE  /\ p.token \in Tokens
           /\ p.makes \in Tokens =>
                 /\ p.inject = {p.makes}
                 /\ p.makes \in Optional(p) => p.token = "PrismaService"
                 /\ p.token # "PrismaService" \/ r.prisma # "plain" =>
                       Expected(r, p.makes) = Expected(r, p.token)
           /\ p.makes \notin Tokens => p.makes = Expected(r, p.token)
<1> DEFINE Goal == /\ p.token \in Tokens
                   /\ p.makes \in Tokens =>
                         /\ p.inject = {p.makes}
                         /\ p.makes \in Optional(p) => p.token = "PrismaService"
                         /\ p.token # "PrismaService" \/ r.prisma # "plain" =>
                               Expected(r, p.makes) = Expected(r, p.token)
                   /\ p.makes \notin Tokens => p.makes = Expected(r, p.token)
<1>1. CASE r.sqs # "absent" /\ p \in SqsModule(r.sqs)
  BY <1>1, SqsTable, Ways DEF Tokens, Optional, Expected
<1>2. CASE p \in PrismaModule(r.prisma)
  BY <1>2, PrismaTable, Ways DEF Tokens, Optional, Expected
<1>3. CASE r.client # "absent" /\ p \in CustomPrismaModule(r.client)
  BY <1>3, ClientTable, Ways DEF Tokens, Optional, Expected
<1>4. CASE p \in CaslFeature
  BY <1>4, FeatureTable DEF Tokens, Optional, Expected
<1>5. CASE p.token \in {"ConfigService", "SqsModuleOptionsFactory", "PrismaOptionsFactory",
                       "CASL_ROOT_OPTIONS", "S3Service"} /\ p.makes = "given"
  BY <1>5 DEF Tokens, Optional, Expected
<1>6. QED
  BY <1>1, <1>2, <1>3, <1>4, <1>5, Table

LEMMA TokenOf ==
    ASSUME NEW t, NEW inject
    PROVE  /\ Value(t).token = t /\ Class(t).token = t /\ Factory(t, inject).token = t
           /\ Holder(t, inject).token = t
BY DEF Value, Class, Factory, Holder, Provider

(* Every module provides its service, and its options when it is given any *)
(* way to make them.                                                       *)
LEMMA SqsMembers ==
    ASSUME NEW way \in {"plain", "register"} \cup Async
    PROVE  /\ \E p \in SqsModule(way) : p.token = "SqsService"
           /\ way # "plain" => \E p \in SqsModule(way) : p.token = "SQS_OPTIONS"
<1>1. SqsService.token = "SqsService"
  BY TokenOf DEF SqsService
<1>2. CASE way = "plain"
  BY <1>1, <1>2, SqsProviders
<1>3. CASE way = "register"
  <2>1. /\ Value("SQS_OPTIONS") \in SqsModule(way)
        /\ Provider("SqsService", {"SQS_OPTIONS"}, "given", FALSE) \in SqsModule(way)
    BY <1>3, SqsProviders DEF Register
  <2>2. /\ Value("SQS_OPTIONS").token = "SQS_OPTIONS"
        /\ Provider("SqsService", {"SQS_OPTIONS"}, "given", FALSE).token = "SqsService"
    BY DEF Value, Provider
  <2>3. QED
    BY <2>1, <2>2
<1>4. CASE way \in Async
  <2>1. SqsService \in SqsModule(way)
    BY <1>4, SqsProviders DEF Async
  <2>2. \/ Factory("SQS_OPTIONS", {"ConfigService"}) \in SqsModule(way)
        \/ Provider("SQS_OPTIONS", {"SqsModuleOptionsFactory"}, "nothing", TRUE)
              \in SqsModule(way)
        \/ Provider("SQS_OPTIONS", {Undefined}, "nothing", TRUE) \in SqsModule(way)
    BY <1>4, SqsProviders DEF Async
  <2>3. /\ Factory("SQS_OPTIONS", {"ConfigService"}).token = "SQS_OPTIONS"
        /\ \A inject : Provider("SQS_OPTIONS", inject, "nothing", TRUE).token = "SQS_OPTIONS"
    BY DEF Factory, Provider
  <2>4. QED
    BY <1>1, <2>1, <2>2, <2>3
<1>5. QED
  BY <1>2, <1>3, <1>4

LEMMA PrismaMembers ==
    ASSUME NEW way \in {"plain", "forRoot"} \cup Async
    PROVE  /\ \E p \in PrismaModule(way) : p.token = "PrismaService"
           /\ way # "plain" => \E p \in PrismaModule(way) : p.token = "PRISMA_SERVICE_OPTIONS"
           /\ way = "useClass" => \E p \in PrismaModule(way) : p.token = "PrismaOptionsFactory"
<1>1. PrismaService.token = "PrismaService"
  BY DEF PrismaService, Provider
<1>2. PrismaService \in PrismaModule(way)
  BY PrismaProviders DEF Async
<1>3. way # "plain" => \E p \in PrismaModule(way) : p.token = "PRISMA_SERVICE_OPTIONS"
  BY PrismaProviders, TokenOf DEF Async
<1>4. way = "useClass" => \E p \in PrismaModule(way) : p.token = "PrismaOptionsFactory"
  BY PrismaProviders, TokenOf
<1>5. QED
  BY <1>1, <1>2, <1>3, <1>4

LEMMA ClientMembers ==
    ASSUME NEW way \in {"forRoot", "useFactory", "useClass", "none"}
    PROVE  /\ \E p \in CustomPrismaModule(way) : p.token = "CustomPrismaService"
           /\ way # "none" =>
                 \E p \in CustomPrismaModule(way) : p.token = "CUSTOM_PRISMA_CLIENT"
           /\ way = "useClass" =>
                 \E p \in CustomPrismaModule(way) : p.token = "CustomPrismaClientFactory"
<1>1. CustomPrismaService \in CustomPrismaModule(way)
  BY DEF CustomPrismaModule
<1>2. CustomPrismaService.token = "CustomPrismaService"
  BY TokenOf DEF CustomPrismaService
<1>3. way = "forRoot" => Value("CUSTOM_PRISMA_CLIENT") \in CustomPrismaModule(way)
  BY DEF CustomPrismaModule, CustomClientProvider, When
<1>4. way = "useFactory" =>
         Factory("CUSTOM_PRISMA_CLIENT", {"ConfigService"}) \in CustomPrismaModule(way)
  BY DEF CustomPrismaModule, CustomClientProvider, When
<1>5. way = "useClass" =>
         /\ Class("CustomPrismaClientFactory") \in CustomPrismaModule(way)
         /\ Factory("CUSTOM_PRISMA_CLIENT", {"CustomPrismaClientFactory"})
               \in CustomPrismaModule(way)
  BY DEF CustomPrismaModule, CustomClientProvider, When
<1>6. QED
  BY <1>1, <1>2, <1>3, <1>4, <1>5, TokenOf

(* What an application provides.                                           *)
LEMMA Providing ==
    ASSUME NEW r \in Registrations
    PROVE  /\ "ConfigService" \in Provided(r) /\ "PrismaService" \in Provided(r)
           /\ "SqsService" \in Provided(r) <=> r.sqs # "absent"
           /\ r.sqs \notin {"absent", "plain"} => "SQS_OPTIONS" \in Provided(r)
           /\ r.client # "absent" => "CustomPrismaService" \in Provided(r)
           /\ r.client \notin {"absent", "none"} => "CUSTOM_PRISMA_CLIENT" \in Provided(r)
           /\ r.client = "useClass" => "CustomPrismaClientFactory" \in Provided(r)
           /\ r.prisma # "plain" => "PRISMA_SERVICE_OPTIONS" \in Provided(r)
           /\ r.prisma = "useClass" \/ "PrismaOptionsFactory" \in r.imports =>
                 "PrismaOptionsFactory" \in Provided(r)
           /\ r.feature => {"AbilityFactory", "CASL_FEATURE_OPTIONS"} \subseteq Provided(r)
           /\ r.casl = "forRootAsync" => "CASL_ROOT_OPTIONS" \in Provided(r)
           /\ r.s3 => "S3Service" \in Provided(r)
<1>1. \A p \in ProvidersOf(r) : p.token \in Provided(r)
  BY DEF Provided
<1>2. /\ Value("ConfigService") \in ProvidersOf(r)
      /\ \A t \in r.imports : Class(t) \in ProvidersOf(r)
      /\ r.sqs # "absent" => SqsModule(r.sqs) \subseteq ProvidersOf(r)
      /\ PrismaModule(r.prisma) \subseteq ProvidersOf(r)
      /\ r.client # "absent" => CustomPrismaModule(r.client) \subseteq ProvidersOf(r)
      /\ r.casl = "forRootAsync" =>
            Factory("CASL_ROOT_OPTIONS", {"ConfigService"}) \in ProvidersOf(r)
      /\ r.feature => CaslFeature \subseteq ProvidersOf(r)
      /\ r.s3 => S3Service \in ProvidersOf(r)
  BY DEF ProvidersOf, When, CaslRootAsync
<1>3. "ConfigService" \in Provided(r)
  BY <1>1, <1>2, TokenOf
<1>4. r.sqs # "absent" => "SqsService" \in Provided(r)
  BY <1>1, <1>2, Ways, SqsMembers
<1>5. r.sqs \notin {"absent", "plain"} => "SQS_OPTIONS" \in Provided(r)
  BY <1>1, <1>2, Ways, SqsMembers
<1>6. "SqsService" \in Provided(r) => r.sqs # "absent"
  <2> SUFFICES ASSUME NEW p \in ProvidersOf(r), p.token = "SqsService" PROVE r.sqs # "absent"
    BY DEF Provided
  <2>1. \/ r.sqs # "absent"
        \/ p \in PrismaModule(r.prisma)
        \/ r.client # "absent" /\ p \in CustomPrismaModule(r.client)
        \/ p \in CaslFeature
    BY Table
  <2>2. QED
    BY <2>1, Ways, PrismaTable, ClientTable, FeatureTable
<1>7. /\ "PrismaService" \in Provided(r)
      /\ r.prisma # "plain" => "PRISMA_SERVICE_OPTIONS" \in Provided(r)
      /\ r.prisma = "useClass" => "PrismaOptionsFactory" \in Provided(r)
  BY <1>1, <1>2, Ways, PrismaMembers
<1>8. "PrismaOptionsFactory" \in r.imports => "PrismaOptionsFactory" \in Provided(r)
  BY <1>1, <1>2, TokenOf
<1>9. /\ r.client # "absent" => "CustomPrismaService" \in Provided(r)
      /\ r.client \notin {"absent", "none"} => "CUSTOM_PRISMA_CLIENT" \in Provided(r)
      /\ r.client = "useClass" => "CustomPrismaClientFactory" \in Provided(r)
  BY <1>1, <1>2, Ways, ClientMembers
<1>10. r.feature => {"AbilityFactory", "CASL_FEATURE_OPTIONS"} \subseteq Provided(r)
  <2>1. /\ AbilityFactory \in CaslFeature /\ AbilityFactory.token = "AbilityFactory"
        /\ Value("CASL_FEATURE_OPTIONS") \in CaslFeature
        /\ Value("CASL_FEATURE_OPTIONS").token = "CASL_FEATURE_OPTIONS"
    BY FeatureProviders DEF AbilityFactory, Holder, Value, Provider
  <2>2. QED
    BY <1>1, <1>2, <2>1
<1>11. r.casl = "forRootAsync" => "CASL_ROOT_OPTIONS" \in Provided(r)
  BY <1>1, <1>2, TokenOf
<1>12. r.s3 => "S3Service" \in Provided(r)
  BY <1>1, <1>2 DEF S3Service, Provider
<1>13. QED
  BY <1>3, <1>4, <1>5, <1>6, <1>7, <1>8, <1>9, <1>10, <1>11, <1>12

(* What it does not provide, when the author left it out.                  *)
LEMMA NotProviding ==
    ASSUME NEW r \in Registrations
    PROVE  /\ Undefined \notin Provided(r)
           /\ r.sqs = "plain" => "SQS_OPTIONS" \notin Provided(r)
           /\ r.client = "none" => "CUSTOM_PRISMA_CLIENT" \notin Provided(r)
           /\ r.prisma = "plain" => "PRISMA_SERVICE_OPTIONS" \notin Provided(r)
           /\ r.prisma = "useExisting" /\ "PrismaOptionsFactory" \notin r.imports =>
                 "PrismaOptionsFactory" \notin Provided(r)
<1> SUFFICES ASSUME NEW p \in ProvidersOf(r)
             PROVE  /\ p.token # Undefined
                    /\ r.sqs = "plain" => p.token # "SQS_OPTIONS"
                    /\ r.client = "none" => p.token # "CUSTOM_PRISMA_CLIENT"
                    /\ r.prisma = "plain" => p.token # "PRISMA_SERVICE_OPTIONS"
                    /\ r.prisma = "useExisting" /\ "PrismaOptionsFactory" \notin r.imports =>
                          p.token # "PrismaOptionsFactory"
  BY DEF Provided
<1> USE DEF Undefined
<1>1. CASE r.sqs # "absent" /\ p \in SqsModule(r.sqs)
  BY <1>1, SqsTable, Ways
<1>2. CASE p \in PrismaModule(r.prisma)
  BY <1>2, PrismaTable, Ways
<1>3. CASE r.client # "absent" /\ p \in CustomPrismaModule(r.client)
  BY <1>3, ClientTable, Ways
<1>4. CASE p \in CaslFeature
  BY <1>4, FeatureTable
<1>5. CASE \E t \in r.imports : p = Class(t)
  BY <1>5, TokenOf DEF Registrations
<1>6. CASE p = Value("ConfigService") \/ p \in CaslRootAsync \/ p = S3Service
  BY <1>6 DEF Value, CaslRootAsync, Factory, S3Service, Provider
<1>7. QED
  BY <1>1, <1>2, <1>3, <1>4, <1>5, <1>6 DEF ProvidersOf, When

(* A registration that works leaves nothing unprovided.                    *)
LEMMA BootableResolves ==
    ASSUME NEW r \in Registrations, Bootable(r), NEW p \in ProvidersOf(r)
    PROVE  Missing(r, p) = {}
<1>1. CASE r.sqs # "absent" /\ p \in SqsModule(r.sqs)
  BY <1>1, SqsTable, Ways, Providing DEF Missing, Bootable
<1>2. CASE p \in PrismaModule(r.prisma)
  <2>1. r.prisma # "none"
    BY DEF Bootable
  <2>2. CASE p.token = "PrismaService"
    BY <1>2, <2>2, PrismaTable, Ways DEF Missing, Optional
  <2>3. CASE p.token # "PrismaService"
    <3>1. \/ p.inject = {}
          \/ p.inject = {"ConfigService"}
          \/ p.inject = {"PrismaOptionsFactory"} /\ r.prisma \in {"useClass", "useExisting"}
      BY <1>2, <2>1, <2>3, PrismaTable, Ways DEF Async
    <3>2. QED
      BY <3>1, Providing DEF Missing, Bootable
  <2>4. QED
    BY <2>2, <2>3
<1>3. CASE r.client # "absent" /\ p \in CustomPrismaModule(r.client)
  BY <1>3, ClientTable, Ways, Providing DEF Missing, Bootable
<1>4. CASE r.feature /\ p \in CaslFeature
  BY <1>4, FeatureTable, Providing DEF Missing
<1>5. CASE p.inject \subseteq {"ConfigService"}
  BY <1>5, Providing DEF Missing
<1>6. QED
  BY <1>1, <1>2, <1>3, <1>4, <1>5, Table

(* A registration without a missing provider works, if S3Service has its   *)
(* configuration and SqsService would hold options without repetition.     *)
LEMMA ResolvedIsBootable ==
    ASSUME NEW r \in Registrations,
           \A p \in ProvidersOf(r) : Missing(r, p) = {},
           r.s3 => r.s3Config,
           r.sqs # "absent" => Expected(r, "SqsService") = "given" /\ ~r.sqsRepeats
    PROVE  Bootable(r)
<1>1. r.sqs \in {"absent", "register", "useFactory"}
  BY DEF Expected
<1>2. r.client # "none"
  <2> SUFFICES ASSUME r.client = "none" PROVE FALSE
    OBVIOUS
  <2>1. PICK p \in CustomPrismaModule("none") : p.token = "CustomPrismaService"
    BY ClientMembers
  <2>2. p \in ProvidersOf(r)
    BY <2>1 DEF ProvidersOf, When
  <2>3. p.inject = {"CUSTOM_PRISMA_CLIENT"}
    BY <2>1, ClientTable
  <2>4. "CUSTOM_PRISMA_CLIENT" \in Missing(r, p)
    BY <2>1, <2>3, NotProviding DEF Missing, Optional
  <2>5. QED
    BY <2>2, <2>4
<1>3. \/ r.prisma \in {"plain", "forRoot", "useFactory", "useClass"}
      \/ r.prisma = "useExisting" /\ "PrismaOptionsFactory" \in r.imports
  <2> SUFFICES ASSUME \/ r.prisma = "none"
                      \/ r.prisma = "useExisting" /\ "PrismaOptionsFactory" \notin r.imports
               PROVE  FALSE
    BY Ways DEF Async
  <2>1. PICK p \in PrismaModule(r.prisma) : p.token = "PRISMA_SERVICE_OPTIONS"
    BY Ways, PrismaMembers
  <2>2. p \in ProvidersOf(r)
    BY <2>1 DEF ProvidersOf
  <2>3. p.inject = {IF r.prisma = "none" THEN Undefined ELSE "PrismaOptionsFactory"}
    BY <2>1, PrismaTable, Ways
  <2>4. Missing(r, p) # {}
    BY <2>1, <2>3, NotProviding DEF Missing, Optional
  <2>5. QED
    BY <2>2, <2>4
<1>4. QED
  BY <1>1, <1>2, <1>3 DEF Bootable

-----------------------------------------------------------------------------
(* The inductive invariant.  Holding: a token that is made holds what is   *)
(* expected, and nothing its provider injects is missing.  Going: past     *)
(* NestFactory.create every token is made, and past app.listen every hook  *)
(* is done.                                                                *)
IsMade(t) == instance[t] # "pending"

Holding ==
    /\ \A t \in Tokens : IsMade(t) => instance[t] = Expected(registration, t)
    /\ \A p \in ProvidersOf(registration) :
          IsMade(p.token) => Missing(registration, p) = {}
    /\ registration.casl = "forRoot" \/ IsMade("CASL_ROOT_OPTIONS") => rootOptions = "given"
    /\ IsMade("S3Service") => registration.s3Config
    /\ installed = IF instance["PrismaService"] = "given" THEN Middlewares ELSE <<>>

Going ==
    /\ initialized \subseteq Hooked
    /\ phase = "create" => initialized = {} /\ ~polling /\ ~connected
    /\ phase = "failed" =>
          ~polling /\ ~connected /\ (rejected \/ ~Bootable(registration))
    /\ phase \in {"init", "listening", "closed"} =>
          /\ \A t \in Provided(registration) : IsMade(t)
          /\ "SqsService" \in initialized =>
                instance["SqsService"] = "given" /\ ~registration.sqsRepeats
          /\ "PrismaService" \in initialized /\ ExplicitConnect => connected
    /\ Started => Hooked \subseteq initialized

BootInv == BootTypeOK /\ Holding /\ Going

LEMMA BootInitInv == BootInit => BootInv
<1> SUFFICES ASSUME BootInit PROVE BootInv
  OBVIOUS
<1>1. BootTypeOK
  BY DEF BootInit, BootTypeOK, Phases, Holds
<1>2. \A t \in Tokens : ~IsMade(t)
  BY DEF BootInit, IsMade
<1>3. Holding
  <2>1. {"CASL_ROOT_OPTIONS", "S3Service", "PrismaService"} \subseteq Tokens
    BY DEF Tokens
  <2>2. \A p \in ProvidersOf(registration) : p.token \in Tokens
    BY <1>1, TokenTable DEF BootTypeOK
  <2>3. QED
    BY <1>2, <2>1, <2>2 DEF BootInit, Holding, IsMade
<1>4. Going
  BY DEF BootInit, Going, Started
<1>5. QED
  BY <1>1, <1>3, <1>4 DEF BootInv

(* Two providers of one token inject the same.                             *)
Injects(r, t) ==
    CASE t = "SqsService"             -> {"SQS_OPTIONS"}
      [] t = "PrismaService"          -> {"PRISMA_SERVICE_OPTIONS"}
      [] t = "CustomPrismaService"    -> {"CUSTOM_PRISMA_CLIENT"}
      [] t = "AbilityFactory"         -> {"CASL_FEATURE_OPTIONS"}
      [] t = "SQS_OPTIONS"            ->
            (CASE r.sqs = "register"                      -> {}
               [] r.sqs = "useFactory"                    -> {"ConfigService"}
               [] r.sqs \in {"useClass", "useExisting"}   -> {"SqsModuleOptionsFactory"}
               [] r.sqs = "none"                          -> {Undefined})
      [] t = "PRISMA_SERVICE_OPTIONS" ->
            (CASE r.prisma = "forRoot"                    -> {}
               [] r.prisma = "useFactory"                 -> {"ConfigService"}
               [] r.prisma \in {"useClass", "useExisting"} -> {"PrismaOptionsFactory"}
               [] r.prisma = "none"                       -> {Undefined})
      [] t = "CUSTOM_PRISMA_CLIENT"   ->
            (CASE r.client = "forRoot"    -> {}
               [] r.client = "useFactory" -> {"ConfigService"}
               [] r.client = "useClass"   -> {"CustomPrismaClientFactory"})
      [] t \in {"CASL_ROOT_OPTIONS", "S3Service"} -> {"ConfigService"}
      [] t \in {"ConfigService", "CASL_FEATURE_OPTIONS", "SqsModuleOptionsFactory",
                "PrismaOptionsFactory", "CustomPrismaClientFactory"} -> {}

LEMMA OneProvider ==
    ASSUME NEW r \in Registrations, NEW p \in ProvidersOf(r)
    PROVE  p.inject = Injects(r, p.token)
<1>1. CASE r.sqs # "absent" /\ p \in SqsModule(r.sqs)
  BY <1>1, SqsTable, Ways DEF Injects, Async
<1>2. CASE p \in PrismaModule(r.prisma)
  BY <1>2, PrismaTable, Ways DEF Injects, Async
<1>3. CASE r.client # "absent" /\ p \in CustomPrismaModule(r.client)
  BY <1>3, ClientTable, Ways DEF Injects
<1>4. CASE p \in CaslFeature
  BY <1>4, FeatureTable DEF Injects
<1>5. CASE \/ p.token = "ConfigService" /\ p.inject = {}
           \/ p.token \in {"SqsModuleOptionsFactory", "PrismaOptionsFactory"} /\ p.inject = {}
           \/ p.token \in {"CASL_ROOT_OPTIONS", "S3Service"} /\ p.inject = {"ConfigService"}
  BY <1>5 DEF Injects
<1>6. QED
  BY <1>1, <1>2, <1>3, <1>4, <1>5, Table

(* What is made of what is expected is expected.                           *)
LEMMA MadeExpected ==
    ASSUME BootInv, NEW p \in ProvidersOf(registration), Ready(p)
    PROVE  Made(p) = Expected(registration, p.token)
<1> DEFINE r == registration
<1>1. r \in Registrations
  BY DEF BootInv, BootTypeOK
<1>2. CASE p.makes \notin Tokens
  BY <1>1, <1>2, TokenTable DEF Made
<1>3. CASE p.makes \in Tokens /\ p.makes \in Provided(r)
  <2>1. p.inject = {p.makes}
    BY <1>1, <1>3, TokenTable
  <2>2. Made(p) = Expected(r, p.makes)
    BY <1>3, <2>1 DEF Made, Ready, BootInv, Holding, IsMade
  <2>3. p.token = "PrismaService" => r.prisma # "plain"
    <3> SUFFICES ASSUME p.token = "PrismaService", r.prisma = "plain" PROVE FALSE
      OBVIOUS
    <3>1. p.inject = {"PRISMA_SERVICE_OPTIONS"}
      BY <1>1, OneProvider DEF Injects
    <3>2. QED
      BY <1>1, <1>3, <2>1, <3>1, NotProviding
  <2>4. QED
    BY <1>1, <1>3, <2>2, <2>3, TokenTable
<1>4. CASE p.makes \in Tokens /\ p.makes \notin Provided(r)
  <2>1. p.inject = {p.makes} /\ p.makes \in Optional(p)
    BY <1>1, <1>4, TokenTable DEF Ready
  <2>2. p.token = "PrismaService" /\ p.makes = "PRISMA_SERVICE_OPTIONS"
    BY <1>1, <1>4, <2>1, TokenTable DEF Optional
  <2>3. r.prisma = "plain"
    BY <1>1, <1>4, <2>2, Providing
  <2>4. QED
    BY <1>4, <2>2, <2>3 DEF Made, Expected
<1>5. QED
  BY <1>2, <1>3, <1>4

LEMMA ResolveInv ==
    ASSUME BootInv, NEW p \in ProvidersOf(registration), Resolve(p)
    PROVE  BootInv'
<1> DEFINE r == registration
<1>1. r \in Registrations /\ r' = r /\ phase = "create" /\ phase' = "create"
  BY DEF BootInv, BootTypeOK, Resolve, Ready
<1>2. p.token \in Tokens /\ Ready(p)
  BY <1>1, TokenTable DEF Resolve
<1>3. Made(p) = Expected(r, p.token) /\ Made(p) \in {"given", "nothing", "default"}
  <2>1. Made(p) = Expected(r, p.token)
    BY <1>2, MadeExpected
  <2>2. Expected(r, p.token) \in {"given", "nothing", "default"}
    BY DEF Expected
  <2>3. QED
    BY <2>1, <2>2
<1>4. /\ instance[p.token] = "pending"
      /\ instance' = [instance EXCEPT ![p.token] = Expected(r, p.token)]
      /\ instance \in [Tokens -> Holds]
  BY <1>2, <1>3 DEF Resolve, Ready, BootInv, BootTypeOK
<1>5. BootTypeOK'
  <2>1. instance' \in [Tokens -> Holds]
    BY <1>2, <1>3, <1>4 DEF Holds
  <2>2. QED
    BY <2>1 DEF BootInv, BootTypeOK, Resolve
<1>6. Holding'
  <2>1. \A t \in Tokens : IsMade(t)' => instance'[t] = Expected(r, t)
    BY <1>2, <1>4 DEF BootInv, Holding, IsMade
  <2>2. ASSUME NEW q \in ProvidersOf(r), IsMade(q.token)' PROVE Missing(r, q) = {}
    <3>1. q.token \in Tokens
      BY <1>1, TokenTable
    <3>2. CASE q.token # p.token
      BY <1>2, <1>4, <2>2, <3>1, <3>2 DEF BootInv, Holding, IsMade
    <3>3. CASE q.token = p.token
      <4>1. q.inject = p.inject
        BY <1>1, <3>3, OneProvider
      <4>2. Optional(q) = Optional(p)
        BY <3>3 DEF Optional
      <4>3. QED
        BY <1>2, <4>1, <4>2 DEF Ready, Missing
    <3>4. QED
      BY <3>2, <3>3
  <2>3. (r.casl = "forRoot" \/ IsMade("CASL_ROOT_OPTIONS")') => rootOptions' = "given"
    <3>1. "CASL_ROOT_OPTIONS" \in Tokens
      BY DEF Tokens
    <3>2. QED
      BY <1>2, <1>4, <3>1 DEF BootInv, Holding, IsMade, Resolve, BootTypeOK
  <2>4. IsMade("S3Service")' => r.s3Config
    <3>1. "S3Service" \in Tokens
      BY DEF Tokens
    <3>2. QED
      BY <1>2, <1>4, <3>1 DEF BootInv, Holding, IsMade, Resolve
  <2>5. installed' = IF instance'["PrismaService"] = "given" THEN Middlewares ELSE <<>>
    <3>1. "PrismaService" \in Tokens
      BY DEF Tokens
    <3>2. CASE p.token = "PrismaService"
      BY <1>2, <1>3, <1>4, <3>1, <3>2 DEF BootInv, Holding, Resolve
    <3>3. CASE p.token # "PrismaService"
      <4>1. instance'["PrismaService"] = instance["PrismaService"]
        BY <1>2, <1>4, <3>1, <3>3
      <4>2. installed' = installed
        BY <3>3 DEF Resolve
      <4>3. QED
        BY <4>1, <4>2 DEF BootInv, Holding
    <3>4. QED
      BY <3>2, <3>3
  <2>6. QED
    BY <1>1, <2>1, <2>2, <2>3, <2>4, <2>5 DEF Holding
<1>7. Going'
  BY <1>1 DEF BootInv, Going, Resolve, Hooked, Started
<1>8. QED
  BY <1>5, <1>6, <1>7 DEF BootInv

(* Whatever ends the process keeps what is made, and has its reason.       *)
LEMMA FailInv ==
    ASSUME BootInv, Fail, rejected' \in BOOLEAN, rejected' \/ ~Bootable(registration)
    PROVE  BootInv'
<1>1. BootTypeOK'
  BY DEF BootInv, BootTypeOK, Fail, Phases
<1>2. Holding'
  BY DEF BootInv, Holding, IsMade, Fail
<1>3. Going'
  BY DEF BootInv, Going, Fail, Hooked, Started
<1>4. QED
  BY <1>1, <1>2, <1>3 DEF BootInv

(* What bootstrap and the hooks do leaves the injector's work alone.       *)
LEMMA KeepsHolding ==
    ASSUME BootInv, UNCHANGED <<registration, instance, rootOptions, installed>>
    PROVE  Holding'
BY DEF BootInv, Holding, IsMade

LEMMA BootStep == BootInv /\ BootNext => BootInv'
<1> SUFFICES ASSUME BootInv, BootNext PROVE BootInv'
  OBVIOUS
<1> DEFINE r == registration
<1>0. r \in Registrations /\ rejected \in BOOLEAN
  BY DEF BootInv, BootTypeOK
<1>1. CASE \E p \in ProvidersOf(registration) : Resolve(p)
  BY <1>1, ResolveInv
<1>2. CASE CannotResolve
  <2>1. ~Bootable(r)
    BY <1>0, <1>2, BootableResolves DEF CannotResolve
  <2>2. QED
    BY <1>0, <1>2, <2>1, FailInv DEF CannotResolve
<1>3. CASE S3Throws
  <2>1. r.s3
    <3>1. PICK p \in ProvidersOf(r) : p.token = "S3Service"
      BY <1>3 DEF S3Throws
    <3>2. QED
      BY <1>0, <3>1, Table, Ways, SqsTable, PrismaTable, ClientTable, FeatureTable
  <2>2. ~Bootable(r)
    BY <1>3, <2>1 DEF S3Throws, Bootable
  <2>3. QED
    BY <1>0, <1>3, <2>2, FailInv DEF S3Throws
<1>4. CASE Configure
  <2>1. BootTypeOK'
    BY <1>4 DEF BootInv, BootTypeOK, Configure, Phases
  <2>2. Holding'
    BY <1>4, KeepsHolding DEF Configure
  <2>3. Going'
    BY <1>4 DEF BootInv, Going, Configure, Created, Hooked, Started, IsMade
  <2>4. QED
    BY <2>1, <2>2, <2>3 DEF BootInv
<1>5. CASE PrismaOnModuleInit
  <2>1. BootTypeOK'
    BY <1>5 DEF BootInv, BootTypeOK, PrismaOnModuleInit, ExplicitConnect, Registrations
  <2>2. Holding'
    BY <1>5, KeepsHolding DEF PrismaOnModuleInit
  <2>3. Going'
    BY <1>5 DEF BootInv, Going, PrismaOnModuleInit, ToInit, Hooked, Started, IsMade,
       ExplicitConnect
  <2>4. QED
    BY <2>1, <2>2, <2>3 DEF BootInv
<1>6. CASE SqsOnModuleInit
  <2>1. BootTypeOK'
    BY <1>6 DEF BootInv, BootTypeOK, SqsOnModuleInit
  <2>2. Holding'
    BY <1>6, KeepsHolding DEF SqsOnModuleInit
  <2>3. Going'
    BY <1>6 DEF BootInv, Going, SqsOnModuleInit, ToInit, Hooked, Started, IsMade,
       ExplicitConnect
  <2>4. QED
    BY <2>1, <2>2, <2>3 DEF BootInv
<1>7. CASE SqsInitThrows
  <2>1. "SqsService" \in Provided(r) /\ phase = "init" /\ "SqsService" \in Tokens
    BY <1>7 DEF SqsInitThrows, ToInit, Hooked, Tokens
  <2>2. instance["SqsService"] = Expected(r, "SqsService")
    BY <2>1 DEF BootInv, Going, Holding
  <2>3. r.sqs # "absent"
    BY <1>0, <2>1, Providing
  <2>4. ~Bootable(r)
    <3>1. CASE r.sqsRepeats
      BY <2>3, <3>1 DEF Bootable
    <3>2. CASE ~r.sqsRepeats
      <4>1. r.sqs \notin {"register", "useFactory"}
        BY <1>7, <2>2, <3>2 DEF SqsInitThrows, Expected
      <4>2. QED
        BY <2>3, <4>1 DEF Bootable
    <3>3. QED
      BY <3>1, <3>2
  <2>5. QED
    BY <1>0, <1>7, <2>4, FailInv DEF SqsInitThrows
<1>8. CASE Listen
  <2>1. BootTypeOK'
    BY <1>8 DEF BootInv, BootTypeOK, Listen, Phases
  <2>2. Holding'
    BY <1>8, KeepsHolding DEF Listen
  <2>3. Going'
    BY <1>8 DEF BootInv, Going, Listen, Hooked, Started, IsMade, ExplicitConnect
  <2>4. QED
    BY <2>1, <2>2, <2>3 DEF BootInv
<1>9. CASE Reject
  BY <1>9, FailInv DEF Reject
<1>10. CASE Query
  <2>1. BootTypeOK'
    BY <1>10 DEF BootInv, BootTypeOK, Query
  <2>2. Holding'
    BY <1>10, KeepsHolding DEF Query
  <2>3. Going'
    BY <1>10 DEF BootInv, Going, Query, Hooked, Started, IsMade, ExplicitConnect
  <2>4. QED
    BY <2>1, <2>2, <2>3 DEF BootInv
<1>11. CASE Close
  <2>1. BootTypeOK'
    BY <1>11 DEF BootInv, BootTypeOK, Close, Phases
  <2>2. Holding'
    BY <1>11, KeepsHolding DEF Close
  <2>3. Going'
    BY <1>11 DEF BootInv, Going, Close, Hooked, Started, IsMade, ExplicitConnect
  <2>4. QED
    BY <2>1, <2>2, <2>3 DEF BootInv
<1>12. QED
  BY <1>1, <1>2, <1>3, <1>4, <1>5, <1>6, <1>7, <1>8, <1>9, <1>10, <1>11
     DEF BootNext, Bootstrap

-----------------------------------------------------------------------------
(* The application                                                         *)

(* Past the parser a request is served by an application that listens, or  *)
(* waits for it to be closed.                                              *)
Served == pc # "parser" => Started

LEMMA StartedStays == BootNext /\ Started => Started'
BY DEF Started, BootNext, Bootstrap, Resolve, Ready, CannotResolve, S3Throws, Configure,
   Created, PrismaOnModuleInit, SqsOnModuleInit, SqsInitThrows, ToInit, Listen, Reject,
   Query, Close

LEMMA AppStep == BootInv /\ Served /\ [AppNext]_appVars => BootInv' /\ Served'
<1> SUFFICES ASSUME BootInv, Served, [AppNext]_appVars PROVE BootInv' /\ Served'
  OBVIOUS
<1>1. CASE Serve
  <2>1. UNCHANGED boot \/ Query
    BY <1>1 DEF Serve
  <2>2. BootInv'
    <3>1. CASE UNCHANGED boot
      BY <3>1 DEF BootInv, BootTypeOK, Holding, Going, IsMade, Hooked, Started,
         ExplicitConnect, boot
    <3>2. CASE Query
      BY <3>2, BootStep DEF BootNext
    <3>3. QED
      BY <2>1, <3>1, <3>2
  <2>3. Started'
    BY <1>1, <2>1 DEF Serve, Started, Query, boot
  <2>4. QED
    BY <2>2, <2>3 DEF Served
<1>2. CASE Boot
  <2>1. BootInv'
    BY <1>2, BootStep DEF Boot
  <2>2. pc' = pc
    BY <1>2 DEF Boot, vars
  <2>3. QED
    BY <1>2, <2>1, <2>2, StartedStays DEF Boot, Served
<1>3. CASE UNCHANGED appVars
  BY <1>3 DEF appVars, vars, boot, BootInv, BootTypeOK, Holding, Going, IsMade, Hooked,
     Started, ExplicitConnect, Served
<1>4. QED
  BY <1>1, <1>2, <1>3 DEF AppNext

LEMMA AppInvariance == AppSpec => []BootInv /\ []Served
<1>1. AppInit => BootInv /\ Served
  BY BootInitInv DEF AppInit, Init, Served
<1>2. QED
  BY <1>1, AppStep, PTL DEF AppSpec

(* Every request of the application is one of HttpPipeline, so whatever is *)
(* proved of HttpPipeline's specification holds of the application.        *)
THEOREM RequestsOfPipeline == AppSpec => Spec
<1>1. AppInit => Init
  BY DEF AppInit
<1>2. [AppNext]_appVars => [Next]_vars
  BY DEF AppNext, Serve, Boot, appVars
<1>3. QED
  BY <1>1, <1>2, PTL DEF AppSpec, Spec

(* So what a client sees of the application, while its modules start or    *)
(* its consumers query, is what HttpPipeline promises.                     *)
THEOREM ApplicationAnswers ==
    AppSpec => [](/\ TypeOK /\ MostSpecificFilterAnswers /\ AnswersAreEnvelopes
                  /\ CodesBeginWithStatus /\ RowsAreStripped
                  /\ OnlyWrongPasswordLosesItsCode)
BY RequestsOfPipeline, TypesOfPipeline, MostSpecific, Envelopes, CodesAgree,
   PrivateFieldsStay, OtherCodesAreAnswered, PTL

(* Every token holds something known, the middlewares of Prisma are        *)
(* installed once or not at all.                                           *)
THEOREM BootTypes == AppSpec => []BootTypeOK
BY AppInvariance, PTL DEF BootInv

(* Whatever way its modules are registered, and in whatever order they are *)
(* made, an application that listens has services with the options given.  *)
THEOREM OptionsReachServices == AppSpec => []ServicesHoldGivenOptions
<1>1. BootInv => ServicesHoldGivenOptions
  <2> SUFFICES ASSUME BootInv, Started PROVE ServicesHoldGivenOptions
    BY DEF ServicesHoldGivenOptions
  <2> DEFINE r == registration
  <2>1. r \in Registrations /\ \A t \in Provided(r) : IsMade(t)
    BY DEF BootInv, BootTypeOK, Going, Started
  <2>2. \A t \in Provided(r) : t \in Tokens
    BY <2>1, TokenTable DEF Provided
  <2>3. \A t \in Provided(r) : instance[t] = Expected(r, t)
    BY <2>1, <2>2 DEF BootInv, Holding
  <2>4. r.sqs # "absent" => instance["SqsService"] = "given"
    <3>1. r.sqs # "absent" => "SqsService" \in Hooked
      BY <2>1, Providing DEF Hooked
    <3>2. QED
      BY <3>1 DEF BootInv, Going, Started
  <2>5. r.prisma # "plain" => instance["PrismaService"] = "given"
    BY <2>1, <2>3, Providing DEF Expected
  <2>6. r.client # "absent" => instance["CustomPrismaService"] = "given"
    BY <2>1, <2>3, Providing DEF Expected
  <2>7. r.feature => instance["AbilityFactory"] = "given"
    BY <2>1, <2>3, Providing DEF Expected
  <2>8. r.casl # "absent" => rootOptions = "given"
    BY <2>1, Providing DEF BootInv, Holding, Registrations
  <2>9. QED
    BY <2>4, <2>5, <2>6, <2>7, <2>8 DEF ServicesHoldGivenOptions
<1>2. QED
  BY <1>1, AppInvariance, PTL

(* No query passes by a middleware: not even one of a consumer that takes  *)
(* its first message while the hooks of other modules are still to come.   *)
THEOREM MiddlewaresFirst == AppSpec => []MiddlewaresBeforeQueries
<1>1. BootInv => MiddlewaresBeforeQueries
  <2> SUFFICES ASSUME BootInv, polling \/ connected \/ Started,
                      registration.prisma # "plain"
               PROVE  installed = Middlewares
    BY DEF MiddlewaresBeforeQueries
  <2>1. phase \in {"init", "listening", "closed"} /\ registration \in Registrations
    BY DEF BootInv, BootTypeOK, Going, Started, Phases
  <2>2. IsMade("PrismaService") /\ "PrismaService" \in Tokens
    BY <2>1, Providing DEF BootInv, Going, Tokens
  <2>3. instance["PrismaService"] = "given"
    BY <2>2 DEF BootInv, Holding, Expected
  <2>4. QED
    BY <2>3 DEF BootInv, Holding
<1>2. QED
  BY <1>1, AppInvariance, PTL

(* With explicitConnect the pool is there before the first request.        *)
THEOREM PoolFirst == AppSpec => []RequestsFindPool
<1>1. BootInv => RequestsFindPool
  <2> SUFFICES ASSUME BootInv, Started, registration.prisma # "plain",
                      registration.explicitConnect
               PROVE  connected
    BY DEF RequestsFindPool
  <2>1. /\ registration \in Registrations
        /\ "PrismaService" \in Provided(registration) /\ "PrismaService" \in Tokens
    BY Providing DEF BootInv, BootTypeOK, Tokens
  <2>2. "PrismaService" \in initialized /\ IsMade("PrismaService")
    BY <2>1 DEF BootInv, Going, Started, Hooked
  <2>3. ExplicitConnect
    BY <2>1, <2>2 DEF BootInv, Holding, Expected, ExplicitConnect
  <2>4. QED
    BY <2>2, <2>3 DEF BootInv, Going, Started
<1>2. QED
  BY <1>1, AppInvariance, PTL

(* An application that starts is registered as Bootable says, options that *)
(* name no consumer or producer twice included, and nothing but a refusal  *)
(* of the author's code or of a library keeps such a one from starting.    *)
THEOREM StartsOrFails == AppSpec => []FailsForAReason
<1>1. BootInv => FailsForAReason
  <2> SUFFICES ASSUME BootInv, Started PROVE Bootable(registration)
    BY DEF FailsForAReason, BootInv, Going
  <2> DEFINE r == registration
  <2>1. r \in Registrations /\ \A t \in Provided(r) : IsMade(t)
    BY DEF BootInv, BootTypeOK, Going, Started
  <2>2. \A p \in ProvidersOf(r) : Missing(r, p) = {}
    BY <2>1 DEF BootInv, Holding, Provided
  <2>3. r.s3 => r.s3Config
    BY <2>1, Providing DEF BootInv, Holding
  <2>4. r.sqs # "absent" => Expected(r, "SqsService") = "given" /\ ~r.sqsRepeats
    <3> SUFFICES ASSUME r.sqs # "absent"
                 PROVE  Expected(r, "SqsService") = "given" /\ ~r.sqsRepeats
      OBVIOUS
    <3>1. "SqsService" \in Hooked /\ "SqsService" \in Tokens
      BY <2>1, Providing DEF Hooked, Tokens
    <3>2. /\ instance["SqsService"] = "given" /\ IsMade("SqsService")
          /\ ~r.sqsRepeats
      BY <3>1 DEF BootInv, Going, Started, IsMade
    <3>3. QED
      BY <3>1, <3>2 DEF BootInv, Holding
  <2>5. QED
    BY <2>1, <2>2, <2>3, <2>4, ResolvedIsBootable
<1>2. QED
  BY <1>1, AppInvariance, PTL

-----------------------------------------------------------------------------
(* Getting on.  What start-up waits for: who injects whom goes down from   *)
(* services to options to the factories of options and ConfigService.      *)
Layer(t) ==
    CASE t \in {"SqsService", "PrismaService", "CustomPrismaService", "AbilityFactory"} -> 2
      [] t \in {"SQS_OPTIONS", "PRISMA_SERVICE_OPTIONS", "CUSTOM_PRISMA_CLIENT",
                "CASL_ROOT_OPTIONS", "S3Service"} -> 1
      [] t \in {"ConfigService", "CASL_FEATURE_OPTIONS", "SqsModuleOptionsFactory",
                "PrismaOptionsFactory", "CustomPrismaClientFactory"} -> 0

LEMMA InjectsLower ==
    ASSUME NEW r \in Registrations, NEW p \in ProvidersOf(r), NEW t \in p.inject, t \in Tokens
    PROVE  Layer(t) < Layer(p.token)
<1>1. Undefined \notin Tokens
  BY DEF Undefined, Tokens
<1>2. CASE r.sqs # "absent" /\ p \in SqsModule(r.sqs)
  BY <1>1, <1>2, SqsTable, Ways DEF Layer, Async
<1>3. CASE p \in PrismaModule(r.prisma)
  BY <1>1, <1>3, PrismaTable, Ways DEF Layer, Async
<1>4. CASE r.client # "absent" /\ p \in CustomPrismaModule(r.client)
  BY <1>4, ClientTable, Ways DEF Layer
<1>5. CASE p \in CaslFeature
  BY <1>5, FeatureTable DEF Layer
<1>6. CASE p.inject = {}
  BY <1>6
<1>7. CASE p.token \in {"CASL_ROOT_OPTIONS", "S3Service"} /\ p.inject = {"ConfigService"}
  BY <1>7 DEF Layer
<1>8. QED
  BY <1>2, <1>3, <1>4, <1>5, <1>6, <1>7, Table

LEMMA Layers ==
    ASSUME NEW t \in Tokens
    PROVE  Layer(t) \in 0..2
BY DEF Tokens, Layer

(* A provider is ready once all of the layers below it are made.           *)
LEMMA ReadyAbove ==
    ASSUME BootInv, phase = "create", NEW p \in ProvidersOf(registration),
           instance[p.token] = "pending", Missing(registration, p) = {},
           \A t \in Provided(registration) : Layer(t) < Layer(p.token) => IsMade(t)
    PROVE  Ready(p)
<1>1. registration \in Registrations
  BY DEF BootInv, BootTypeOK
<1>2. p.inject \subseteq Provided(registration) \cup Optional(p)
  BY DEF Missing
<1>3. \A t \in Provided(registration) : t \in Tokens
  BY <1>1, TokenTable DEF Provided
<1>4. \A t \in p.inject \cap Provided(registration) : IsMade(t)
  BY <1>1, <1>3, InjectsLower
<1>5. QED
  BY <1>2, <1>4 DEF Ready, IsMade

LEMMA InjectorContinues == BootInv => InjectorCanContinue
<1> SUFFICES ASSUME BootInv, phase = "create", ~Created,
                    \A p \in ProvidersOf(registration) : Missing(registration, p) = {}
             PROVE  \E p \in ProvidersOf(registration) : Ready(p)
  BY DEF InjectorCanContinue
<1> DEFINE Waiting(n) == \E p \in ProvidersOf(registration) :
                            instance[p.token] = "pending" /\ Layer(p.token) = n
           BelowMade(n) == \A t \in Provided(registration) : Layer(t) < n => IsMade(t)
<1>1. \A p \in ProvidersOf(registration) : p.token \in Tokens
  BY TokenTable DEF BootInv, BootTypeOK
<1>2. \A t \in Provided(registration) : Layer(t) \in 0..2
  BY <1>1, Layers DEF Provided
<1>3. ASSUME NEW n \in 0..2, Waiting(n), BelowMade(n)
      PROVE  \E p \in ProvidersOf(registration) : Ready(p)
  BY <1>3, ReadyAbove
<1>4. ASSUME NEW n \in 0..2, ~Waiting(n), BelowMade(n) PROVE BelowMade(n + 1)
  <2>1. \A t \in Provided(registration) : Layer(t) = n => IsMade(t)
    BY <1>4 DEF Provided, IsMade
  <2>2. QED
    BY <1>2, <1>4, <2>1
<1>5. BelowMade(0)
  BY <1>2
<1>6. ~BelowMade(3)
  BY <1>2 DEF Created, IsMade
<1> HIDE DEF Waiting, BelowMade
<1>7. 0 + 1 = 1 /\ 1 + 1 = 2 /\ 2 + 1 = 3 /\ {0, 1, 2} \subseteq 0..2
  OBVIOUS
<1>8. \E n \in 0..2 : Waiting(n) /\ BelowMade(n)
  BY <1>4, <1>5, <1>6, <1>7
<1>9. QED
  BY <1>3, <1>8

(* No way of registering makes the injector wait for ever: while it works, *)
(* a provider is ready, one lacks what it injects, or all are made.        *)
THEOREM InjectorNeverWaits == AppSpec => []InjectorCanContinue
BY InjectorContinues, AppInvariance, PTL

(* What is ahead of a start: providers to make, hooks to await, phases.    *)
ToMake == {t \in Provided(registration) : instance[t] = "pending"}

PhasesAhead == IF phase = "create" THEN 2 ELSE IF phase = "init" THEN 1 ELSE 0

ProvidersAhead == Cardinality(ToMake)

HooksAhead == Cardinality(Hooked \ initialized)

Ahead == ProvidersAhead + HooksAhead + PhasesAhead

AheadOK ==
    /\ IsFiniteSet(ToMake) /\ ProvidersAhead \in Nat
    /\ IsFiniteSet(Hooked \ initialized) /\ HooksAhead \in Nat
    /\ PhasesAhead \in 0..2

LEMMA FiniteTokens == IsFiniteSet(Tokens)
<1> DEFINE A == ({"ConfigService"} \cup {"AbilityFactory"}) \cup {"S3Service"}
           B == ((A \cup {"SqsModuleOptionsFactory"}) \cup {"SQS_OPTIONS"}) \cup {"SqsService"}
           C == ((B \cup {"PrismaOptionsFactory"}) \cup {"PRISMA_SERVICE_OPTIONS"})
                   \cup {"PrismaService"}
           D == ((C \cup {"CustomPrismaClientFactory"}) \cup {"CUSTOM_PRISMA_CLIENT"})
                   \cup {"CustomPrismaService"}
           E == (D \cup {"CASL_ROOT_OPTIONS"}) \cup {"CASL_FEATURE_OPTIONS"}
<1>1. \A S, x : IsFiniteSet(S) => IsFiniteSet(S \cup {x})
  BY FS_AddElement
<1>2. IsFiniteSet({"ConfigService"})
  BY FS_Singleton
<1>3. IsFiniteSet(A)
  BY <1>1, <1>2
<1> HIDE DEF A
<1>4. IsFiniteSet(B)
  BY <1>1, <1>3
<1> HIDE DEF B
<1>5. IsFiniteSet(C)
  BY <1>1, <1>4
<1> HIDE DEF C
<1>6. IsFiniteSet(D)
  BY <1>1, <1>5
<1> HIDE DEF D
<1>7. IsFiniteSet(E)
  BY <1>1, <1>6
<1>8. Tokens = E
  BY DEF Tokens, A, B, C, D
<1>9. QED
  BY <1>7, <1>8

LEMMA AheadSum ==
    /\ Ahead = ProvidersAhead + HooksAhead + PhasesAhead
    /\ Ahead' = ProvidersAhead' + HooksAhead' + PhasesAhead'
BY DEF Ahead

LEMMA SmallerSum ==
    \A x1, x2, x3, y1, y2, y3 \in Nat :
        /\ x1 + x2 + x3 \in Nat
        /\ /\ y1 <= x1 /\ y2 <= x2 /\ y3 <= x3
           /\ y1 < x1 \/ y2 < x2 \/ y3 < x3
           => y1 + y2 + y3 < x1 + x2 + x3
OBVIOUS

LEMMA FiniteAhead == BootInv => AheadOK
<1> SUFFICES ASSUME BootInv PROVE AheadOK
  OBVIOUS
<1>1. ToMake \in SUBSET Tokens
  BY TokenTable DEF ToMake, Provided, BootInv, BootTypeOK
<1>2. IsFiniteSet(ToMake)
  BY <1>1, FiniteTokens, FS_Subset
<1>3. {"PrismaService"} \cup {"SqsService"} = {"PrismaService", "SqsService"}
  OBVIOUS
<1>4. IsFiniteSet({"PrismaService", "SqsService"})
  <2>1. IsFiniteSet({"PrismaService"})
    BY FS_Singleton
  <2>2. IsFiniteSet({"PrismaService"} \cup {"SqsService"})
    BY <2>1, FS_AddElement
  <2>3. QED
    BY <1>3, <2>2
<1>5. Hooked \ initialized \in SUBSET {"PrismaService", "SqsService"}
  BY DEF Hooked
<1>6. IsFiniteSet(Hooked \ initialized)
  BY <1>4, <1>5, FS_Subset
<1>7. PhasesAhead \in 0..2
  BY DEF PhasesAhead
<1>8. QED
  BY <1>2, <1>6, <1>7, FS_CardinalityType DEF AheadOK, ProvidersAhead, HooksAhead

(* Each step of start-up leaves less ahead of it ...                       *)
LEMMA BootstrapStep == BootInv /\ AheadOK /\ AheadOK' /\ Bootstrap => Ahead' < Ahead
<1> SUFFICES ASSUME BootInv, AheadOK, AheadOK', Bootstrap PROVE Ahead' < Ahead
  OBVIOUS
<1>1. /\ ProvidersAhead \in Nat /\ HooksAhead \in Nat /\ PhasesAhead \in Nat
      /\ ProvidersAhead' \in Nat /\ HooksAhead' \in Nat /\ PhasesAhead' \in Nat
  BY DEF AheadOK
<1>2. ASSUME ProvidersAhead' <= ProvidersAhead, HooksAhead' <= HooksAhead,
             PhasesAhead' <= PhasesAhead,
             \/ ProvidersAhead' < ProvidersAhead \/ HooksAhead' < HooksAhead
             \/ PhasesAhead' < PhasesAhead
      PROVE  Ahead' < Ahead
  BY <1>1, <1>2, AheadSum, SmallerSum, Zenon
<1>3. ASSUME UNCHANGED <<registration, instance>> PROVE ProvidersAhead' = ProvidersAhead
  BY <1>3 DEF ToMake, ProvidersAhead
<1>4. ASSUME UNCHANGED <<registration, initialized>> PROVE HooksAhead' = HooksAhead
  BY <1>4 DEF Hooked, HooksAhead
<1>5. ASSUME NEW p \in ProvidersOf(registration), Resolve(p) PROVE Ahead' < Ahead
  <2>1. p.token \in Provided(registration) /\ p.token \in Tokens
    BY TokenTable DEF Provided, BootInv, BootTypeOK
  <2>2. Made(p) # "pending"
    BY <1>5, MadeExpected DEF Resolve, Expected
  <2>3. ToMake' = ToMake \ {p.token}
    <3>1. /\ registration' = registration
          /\ instance' = [instance EXCEPT ![p.token] = Made(p)]
          /\ instance \in [Tokens -> Holds]
      BY <1>5 DEF Resolve, BootInv, BootTypeOK
    <3>2. \A t \in Provided(registration) : t \in Tokens
      BY TokenTable DEF Provided, BootInv, BootTypeOK
    <3>3. \A t \in Provided(registration) :
             instance'[t] = IF t = p.token THEN Made(p) ELSE instance[t]
      BY <2>1, <3>1, <3>2
    <3>4. QED
      BY <2>2, <3>1, <3>3 DEF ToMake
  <2>4. p.token \in ToMake
    BY <1>5, <2>1 DEF Resolve, Ready, ToMake
  <2>5. ProvidersAhead' < ProvidersAhead
    <3>1. ProvidersAhead' = ProvidersAhead - 1
      BY <2>3, <2>4, FS_RemoveElement DEF AheadOK, ProvidersAhead
    <3>2. QED
      BY <1>1, <3>1
  <2>6. HooksAhead' = HooksAhead /\ PhasesAhead' = PhasesAhead
    BY <1>4, <1>5 DEF Resolve, PhasesAhead
  <2>7. QED
    BY <1>1, <1>2, <2>5, <2>6
<1>6. ASSUME NEW s \in Hooked \ initialized, initialized' = initialized \cup {s},
             UNCHANGED <<registration, instance, phase>>
      PROVE  Ahead' < Ahead
  <2>1. (Hooked \ initialized)' = (Hooked \ initialized) \ {s}
    BY <1>6 DEF Hooked
  <2>2. HooksAhead' < HooksAhead
    <3>1. HooksAhead' = HooksAhead - 1
      BY <1>6, <2>1, FS_RemoveElement DEF AheadOK, HooksAhead
    <3>2. QED
      BY <1>1, <3>1
  <2>3. ProvidersAhead' = ProvidersAhead /\ PhasesAhead' = PhasesAhead
    BY <1>3, <1>6 DEF PhasesAhead
  <2>4. QED
    BY <1>1, <1>2, <2>2, <2>3
<1>7. ASSUME PhasesAhead' < PhasesAhead, UNCHANGED <<registration, instance, initialized>>
      PROVE  Ahead' < Ahead
  BY <1>1, <1>2, <1>3, <1>4, <1>7
<1>8. Fail /\ phase \in {"create", "init"} => Ahead' < Ahead
  BY <1>7 DEF Fail, PhasesAhead
<1>9. CASE CannotResolve \/ S3Throws \/ SqsInitThrows \/ Reject
  BY <1>8, <1>9 DEF CannotResolve, S3Throws, SqsInitThrows, Reject, ToInit, Ready
<1>10. CASE Configure \/ Listen
  BY <1>7, <1>10 DEF Configure, Created, Listen, PhasesAhead
<1>11. CASE PrismaOnModuleInit \/ SqsOnModuleInit
  BY <1>6, <1>11 DEF PrismaOnModuleInit, SqsOnModuleInit, ToInit
<1>12. QED
  BY <1>5, <1>9, <1>10, <1>11 DEF Bootstrap

(* ... and no request, message or app.close adds to it.                    *)
LEMMA NothingAddsAhead ==
    ASSUME BootInv, [AppNext]_appVars
    PROVE  Ahead' = Ahead \/ Bootstrap
<1>1. Query \/ Close \/ UNCHANGED boot => Ahead' = Ahead
  BY DEF Query, Close, boot, Ahead, ProvidersAhead, HooksAhead, ToMake,
     Hooked, PhasesAhead
<1>2. QED
  BY <1>1 DEF AppNext, Serve, Boot, BootNext, appVars

(* What bootstrap can do next, as long as it is under way.                 *)
CanGetOn ==
    \/ \E p \in ProvidersOf(registration) : Ready(p) \/ Missing(registration, p) # {}
    \/ Created
    \/ \E s \in Hooked : ToInit(s)
    \/ phase = "init" /\ Hooked \subseteq initialized

StartupGetsOn ==
    /\ phase \in {"create", "init"} => CanGetOn
    /\ AheadOK

StartupDraws == [][Ahead' <= Ahead /\ (Bootstrap => Ahead' < Ahead)]_appVars

(* What StartupEnds rests on, for every registration: while the start is   *)
(* under way bootstrap has a next step; each of its steps brings down a    *)
(* number that nothing else raises.  So the start ends after at most as    *)
(* many steps as there are providers, hooks and phases, if bootstrap goes  *)
(* on while it can.                                                        *)
THEOREM StartupIsBounded == AppSpec => []StartupGetsOn /\ StartupDraws
<1>1. BootInv => StartupGetsOn
  <2> SUFFICES ASSUME BootInv PROVE StartupGetsOn
    OBVIOUS
  <2>1. phase = "create" => CanGetOn
    BY InjectorContinues DEF InjectorCanContinue, CanGetOn
  <2>2. phase = "init" => CanGetOn
    BY DEF CanGetOn, ToInit
  <2>3. AheadOK
    BY FiniteAhead
  <2>4. QED
    BY <2>1, <2>2, <2>3 DEF StartupGetsOn
<1>2. BootInv /\ AheadOK /\ AheadOK' /\ [AppNext]_appVars =>
         [Ahead' <= Ahead /\ (Bootstrap => Ahead' < Ahead)]_appVars
  <2> SUFFICES ASSUME BootInv, AheadOK, AheadOK', [AppNext]_appVars
               PROVE  Ahead' <= Ahead /\ (Bootstrap => Ahead' < Ahead)
    OBVIOUS
  <2>1. Ahead \in Nat /\ Ahead' \in Nat
    <3>1. /\ ProvidersAhead \in Nat /\ HooksAhead \in Nat /\ PhasesAhead \in Nat
          /\ ProvidersAhead' \in Nat /\ HooksAhead' \in Nat /\ PhasesAhead' \in Nat
      BY DEF AheadOK
    <3>2. QED
      BY <3>1, AheadSum, SmallerSum, Zenon
  <2>2. Bootstrap => Ahead' < Ahead
    BY BootstrapStep
  <2>3. Ahead' = Ahead \/ Bootstrap
    BY NothingAddsAhead
  <2>4. QED
    BY <2>1, <2>2, <2>3
<1>3. QED
  BY <1>1, <1>2, AppInvariance, FiniteAhead, PTL DEF AppSpec, StartupDraws
=============================================================================
