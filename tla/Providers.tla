----------------------------- MODULE Providers -----------------------------
(***************************************************************************)
(* What the modules of src/providers and modules/casl hand to the          *)
(* framework's injector for each way of registering them: providers, each  *)
(* with its token, the tokens it injects, and what it makes of them.       *)
(***************************************************************************)

Tokens ==
    {"ConfigService", "AbilityFactory", "S3Service",
     "SqsModuleOptionsFactory", "SQS_OPTIONS", "SqsService",
     "PrismaOptionsFactory", "PRISMA_SERVICE_OPTIONS", "PrismaService",
     "CustomPrismaClientFactory", "CUSTOM_PRISMA_CLIENT", "CustomPrismaService",
     "CASL_ROOT_OPTIONS", "CASL_FEATURE_OPTIONS"}

(* A class the author left out of the options: no one provides it.         *)
Undefined == "undefined"

(* registerAsync and forRootAsync; "none" names none of the three.         *)
Async == {"useFactory", "useClass", "useExisting", "none"}

(* How a module is registered.  imports are the classes that the modules   *)
(* in options.imports provide.  sqsRepeats: the options of SqsService name a *)
(* producer, or a consumer that has a handler, twice.  explicitConnect is  *)
(* part of Prisma's options and s3Config one of the configurations that    *)
(* ConfigModule loads.                                                     *)
Registrations ==
    [sqs : {"absent", "plain", "register"} \cup Async,
     sqsRepeats : BOOLEAN,
     prisma : {"plain", "forRoot"} \cup Async,
     client : {"absent", "forRoot", "useFactory", "useClass", "none"},
     casl : {"absent", "forRoot", "forRootAsync"},
     feature : BOOLEAN,
     s3 : BOOLEAN,
     imports : SUBSET {"SqsModuleOptionsFactory", "PrismaOptionsFactory"},
     explicitConnect : BOOLEAN,
     s3Config : BOOLEAN]

(* makes: what the author gives, nothing, the library's own default, or    *)
(* (the name of a token) an object around what that token holds.  calls: a *)
(* function or class of the author, or a client of a library, which may    *)
(* reject or throw.                                                        *)
Provider(token, inject, makes, calls) ==
    [token |-> token, inject |-> inject, makes |-> makes, calls |-> calls]

Value(token)           == Provider(token, {}, "given", FALSE)
Class(token)           == Provider(token, {}, "given", TRUE)
Factory(token, inject) == Provider(token, inject, "given", TRUE)
Holder(token, options) == Provider(token, {options}, options, FALSE)

When(condition, providers) == IF condition THEN providers ELSE {}

(* The providers of the decorator, and those of the dynamic module, which  *)
(* replace them.                                                           *)
Merged(static, dynamic) ==
    dynamic \cup {p \in static : \A d \in dynamic : d.token # p.token}

-----------------------------------------------------------------------------
(* SqsModule.  register closes over its options; a factory of options is   *)
(* called, and what it creates is awaited and dropped.                     *)

SqsService == Holder("SqsService", "SQS_OPTIONS")

Register ==
    {Value("SQS_OPTIONS"), Provider("SqsService", {"SQS_OPTIONS"}, "given", FALSE)}

SqsOptionsFactory(way) ==
    IF way = "none" THEN Undefined ELSE "SqsModuleOptionsFactory"

SqsOptionsProvider(way) ==
    IF way = "useFactory" THEN Factory("SQS_OPTIONS", {"ConfigService"})
    ELSE Provider("SQS_OPTIONS", {SqsOptionsFactory(way)}, "nothing", TRUE)

SqsAsyncProviders(way) ==
    {SqsOptionsProvider(way)}
        \cup When(way = "useClass", {Class("SqsModuleOptionsFactory")})

RegisterAsync(way) == SqsAsyncProviders(way) \cup {SqsService}

SqsModule(way) ==
    Merged({SqsService}, When(way = "register", Register)
                           \cup When(way \in Async, RegisterAsync(way)))

-----------------------------------------------------------------------------
(* PrismaModule.  PrismaService does without options when there are none.  *)

PrismaService ==
    Provider("PrismaService", {"PRISMA_SERVICE_OPTIONS"}, "PRISMA_SERVICE_OPTIONS", TRUE)

Optional(p) == IF p.token = "PrismaService" THEN {"PRISMA_SERVICE_OPTIONS"} ELSE {}

PrismaOptionsFactory(way) ==
    IF way = "none" THEN Undefined ELSE "PrismaOptionsFactory"

PrismaOptionsProvider(way) ==
    Factory("PRISMA_SERVICE_OPTIONS",
            {IF way = "useFactory" THEN "ConfigService" ELSE PrismaOptionsFactory(way)})

PrismaAsyncProviders(way) ==
    {PrismaOptionsProvider(way)}
        \cup When(way = "useClass", {Class("PrismaOptionsFactory")})

PrismaModule(way) ==
    Merged({PrismaService}, When(way = "forRoot", {Value("PRISMA_SERVICE_OPTIONS")})
                              \cup When(way \in Async, PrismaAsyncProviders(way)))

-----------------------------------------------------------------------------
(* CustomPrismaModule.  Without useFactory or useClass an error is logged  *)
(* and no client provided, but the service that injects it is.             *)

CustomPrismaService == Holder("CustomPrismaService", "CUSTOM_PRISMA_CLIENT")

CustomClientProvider(way) ==
    When(way = "forRoot", {Value("CUSTOM_PRISMA_CLIENT")})
        \cup When(way = "useFactory", {Factory("CUSTOM_PRISMA_CLIENT", {"ConfigService"})})
        \cup When(way = "useClass",
                  {Class("CustomPrismaClientFactory"),
                   Factory("CUSTOM_PRISMA_CLIENT", {"CustomPrismaClientFactory"})})

CustomPrismaModule(way) == CustomClientProvider(way) \cup {CustomPrismaService}

-----------------------------------------------------------------------------
(* CaslModule.forFeature, and the token of forRootAsync; forRoot has no    *)
(* provider of its own.  S3Service reads its options from ConfigService.   *)

AbilityFactory == Holder("AbilityFactory", "CASL_FEATURE_OPTIONS")

(* Mutant: the options are left out, those of the decorator stand in.      *)
CaslFeatureWithoutOptions ==
    Merged({AbilityFactory, Provider("CASL_FEATURE_OPTIONS", {}, "default", FALSE)},
           {AbilityFactory})

CaslFeature ==
    Merged({AbilityFactory, Provider("CASL_FEATURE_OPTIONS", {}, "default", FALSE)},
           {AbilityFactory, Value("CASL_FEATURE_OPTIONS")})

CaslRootAsync == {Factory("CASL_ROOT_OPTIONS", {"ConfigService"})}

S3Service == Provider("S3Service", {"ConfigService"}, "given", TRUE)

ProvidersOf(r) ==
    {Value("ConfigService")} \cup {Class(t) : t \in r.imports}
        \cup When(r.sqs # "absent", SqsModule(r.sqs))
        \cup PrismaModule(r.prisma)
        \cup When(r.client # "absent", CustomPrismaModule(r.client))
        \cup When(r.casl = "forRootAsync", CaslRootAsync)
        \cup When(r.feature, CaslFeature)
        \cup When(r.s3, {S3Service})

Provided(r) == {p.token : p \in ProvidersOf(r)}

(* What a provider injects and no one provides.                            *)
Missing(r, p) == (p.inject \ Optional(p)) \ Provided(r)

(* The ways of registering that the code can start with, one by one.       *)
Bootable(r) ==
    /\ r.sqs \in {"absent", "register", "useFactory"}
    /\ r.sqs # "absent" => ~r.sqsRepeats
    /\ \/ r.prisma \in {"plain", "forRoot", "useFactory", "useClass"}
       \/ r.prisma = "useExisting" /\ "PrismaOptionsFactory" \in r.imports
    /\ r.client # "none"
    /\ r.s3 => r.s3Config
=============================================================================
