---------------------------- MODULE Diagnostics ----------------------------
(***************************************************************************)
(* The errors of the compiler (code-generation-diagnostic.ts).  A          *)
(* diagnostic names a node of the source file and carries a code, an error *)
(* of any other kind (an assertion, a failing tool) does neither until     *)
(* CodeGenerationContext.generate attaches the node it was generating.     *)
(* Messages are left out: a diagnostic is its kind.                        *)
(***************************************************************************)
EXTENDS Integers

\* The absent node and code; nodes are numbers from 1.
NoNode == 0
NoCode == -1

\* No kind of diagnostic.
None == "none"

\* The numbers the kinds are reported with.
Code == [BuiltInMethodNotSupported |-> 100000,
         BuiltInPropertyNotSupported |-> 100001,
         BuiltInObjectDoesNotSupportElementAccess |-> 100002,
         UnsupportedBuiltInClass |-> 100003,
         UnsupportedLiteralType |-> 100004,
         UnsupportedType |-> 100005,
         UnsupportedIdentifier |-> 100006,
         UnsupportedBinaryOperation |-> 100007,
         UnsupportedUnaryOperation |-> 100008,
         AnonymousEntryFunctionsUnsupported |-> 100009,
         ReferenceToNonEntrySpeedyJSFunctionFromJS |-> 100010,
         OptionalParametersNotSupportedForEntryFunction |-> 100011,
         GenericEntryFunctionNotSuppoorted |-> 100012,
         OverloadedEntryFunctionNotSupported |-> 100013,
         UnsupportedSyntaxKind |-> 100014,
         UnsupportedProperty |-> 1000015,
         UnsupportedIndexer |-> 1000016,
         UnsupportedCast |-> 1000017,
         UnsupportedImplicitArrayElementCast |-> 1000018,
         UnsupportedImplicitCastOfBinaryExpressionOperands |-> 1000019,
         UnsupportedImplicitCastOfArgument |-> 1000020,
         UnsupportedImplicitCastOfConditionalResult |-> 1000021,
         UnsupportedElementAccessExpression |-> 1000022,
         UnsupportedImplicitCastOfReturnValue |-> 1000023,
         UnsupportedImplicitCast |-> 1000024,
         UnsupportedGenericFunction |-> 1000025,
         UnsupportedStaticProperty |-> 1000026,
         UnsupportedNestedFunctionDeclaration |-> 1000027,
         UnsupportedFunctionDeclaration |-> 1000028,
         UnsupportedVarDeclaration |-> 1000029,
         UnsupportedOverloadedFunctionDeclaration |-> 1000030,
         UnsupportedGenericClass |-> 1000031,
         UnsupportedClassInheritance |-> 1000032,
         ReferenceToNonSpeedyJSFunctionFromSpeedyJS |-> 1000033,
         UnsupportedEntryFunctionWithCallback |-> 1000034]

\* The diagnostic of a kind raised at a node.
Diagnostic(kind, node) == [node |-> node, code |-> Code[kind]]

\* An error that knows neither a node nor a code.
OtherError == [node |-> NoNode, code |-> NoCode]

IsCodeGenerationDiagnostic(error) == error.node # NoNode /\ error.code # NoCode

\* generate wraps what escapes from a code generator: the innermost node stays.
ToCodeGenerationDiagnostic(error, node) ==
  IF IsCodeGenerationDiagnostic(error) THEN error ELSE [node |-> node, code |-> 0]
=============================================================================
