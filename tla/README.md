# Formal models of the JNI header generator

This directory holds TLA+ models of `src/base/android/jni_generator/jni_generator.py`.
That script reads one Java source file (or a compiled `.class` through `javap`).
From it, it writes a C++ header that binds the file's `native` methods and its
`@CalledByNative` methods to the JNI runtime. The models are checked with TLC.
TLAPS proves the type invariant of the resolver and of the driver, and that the
driver implements its abstract output specification. TLC also checks the
javap path.

## The system

The generator is one Python file. It is a single-threaded batch tool. `main`
converts one input file per process. The file is also a library: the
generator's tests, and any script that imports it, construct
`JNIFromJavaSource` again and again in one process. Its parts are:

| Part | Code | What it does |
|---|---|---|
| Lexical extractor | `ExtractNatives`, `ExtractCalledByNatives`, `ExtractJNINamespace`, `JNIFromJavaSource._RemoveComments`, `ExtractFullyQualifiedJavaClassName` | Regular expressions over the Java text. They find the package, the native and called-by-native declarations, and the namespace. |
| Type resolver | class `JniParams` | Turns a Java type name into a JNI descriptor. It uses a context of the class, its package, its imports, its nested classes and a lazily loaded table of `android.jar` classes. |
| Overload mangler | `GetMangledParam`, `GetMangledMethodName`, `MangleCalledByNatives` | Gives overloaded `@CalledByNative` methods distinct C++ names. |
| Header synthesizer | `InlHeaderFileGenerator` | Builds the class-path definitions, the method stubs and the `RegisterNatives` tables from the method model. |
| javap path | `JNIFromJavaP`, `JniParams.ParseJavaPSignature` | The same model built from `javap -s` output of a compiled class. |
| Driver | `GenerateJNIHeader`, `main`, `ExtractJarInputFile` | Chooses the path, writes the output file, and skips the write under `--optimize_generation` when the content is unchanged. |

The parts interact through the resolver context. `JNIFromJavaSource.__init__`
(lines 659-673) calls `SetFullyQualifiedClass` and then
`ExtractImportsAndInnerClasses`. That second call records the imports, then the
nested classes, then the `@JNIAdditionalImport` entries. After that, every
signature and every mangled name calls `JavaToJni`. The context lives in class
attributes of `JniParams` (lines 178-183). It is process-wide state, not a
per-file value.

## Modules

| Module | Models | Status |
|---|---|---|
| `JniStrings` | The Python string operations the resolver applies: `endswith`, `startswith`, `in`, `index`, `rindex`, `replace`, `split('/')[:-1]` and `[-1]`, `isupper`. | helper, built-ins |
| `JniParams` | The resolver context and every operation that changes it. | modelled |
| `MCJniParams` | The inputs TLC enumerates for `JniParams`. | model |
| `JniParamsProofs` | TLAPS proof of `JniParams`' type invariant. | proved |
| `JniHeader` | The overload mangler, the definitions `GetContent` emits from one conversion's method model, and each called-by-native stub's result handling. | modelled (mangler), partly (synthesizer) |
| `MCJniHeader` | The method models TLC enumerates for `JniHeader`. | model |
| `JniJavaP` | `JNIFromJavaP.__init__` and `ParseJavaPSignature`: the scans of a `javap -c -verbose -s` listing. | modelled |
| `MCJniJavaP` | The javap listings TLC enumerates, in the JDK 6 and JDK 7+ layouts. | model |
| `JniHeaderProofs` | TLAPS proofs that the class handles the header uses are always defined, and that a method alone under its name keeps its plain id. | proved |
| `JniOutput` | The abstract output promise: a run replaces the file with its header, or leaves it on error, or leaves it torn if interrupted. | abstract |
| `JniDriver` | `GenerateJNIHeader` across processes over one output file, and its refinement mapping to `JniOutput`. | partly |
| `MCJniDriver` | The input versions and headers TLC enumerates for `JniDriver`. | model |
| `JniDriverProofs` | TLAPS proofs that `JniDriver` is type-correct and implements `JniOutput`. | proved |

### JniParams

**State.** Each variable is one class attribute of `JniParams`:

- `fqc` is `_fully_qualified_class` ("L" followed by the class path).
- `package` is `_package`.
- `imports` is `_imports`, in order.
- `innerClasses` is `_inner_classes`, in order.
- `implicitImports` is `_implicit_imports`. It is `<<>>` until the first load.

Three variables are bookkeeping:

- `file` is the file being converted.
- `todo` is the remaining steps of its conversion.
- `outcome` is `"running"`, `"ok"`, or the `SyntaxError` that ended the conversion.

`conversions` counts how many conversions the process has started. It is
bounded by the constant `MaxConversions`.

**Inputs.** A file is a record. It holds:

- the package;
- the class name;
- the texts the import regular expression captures;
- the names the `class|interface` regular expression captures;
- the class literals of `@JNIAdditionalImport`;
- the type names its methods use, in the order `GetContent` resolves them.

The regular-expression scan is abstracted to these lists. Names are real
strings, so every string test of the code (`endswith`, `'.' in`, `split`,
`isupper`) is evaluated exactly as Python does it.

**Actions.** There is one action per operation:

- `SetFullyQualifiedClass(f)` is lines 185-188. It starts the conversion of `f`.
- `ExtractImport` is lines 210-212, one import.
- `ExtractInnerClass` is lines 214-220. It includes the `endswith` test that skips the outer class.
- `AddAdditionalImport` is lines 191-203. It has three outcomes: a qualified-name error, an "already imported" error, or an append.
- `ResolveType` is one call of `JavaToJni` (lines 237-317) from `Signature` or `MangleCalledByNatives`. That includes `_CheckImplicitImports` with its lazy load (lines 320-336). A `SyntaxError` ends the conversion.
- `FinishConversion` is the end of `__init__` once everything has been resolved.

`JavaToJni` is a pure operator. `Rule` selects the branch in the code's order:

1. primitive;
2. qualified (`/`);
3. well-known, own class or nested class;
4. import, with the nested-import error;
5. `Outer.Inner` through an import, or the unimported-outer error;
6. ambiguity check, then same-package fallback.

A nested-class import is recognised with the code's test on the path
components: the second-to-last starts with an upper-case letter.

**Not modelled here:**

- The "no JNI methods" `SyntaxError` of `__init__` (line 668).
- The `RuntimeError` for an empty package. The files are assumed to have a package: `FilesAssumption`.
- `ParseJavaPSignature`, which belongs to the javap path.

### JniHeader

**State.** `natives` and `calledByNatives` are the lists `ExtractNatives` and
`ExtractCalledByNatives` return. A native is its Java name and the class of its
`@NativeCall` (or `""`). A called-by-native is its class, name, return
descriptor and parameter descriptors. Types are given as the descriptor
`JavaToJni` returns for them, because that is what `GetMangledParam` receives.
`exportsOptional` is `--native_exports_optional`. `methodIds` holds each
called-by-native's `method_id_var_name`. `header` is the generated content,
abstracted to its definitions:

- the class-path dict (`k<X>ClassPath`, `g_<X>_clazz`);
- the native stub names;
- per called-by-native, the class handle and the id its stub uses;
- the `kMethods` tables and the classes `RegisterNativesImpl` registers.

`phase` is `extracted`, `mangled`, `generated` or the error raised.

**Actions.**

- `MangleCalledByNatives` is lines 493-510, the last call of `ExtractCalledByNatives`. It groups methods by class and name. It mangles the members of groups with more than one member through `GetMangledMethodName` and `GetMangledParam`, which are translated character by character. The `assert` at line 489 raises `AssertionError` for a name whose first character is not an identifier character.
- `RejectNoJniMethods` is the `SyntaxError` of lines 667-669.
- `GetContent` is lines 719-776 with the `assert` at 774-775. The header's definitions are `GetClassPathDefinitions` (with the `dict.update` under the option), `GetStubName`, `GetKMethodsString` and `SubstituteNativeMethods`.

**Stub result handling.** Each called-by-native also has a `returnType`
(the type as written: `Class<?>`, `String[]`, `java/lang/Class` from javap), a
`static` and a `ctor` flag. `CalledByNativeStub` is the part of
`GetCalledByNativeValues` (lines 1057-1113) that decides how the stub receives
the result:

- `cType` is `JavaDataTypeToC(returnType)` (lines 101-136), with its table of primitives, its table of `String`/`Throwable`/`Class`/`Object`, arrays by element, and `startswith('Class')` for generic class types;
- `wrapped` is the `RE_SCOPED_JNI_TYPES` test (line 514) that makes the stub return a `ScopedJavaLocalRef`;
- `cast` is `GetStaticCastForReturnType` (lines 415-433);
- `call` is `GetEnvCall` (lines 436-455): `NewObject` for a constructor, else `Call[Static]<Kind>Method` by the written type.

The C++ text itself (parameter lists, `CHECK_CLAZZ` error values,
`WrapOutput`) is left out. No property is about it.

The properties compare the stub with what JNI requires for the method's
descriptor (`ret`, which `GetMethodIDImpl` uses to find the method):
`JniCallFor(m)` is the `Call<Kind>Method` of the descriptor's first character,
and `JniCType` the C type it returns. `StubInvocationFollowsDescriptor` says the
stub calls the method through that function and wraps exactly the reference
results. `StubReturnWellTyped` says the declared `ret` can hold both the
descriptor's C type and the value the call (after the cast) yields, where a
C++ reference type converts only to `jobject` implicitly.

### JniDriver and JniOutput

`JniDriver` runs `GenerateJNIHeader` (lines 1282-1305) once per process, as
the build does. The conversion is abstracted to its result: `Gen[s]` is the
header, or the exception, that converting version `s` of the input gives.
`JniParams` and `JniHeader` model how that result is computed.

**State.**

- `input` is the current version of the `.java` file.
- `out` is the output file: `NoFile`, a header, or `TornFile` (truncated or partly written).
- `pc` is where the running process is: `idle` (none runs), `converted`, or `opened`.
- `optimize` is `--optimize_generation`.
- `content` is the local `content`.
- `status` is how the last process ended.
- `runs` counts processes, up to `MaxRuns`.

**Actions.**

- `Convert(opt)` is lines 1283-1293. A conversion error ends the process: `ParseError` through `sys.exit(1)`, the others by propagating. Nothing is written.
- `OptimizeSkip` is lines 1297-1301. The existing file equals the content, so the process returns.
- `Open` is lines 1294-1302, the `file(output_file, 'w')` that truncates the output.
- `Write` is line 1303. `WriteFails` is the same line raising `IOError`.
- `Kill` (a process killed by the build) and `Edit` (the input edited between runs) are the environment. `CreateFromFile` reads the input once at its start, so edits are taken to happen between processes.

**Refinement.** `JniOutput` states what a user of the generator relies on.
After a run the file holds that run's header, or is unchanged if the
conversion failed, or is unchanged or torn if the run was interrupted. The
mapping makes a run take effect when it opens the file (or skips): while
`pc = "opened"`, the abstract file is already the new content. `Open` and
`OptimizeSkip` are then `JniOutput`'s `Generate`. `Kill` and `WriteFails` are its
`Interrupt`. The remaining steps are stutters.

**No fairness.** `Spec` has none and no liveness is claimed. After its
conversion a process runs straight-line code (lines 1294-1303) with nothing
to wait for, so that it ends follows from its being scheduled at all and says
nothing about the code.

### JniJavaP

`JniJavaP` models `JNIFromJavaP.__init__` (lines 562-629), the path taken for a
`.class` input. The constant `Listings` is a set of listings javap may print.
A line is abstracted to what the regular expressions see in it:

- a class line with its name;
- a method declaration (its prefix, return type, name and parameters);
- a `public <class>(...)` constructor line;
- a `public static final int` field;
- a `Signature:`/`descriptor:` line with its descriptor;
- a `Constant value: int` / `ConstantValue: int` line;
- a string literal of the shape `<word> <word>(`;
- anything else.

The `Match` predicates are the regular expressions, with their real over-match:
`MethodMatch` accepts a string literal, and `CtorMatch` fails when the class
name contains `$`, which is an anchor in the pattern.

**State.** `listing`, `lineno`, `pc` (which loop runs, or the exception raised),
`fqc`, `calledByNatives`, `methodIds` and `constants`.

**Actions.** One step per line examined:

- `FindClass` is lines 565-577, with the `AttributeError` when no class line exists, and the `<...>` stripped.
- `ScanMethod` is lines 583-595. `ParseJavaPSignature` (lines 228-235) of line `lineno + 1` raises `IndexError` past the end and `ValueError` when the line has no signature prefix.
- `ScanConstructor` is lines 596-612.
- `EndScan` moves from one loop to the next.
- `Mangle` is line 613, the mangler of `JniHeader` (instantiated), with its assert.
- `ScanConstant` is lines 614-629, with the value at `lineno + 2`, else `lineno + 3`.

`MCJniJavaP` renders listings as javap prints them: a class `a.Foo`, the
generic `a.Bar<T>` or the nested `a.Foo$Inner`, with up to two members, in the
JDK 6 layout (signature and constant value right below the member) or the
JDK 7+ one (`descriptor:`, then `flags:`, then `ConstantValue:`), with and
without a string literal `"use size()"` in the constant pool. The members are
an instance and a static method, a constructor, an int constant and an int
field without a constant value. That is 306 listings, which cover both layouts,
every member next to every other, and every class shape.

## Runs

The runs of `JniParams` use `MCJniParams`. That module generates 401 files from choice sets:

- class `Foo` or `MyFoo`;
- five import lists, with a nested-class import, a second package's `Bar` and `java.util.List`;
- nested classes `Inner`, and `Foo` inside `MyFoo`;
- four `@JNIAdditionalImport` lists, with a qualified literal and a duplicate;
- used types with arrays, generics, a primitive, a `/`-qualified name, an `Outer.Inner` use and implicitly visible names.

A file `Other` in a second package imports a different `Bar`. The `android.jar`
table holds four classes, among them `View` and `List`. Deadlock checking is
off in every run, because the process ends after its conversions.

| Run | cfg | Expect | Checks | Shows |
|---|---|---|---|---|
| `jni_params_single` | `JniParamsSingle.cfg` (1 conversion) | pass | `TypeOK`, `ImportedNameResolvesToItsImport`, `AdditionalImportResolvesToPackage`, `AmbiguousNameNeverGuessed` | With one conversion per process, as `main` runs it, the resolver agrees with Java's name resolution on every file. An imported name resolves to its import. An additionally imported name resolves to the class's own package, even where `android.jar` has the same name. An unimported `android.jar` name is never guessed to be in the package, and the table's lazy load does not hide it. 3331 states. |
| `jni_params_stale` | `JniParamsStale.cfg` (2 conversions) | violation | `ImportedNameResolvesToItsImport` | A second conversion in the same process resolves `Bar` through the first file's import `org.cr.Bar` instead of its own `org.cr.base.Bar`. `SetFullyQualifiedClass` never clears `_imports`. The first file's `import org.cr.Bar` is still in `_imports` when the second file is read. |
| `jni_params_inner_suffix` | `JniParamsInnerSuffix.cfg` | violation | `DeclaredInnerClassResolvesToNested` | A class `MyFoo` with a nested class `Foo`: the `endswith` test at line 217 takes `Foo` for the outer class. A use of `Foo` then resolves to `Lorg/cr/Foo;` instead of `Lorg/cr/MyFoo$Foo;`. |
| `jni_params_inner_import` | `JniParamsInnerImport.cfg` | violation | `InnerClassImportRejectedBeforeResolution` | `import org.cr.base.Bar.Nested;` is accepted while the imports are processed. The spec says it is rejected then. The code rejects it only if a signature uses `Nested`. |

**Why the bounds are enough.** Each resolver rule is reached by some file. So is
each of its error paths. The single-conversion run checks all of them
exhaustively: 401 files, each with every step order the code allows (there is
only one). The interesting multi-conversion cases need exactly two
conversions: state left by one conversion and read by the next. The two
violation runs show them. A third conversion adds nothing new.

Each property of the passing run is killed by a mutant of the code it is
about:

| Mutant of | Plausible bug | Property that catches it |
|---|---|---|
| `ImportEntry` | dots kept | `ImportedNameResolvesToItsImport` |
| `AdditionalEntry` | `.` instead of `/` | `AdditionalImportResolvesToPackage` |
| `LoadedImplicitImports` | the table read before its lazy load | `AmbiguousNameNeverGuessed` |
| `SetFullyQualifiedClass` | `_package` cut from the descriptor (with its `L`) | `TypeOK` |

The runs of `JniHeader` use `MCJniHeader`, with the class `org/cr_app/Foo` (an
`_` in the path, to exercise the escape). It enumerates every input built from
up to two natives of a menu of four and up to two called-by-natives of a menu
of ten, with the option on and off: 2210 method models. The menus are:

- natives: plain, one of a nested class `Inner`, one with `_` in its name, and one with `native` inside its name;
- called-by-natives: overloads of `foo` on `I` (static), `[I` and `[[I`, and on two classes with the same initials, a `get` returning `GURL` and one returning `int`, a same-named method of the nested class, and static methods returning `String` and `String[]`.

The run about class-typed results uses a separate menu of four single methods
returning `Class<?>`, `ClassLoader`, `java/lang/Class` and `Object`.

Two methods are enough to make a group of overloads, and a pair of classes.
Deadlock checking is off: a conversion ends.

| Run | cfg | Expect | Checks | Shows |
|---|---|---|---|---|
| `jni_header_pass` | `JniHeaderPass.cfg` | pass | `TypeOK`, `ClassHandlesDefined`, `NativesRegisteredInOwnTable`, `UniqueMethodKeepsPlainName`, `OverloadedMethodMangled`, `StubInvocationFollowsDescriptor` | Every class handle a stub or `RegisterNativesImpl` uses is defined with the class's JNI path, with the option on and off. Every native is in exactly one `kMethods` table, its class's. A method that no other method of its class shares a name with keeps its plain name; an overloaded one gets another id. Every stub calls its method through the JNI function of its descriptor's kind and static-ness, and wraps exactly the reference results. 10302 states. |
| `jni_header_return_types` | `JniHeaderReturnTypes.cfg` | violation | `StubReturnWellTyped` | A method returning `Class<?>` gets `jclass ret = env->CallObjectMethod(...)` with no cast: `GetStaticCastForReturnType` has no `Class` entry. The javap spelling `java/lang/Class` does the same. `ClassLoader` is typed `jclass` by `startswith('Class')`. |
| `jni_header_method_ids` | `JniHeaderMethodIds.cfg` | violation | `MethodIdsDistinctIdentifiers` | The ids are not always distinct C identifiers, for two reasons. `foo(int[])` and `foo(int[][])` both become `fooV_AI`, because `GetMangledParam` starts at index 1 and drops the first `[`; `Bar` and `Baz` in one package also collide. This breaks the docstring at line 474, which promises unique names. An overload returning `Lorg/cr/GURL;` gets the id `getOCGURL;`: the `;` follows an `L` and is kept, and `re.match` checks only the first character, so the assert passes. |
| `jni_header_stub_names` | `JniHeaderStubNames.cfg` | violation | `NativeStubNamesFollowJniNaming` | `nativeSet_Value` gets the stub `..._nativeSet_Value`, not the JNI name `..._nativeSet_1Value`. `replace('native', '')` also turns `nativeGetnativeWindow` into `GetWindow`. |

| Mutant of | Plausible bug | Property that catches it |
|---|---|---|
| `MethodIds` | ids only for overloaded methods | `TypeOK` |
| `ClassPathDefinitions` | natives' classes never added | `ClassHandlesDefined` |
| `KMethods` | natives without `@NativeCall` left out | `NativesRegisteredInOwnTable` |
| `MethodIds` | overloads counted by name across classes | `UniqueMethodKeepsPlainName` |
| `Overloaded` | a group counted as overloaded from three members on | `OverloadedMethodMangled` |
| `GetEnvCall` | `CallStatic` chosen without looking at `static` | `StubInvocationFollowsDescriptor` |

The runs of `JniDriver` use `MCJniDriver`. It has four input versions: two
convert to different headers `h1` and `h2`, one converts to `h1` again (an
edit that does not change the output), and one fails with `SyntaxError`.
`MaxRuns = 4` processes allow a success, an edit, a rerun with and without
`--optimize_generation`, and a failure after a success, with kills and failed
writes at every point of each run. Deadlock checking is off: the behaviour
stops after `MaxRuns` processes.

| Run | cfg | Expect | Checks | Shows |
|---|---|---|---|---|
| `jni_driver_pass` | `JniDriverPass.cfg` | pass | `JniOutputSpec` | The driver implements `JniOutput` through every interleaving of edits, runs, kills and failed writes. A torn file left by one run is rewritten by the next successful one, because the optimizing comparison sees the difference. A failing conversion leaves the output alone. 568 states. |
| `jni_driver_all_or_nothing` | `JniDriverAllOrNothing.cfg` | violation | `AllOrNothingOutput` | Generation is not all-or-nothing, in two ways. A conversion error after a successful run leaves the old header in place, though the spec says no output file exists afterwards. An `IOError` on the write after the truncating open leaves a torn header. |

| Mutant of | Plausible bug | Property that catches it |
|---|---|---|
| `OptimizeSkip` | skip whenever the file exists | `JniOutputSpec` |

The runs of `JniJavaP` use `MCJniJavaP`. Deadlock checking is off: the
conversion ends.

| Run | cfg | Expect | Checks | Shows |
|---|---|---|---|---|
| `jni_javap_pass` | `JniJavaPPass.cfg` | pass | `TypeOK`, `MethodsExtracted`, `ConstantsExtracted` | Every method of the class is extracted with its own descriptor and static-ness, and every int constant with its own value, in both javap layouts. 7461 states. |
| `jni_javap_convert` | `JniJavaPConvert.cfg` | violation | `ListingConverts` | A valid listing is not always converted completely, in two ways. The literal `"use size()"` matches `re_method`, and `ParseJavaPSignature` of the next line raises `ValueError`. The constructor of `a.Foo$Inner` is never extracted, because `$` anchors `re_constructor` at the end of the line. |

The runs `jni_header_method_ids`, `jni_driver_all_or_nothing` and `jni_javap_convert` each state one promise that two separate
defects break. TLC stops at the first counterexample it finds. The other
defect was seen by checking each half of the property alone.

| Mutant of | Plausible bug | Property that catches it |
|---|---|---|
| `Mangle` | only overloaded methods get an id | `TypeOK` |
| `MethodEntry` | `static` never read from the prefix | `MethodsExtracted` |
| `ScanConstant` | the value looked for at `lineno + 2` only | `ConstantsExtracted` |

## Proofs

`JniDriverProofs` proves two theorems from one invariant for every set of input versions, every
conversion result and every `MaxRuns`:

- `TypeCorrect`, which is `Spec => []TypeOK`;
- `Refinement`, which is `Spec => JniOutputSpec`: the driver implements `JniOutput`.

Both rest on `IInv == TypeOK /\ RunIsCurrent`. `RunIsCurrent` says two things:

- a running process's content is the conversion of the current input;
- while the file is open, the file on disk is torn.

The refinement proof shows two facts:

- `Init` maps to `JniOutput`'s `Init`;
- each step maps to a `JniOutput` step or a stutter.

The argument has one case per action, and `PTL` combines them. Without
`RunIsCurrent`, `Open` could not be shown to write `Gen[input]`, and `Kill`
after `Open` could not be shown to leave the abstract file torn.

`JniHeaderProofs.ClassHandlesAlwaysDefined` proves `Spec => []ClassHandlesDefined`
for every class path and every method model, with and without
`--native_exports_optional`. The only assumption is `InputsAssumption`: no
nested class has the name of the class itself, which Java forbids. The
inductive invariant `IInv` has two parts:

- the method model is one input's, for good (`InputIsFixed`);
- a generated header is `Content` of the current model (`HeaderIsContent`).

The argument is in the lemmas about the dicts:

- `UniqueClassesPaths`: `GetUniqueClasses` maps the outer class and every named nested class to its JNI path.
- `UpdatePaths`: `dict.update` keeps this.
- `DefinitionsPaths`: `GetClassPathDefinitions` holds every class of a called-by-native, and, under the option, every class of a native.
- `JavaClassDefined` and `TableClassesDefined`: the classes a stub or `RegisterNativesImpl` uses are among them.

As in `JniParamsProofs`, the empty string is `EmptyString`, and the string
builders are never expanded.

`JniHeaderProofs.PlainNameKept` proves `Spec => []UniqueMethodKeepsPlainName`
under the same assumption. The property is spec 8's "a uniquely-named method
keeps its plain name as identifier". It speaks of the method's enclosing
class (`JavaClass`, the file's class when the annotation names none).
`MangleCalledByNatives` counts by `java_class_name` instead, and that is
`''` (the empty string) for the file's own class. The lemma `UniqueMethodNotOverloaded` shows
that the two groupings agree here. Two methods with the same
`java_class_name` have the same enclosing class, so a method alone in its
enclosing class is alone in its `method_counts` group. Its group is then a
singleton of cardinality 1 (`FS_Singleton` of `FiniteSetTheorems`). For this
proof `IInv` gains a third conjunct, `IdsAreMangled`: once mangled, the ids
are `MethodIds` of the current model. TLC checked the extended `IInv` on the
10302 states of `jni_header_pass` before it was proved.

The other half of the overload rule, `OverloadedMethodMangled`, is checked
only by TLC. It says an overloaded method does not keep its plain name.
Proving it means showing `name \o suffix # name` for the suffix
`GetMangledMethodName` builds, and that is a fact about string content.

`JniParamsProofs.TypeCorrect` proves `Spec => []TypeOK` for every set of files,
every `android.jar` table and every `MaxConversions`. It holds the constants
to their ASSUMEs: files are well-formed records, class literals end in `.class`
and packages are non-empty.

`TypeOK` alone is not inductive. A nested-class entry is built from `fqc`, and
an additional import from `package`. To type them, the proof needs to know
that these two are the current file's values, so it proves
`IInv == TypeOK /\ ClassContextIsCurrent`. `ClassContextIsCurrent` says that
while a conversion runs, `fqc` and `package` are those of `file`. TLC checked
`IInv` as an invariant before it was proved. The proof has these parts:

- `InitIInv` is `Init => IInv`.
- `NextIInv` is `IInv /\ [Next]_vars => IInv'`. It has one step per action. Each action's step uses these lemmas:
  - `HeadTailProperties` and `AppendProperties` from `SequenceTheorems`;
  - `StepsType`: the steps of a file are typed;
  - `JavaToJniFailure`: a failed resolution yields one of the resolver's errors, by cases on `Rule`.
- `PTL` combines them.

String-building operators (`ClassDescriptor`, `PackagePath`, `ImportEntry`,
`InnerEntry`, `AdditionalEntry`) are never expanded in the proof. The empty
string is named `EmptyString` for the same reason: the SMT backend cannot
encode it.

**Only model-checked.** The resolution properties are only model-checked:
they state what `JavaToJni` computes on strings, and proving them needs
reasoning about `Replace` and `EndsWith` on all strings. That is induction
over data, which the installed provers cannot do. The same holds for
`JniJavaP`'s extraction properties (`MethodsExtracted`, `ConstantsExtracted`)
and the stub typing properties of `JniHeader`, which are about strings and
tables, and for `OverloadedMethodMangled`. The provers treat a string literal as an opaque atom: they know that
two literals differ, but not their length or their characters. So nothing that
depends on what mangling, `Replace` or a stub name spells can be proved. The
type invariants of `JniHeader` and `JniJavaP` stay with TLC too. Their string
fields are values of the recursive `Replace` and of `FoldLeft`, and that these
are strings is induction over data.
No liveness property is stated (see `JniDriver`'s note on fairness); one
would in any case be out of the provers' reach (`ENABLED` and `WF`).

## What is not modelled yet

Not modelled:

- the javap subprocess itself (`CreateFromClass`); the model starts from the listing it prints;
- jar extraction, option parsing, the print to stdout without `--output_dir`, and the depfile (`build_utils` is not in this repository);
- the text layout of the header (`WrapOutput`, templates).
