------------------------------ MODULE Routines -------------------------------
(***************************************************************************)
(* What the C code of the harnesses does with R objects: each routine is   *)
(* the sequence of those of its steps that matter to R's collector.  A     *)
(* scenario is what one kind of target does at start-up and for an input,  *)
(* with one or two call slots standing for those built alike.              *)
(***************************************************************************)
EXTENDS Naturals, Sequences

-----------------------------------------------------------------------------
(* Steps: v is the variable assigned or worked on, args are those read *)

Step(do, v, args, n) == <<[do |-> do, v |-> v, args |-> args, n |-> n]>>

\* v = an allocation that refers to args, which the allocator holds on to.
Let(v, args) == Step("let", v, args, 0)

Protect(v) == Step("protect", v, <<v>>, 0)

Unprotect(n) == Step("unprotect", "nil", <<>>, n)

\* Rf_protect(v = ...)
LetProtected(v, args) == Let(v, args) \o Protect(v)

\* SETCADR, SET_STRING_ELT, SET_VECTOR_ELT: element n of c is now v.
Attach(c, n, v) == Step("attach", c, <<c, v>>, n)

\* v = element n of c.
Get(v, c, n) == Step("get", v, <<c>>, n)

\* v = Rf_eval(e), which may jump.
Eval(v, e) == Step("eval", v, <<e>>, 0)

\* v = R_tryEval(e): a value, or nothing and an error.
Try(v, e) == Step("try", v, <<e>>, 0)

\* v = the value of e or, that failing, otherwise.
TryElse(v, e, otherwise) == Step("else", v, <<e, otherwise>>, 0)

\* C reads or writes the data of v.
Use(v) == Step("use", v, <<v>>, 0)

\* R_PreserveObject
Preserve(v) == Step("preserve", v, <<v>>, 0)

\* What C finds wrong by itself.
Check == Step("check", "nil", <<>>, 0)

IfOk(steps)    == Step("if ok", "nil", <<>>, Len(steps)) \o steps
IfError(steps) == Step("if error", "nil", <<>>, Len(steps)) \o steps

\* R_ToplevelExec: a jump in steps ends up behind them, as an error.
Toplevel(steps) ==
    Step("enter", "nil", <<>>, Len(steps)) \o steps \o Step("leave", "nil", <<>>, 0)

-----------------------------------------------------------------------------
(* Routines *)

\* fuzz_suppress_warnings, at the end of fuzz_init_r.
InitR == Let("int", <<>>) \o LetProtected("options", <<"int">>)
             \o Try("value", "options") \o Unprotect(1)

\* R_ParseVector: a vector of expressions, or a status.
Parse(parsed) == Let("read", <<>>) \o LetProtected(parsed, <<"read">>)

\* fuzz_make_wrapper and its copies: a closure, unprotected.
MakeWrapper(v) ==
    LetProtected("text", <<>>) \o Parse("parsed")
        \o Get("expr", "parsed", 1) \o Let(v, <<"expr">>) \o Unprotect(2)

Closure(v) == MakeWrapper(v) \o Protect(v)

\* fuzz_do_deparse, from fuzz_label_call.
Deparse(call) ==
    Toplevel(LetProtected("quoted", <<call>>) \o Let("symbol", <<>>)
                 \o LetProtected("expr", <<"quoted">>)
                 \o Eval("lines", "expr") \o Protect("lines") \o Use("lines")
                 \o Unprotect(3))

\* fuzz_do_set_string and fuzz_do_set_string_ce.
SetString(x) == Toplevel(Let("chars", <<>>) \o Attach(x, 1, "chars"))

\* fuzz_do_set_raw: attached, then filled.
SetRaw(call) == Toplevel(Let("raw", <<>>) \o Attach(call, 2, "raw") \o Use("raw"))

\* The many targets of one string vector and closures over it.
StringInit ==
    InitR \o LetProtected("x", <<"nil">>) \o Closure("w")
        \o LetProtected("call", <<"w", "x">>) \o Deparse("call")
        \o Let("chars", <<>>) \o Attach("x", 1, "chars") \o Try("value", "call")

StringInput == SetString("x") \o IfOk(Try("value", "call"))

\* unserialize.c: the warm-up goes through what serialize() returns.
RawInit ==
    InitR \o Closure("w")
        \o Let("placeholder", <<>>) \o LetProtected("call", <<"w", "placeholder">>)
        \o Deparse("call")
        \o LetProtected("ser", <<>>) \o Try("raw", "ser")
        \o IfOk(Protect("raw") \o Attach("call", 2, "raw")
                    \o TryElse("value", "call", "nil") \o Unprotect(1))
        \o Unprotect(1)

RawInput == SetRaw("call") \o IfOk(Try("value", "call"))

IoInit ==
    InitR \o LetProtected("placeholder", <<>>) \o LetProtected("size", <<>>)
        \o LetProtected("read", <<"placeholder", "size">>)
        \o LetProtected("write", <<"nil", "size">>)
        \o Deparse("read") \o Deparse("write")

\* run_io: read, write what was read, read that again and compare.
RunIo ==
    Toplevel(LetProtected("raw", <<>>) \o Use("raw") \o Attach("read", 1, "raw")
                 \o Try("value", "read")
                 \o IfOk(Attach("write", 1, "value") \o Try("encoded", "write"))
                 \o IfOk(Attach("read", 1, "encoded") \o Try("again", "read"))
                 \o IfOk(Protect("again") \o Use("value") \o Use("again")
                             \o Unprotect(1))
                 \o Unprotect(1))

SortInit ==
    InitR \o LetProtected("placeholder", <<>>)
        \o Closure("w") \o LetProtected("call", <<"w", "placeholder">>)
        \o Closure("w") \o LetProtected("call2", <<"w", "placeholder">>)
        \o Deparse("call") \o Deparse("call2")

\* A plausible set_lines that leaves its vector to the calls.
SortInputUnprotected ==
    Toplevel(Let("lines", <<"nil", "nil">>)
                 \o Let("line", <<>>) \o Attach("lines", 1, "line")
                 \o Let("line", <<>>) \o Attach("lines", 2, "line")
                 \o Attach("call", 2, "lines") \o Attach("call2", 2, "lines"))
        \o IfOk(Try("value", "call2"))

\* set_lines, of two lines, and one of the calls.
SortInput ==
    Toplevel(LetProtected("lines", <<"nil", "nil">>)
                 \o Let("line", <<>>) \o Attach("lines", 1, "line")
                 \o Let("line", <<>>) \o Attach("lines", 2, "line")
                 \o Attach("call", 2, "lines") \o Attach("call2", 2, "lines")
                 \o Unprotect(1))
        \o IfOk(Try("value", "call2"))

\* iconv_call, which returns its call unprotected.
IconvCall(call) ==
    LetProtected("from", <<>>) \o LetProtected("to", <<>>)
        \o Let("symbol", <<>>) \o Let(call, <<"x", "from", "to", "sub">>)
        \o Protect(call) \o Let("symbol", <<>>) \o Use(call) \o Unprotect(3)

EncodingInit ==
    InitR \o LetProtected("x", <<"nil">>) \o Let("raw", <<>>) \o Attach("x", 1, "raw")
        \o LetProtected("sub", <<>>)
        \o IconvCall("call") \o Protect("call") \o IconvCall("call2") \o Protect("call2")
        \o Deparse("call") \o Deparse("call2")
        \o Let("raw", <<>>) \o Attach("x", 1, "raw")

\* set_encoding_input
EncodingInput ==
    Toplevel(Let("raw", <<>>) \o Use("raw") \o Attach("x", 1, "raw"))
        \o IfOk(Try("value", "call2"))

\* do_parse, which evaluates nothing.
ParseInput == SetString("x") \o IfOk(Toplevel(Parse("parsed") \o Unprotect(1)))

\* chartr(aux, toupper(aux), x), whose inner call is built first, and a slot
\* of tagged(), which gets its call unprotected: the names of its tags are
\* taken to be symbols that R knows, so that looking them up allocates nothing.
CharacterInit ==
    InitR \o LetProtected("x", <<"nil">>) \o LetProtected("aux", <<"nil">>)
        \o LetProtected("upper", <<"aux">>) \o LetProtected("codepoints", <<"x">>)
        \o LetProtected("call", <<"aux", "upper", "x">>)
        \o Let("call2", <<"codepoints">>) \o Use("call2") \o Protect("call2")
        \o Deparse("call") \o Deparse("call2")
        \o Let("chars", <<>>) \o Attach("x", 1, "chars")
        \o Let("chars", <<>>) \o Attach("aux", 1, "chars")

CharacterInput ==
    SetString("x") \o IfOk(SetString("aux") \o IfOk(Try("value", "call")))

\* datetime.c but for make_setlocale_call: its calls, the warm-up, an input.
DatetimeCalls ==
    InitR \o LetProtected("x", <<"nil">>) \o LetProtected("fmt", <<"nil">>)
        \o LetProtected("inner", <<"x", "fmt">>) \o LetProtected("call", <<"inner", "fmt">>)
        \o Deparse("call")

Warmup ==
    Let("chars", <<>>) \o Attach("x", 1, "chars")
        \o Let("chars", <<>>) \o Attach("fmt", 1, "chars") \o Try("value", "call")

DatetimeInit == DatetimeCalls \o Warmup

DatetimeInput ==
    SetString("x")
        \o IfOk(SetString("fmt") \o IfOk(Toplevel(Eval("value", "call"))))

\* make_setlocale_call: two strings made in one argument list.
SetlocaleInit ==
    DatetimeCalls \o Let("category", <<>>) \o Let("name", <<>>)
        \o LetProtected("setlocale", <<"category", "name">>)
        \o Try("value", "setlocale") \o Warmup

SetlocaleInput ==
    SetString("x")
        \o IfOk(SetString("fmt")
                    \o IfOk(Try("value", "setlocale") \o Toplevel(Eval("value", "call"))))

\* sink(nullfile()), and the flag taken from a vector of them.
FormatInit ==
    InitR \o Let("nullfile", <<>>) \o LetProtected("sink", <<"nullfile">>)
        \o Try("value", "sink") \o Unprotect(1)
        \o LetProtected("x", <<"nil">>) \o LetProtected("flag", <<"nil">>)
        \o LetProtected("flags", <<"nil">>) \o Let("chars", <<>>) \o Attach("flags", 1, "chars")
        \o Get("value", "flags", 1) \o Attach("flag", 1, "value")
        \o Closure("w") \o LetProtected("call", <<"w", "x", "flag">>)
        \o Deparse("call") \o Let("chars", <<>>) \o Attach("x", 1, "chars")

FormatInput == Get("value", "flags", 1) \o Attach("flag", 1, "value") \o StringInput

\* eval_compile: byte-code, or what the compiler declined.
Compile ==
    LetProtected("quoted", <<"expr">>)
        \o LetProtected("ccall", <<"compile", "quoted", "env">>)
        \o TryElse("code", "ccall", "expr") \o Unprotect(2)

\* A plausible loop that leaves on an error before it unprotects.
EvalExpressionLeaving ==
    Get("expr", "parsed", 1) \o Compile \o Protect("code")
        \o Try("result", "code") \o IfOk(Unprotect(1))

\* A pass of eval_source's loop.
EvalExpression ==
    Get("expr", "parsed", 1) \o Compile \o Protect("code")
        \o Try("result", "code") \o Unprotect(1)

\* eval_source under eval_run, of two expressions, with a given pass.
EvalSource(pass) ==
    Toplevel(LetProtected("text", <<"nil">>) \o Let("chars", <<>>) \o Attach("text", 1, "chars")
                 \o Parse("parsed") \o Check
                 \o IfError(Unprotect(2))
                 \o IfOk(LetProtected("env", <<"wrappers">>)
                             \o pass \o IfOk(pass)
                             \o Unprotect(3)))

EvalInput == EvalSource(EvalExpression)

\* The two environments, the colon in one, the compiler, and an input.
EvalInit ==
    InitR \o LetProtected("builtins", <<"nil">>)
        \o Let("name", <<>>) \o Attach("builtins", 1, "name")
        \o LetProtected("wrappers", <<"builtins", "nil">>)
        \o LetProtected("private", <<>>) \o Closure("colon")
        \o Attach("wrappers", 2, "colon") \o Unprotect(2)
        \o MakeWrapper("compile") \o Preserve("compile") \o EvalInput

\* At start-up, for an input, and the variables that outlive both.
Target(init, input, statics) == [code |-> <<init, input>>, statics |-> statics]

Targets ==
    [string    |-> Target(StringInit, StringInput, {"x", "call"}),
     parse     |-> Target(StringInit, ParseInput, {"x", "call"}),
     raw       |-> Target(RawInit, RawInput, {"call"}),
     io        |-> Target(IoInit, RunIo, {"read", "write"}),
     sort      |-> Target(SortInit, SortInput, {"call", "call2"}),
     encoding  |-> Target(EncodingInit, EncodingInput, {"x", "call", "call2"}),
     character |-> Target(CharacterInit, CharacterInput, {"x", "aux", "call", "call2"}),
     datetime  |-> Target(DatetimeInit, DatetimeInput, {"x", "fmt", "call"}),
     format    |-> Target(FormatInit, FormatInput, {"x", "flag", "flags", "call"}),
     eval      |-> Target(EvalInit, EvalInput, {"builtins", "wrappers", "compile"}),
     setlocale |-> Target(SetlocaleInit, SetlocaleInput, {"x", "fmt", "call", "setlocale"})]
=============================================================================
