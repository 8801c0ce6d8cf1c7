----------------------------- MODULE HttpH1Value ----------------------------
(***************************************************************************)
(* The header value parsers of HTTP/1 requests and responses               *)
(* (fw/http_parser.c), one table per C function.                           *)
(***************************************************************************)
EXTENDS HttpFsm, TLC

LOCAL Comma == {","}
LOCAL WSC == WS \cup {","}
LOCAL EoTok == WS \cup {","} \cup CRLF
LOCAL Quote == {"\""}
LOCAL IntDelim == WS \cup CRLF \cup {","}
LOCAL All == nctl \cup CRLF

__parse_connection ==
  [I_Conn |->
     <<Part(With(Str("close", "I_ConnTok"), <<AccF("CONN_CLOSE")>>), <<"data">>),
       Part(With(Str("keep-alive", "I_ConnTok"), <<AccF("CONN_KA")>>), <<"data">>),
       Ini, Go("I_ConnOther")>>,
   I_ConnTok |->
     <<Jp(All \ EoTok, "I_ConnOther"),
       If(Kept("CONN_KA"), Do(<<Not("CONN_CLOSE"), Set("CONN_KA"),
                                Set("HBH_KEEP_ALIVE")>>)),
       If(Kept("CONN_CLOSE"), Do(<<Not("CONN_KA"), Set("CONN_CLOSE")>>)),
       Go("I_EoT")>>,
   I_ConnOther |->
     <<Part(Run(token, "I_ConnOther"), <<"run">>),
       Do(<<Set("CONN_EXTRA"), <<"hbh", "">> >>),
       Mv(WSC, "I_EoT"), Rt(CRLF)>>,
   I_EoT |-> <<Mv(WSC, "I_EoT"), With(Jp(token, "I_Conn"), <<Acc0>>), Rt(CRLF)>>]

__parse_content_length ==
  [I_ContLen |-> <<Do(<<Not("BODYLESS")>>),
                   With(Num(WS \cup CRLF, ULONG_MAX, ""), <<Put("content_length")>>)>>]

__resp_parse_content_type ==
  [I_ContType |-> <<Run(ctext_vchar, "I_ContType"), Rt(CRLF)>>]

__req_parse_content_type_media ==
  [I_ContType |-> <<If(IsNot("POST"), Go("I_EoL")), Go("I_ContTypeMediaType")>>,
   I_ContTypeMediaType |->
     <<Fx(Str("multipart/form-data", "I_ContTypeMaybeMultipart"), ""),
       If(<<"chunk", 10>>, With(Go("I_ContTypeOtherSubtype"), <<<<"init", "">>>>)),
       Ini, Go("I_ContTypeOtherType")>>,
   I_ContTypeMaybeMultipart |->
     <<With(Fx(Mv({";"}, "I_ContTypeParamOWS"), ""), <<Set("MULTIPART")>>),
       Fx(Mv(WS, "I_ContTypeMultipartOWS"), ""),
       With(Rt(CRLF), <<Set("MULTIPART"), <<"boundary", "">>>>),
       Go("I_ContTypeOtherSubtype")>>,
   I_ContTypeMultipartOWS |->
     <<Fx(Mv(WS, "I_ContTypeMultipartOWS"), ""),
       With(Fx(Mv({";"}, "I_ContTypeParamOWS"), ""), <<Set("MULTIPART")>>),
       With(Rt(CRLF), <<Set("MULTIPART"), <<"boundary", "">>>>)>>]

__req_parse_content_type_other ==
  [I_ContTypeOtherType |->
     <<Fx(Run(token, "I_ContTypeOtherType"), ""), Fx(Mn(CRLF, "I_EoL"), ""),
       Fx(Mn(All, "I_ContTypeOtherTypeSlash"), "")>>,
   I_ContTypeOtherTypeSlash |-> <<Fx(Mv({"/"}, "I_ContTypeOtherSubtype"), "")>>,
   I_ContTypeOtherSubtype |->
     <<Fx(Run(token, "I_ContTypeOtherSubtype"), ""),
       Fx(Mn(All, "I_ContTypeOtherTypeOWS"), "")>>,
   I_ContTypeOtherTypeOWS |->
     <<Fx(Mv(WS, "I_ContTypeOtherTypeOWS"), ""),
       Fx(Mv({";"}, "I_ContTypeParamOWS"), ""), With(Rt(CRLF), <<<<"boundary", "">>>>)>>,
   I_EoL |-> <<Fx(Run(ctext_vchar, "I_EoL"), ""), With(Rt(CRLF), <<<<"boundary", "">>>>)>>]

__req_parse_content_type_param ==
  [I_ContTypeParamOWS |->
     <<Fx(Mv(WS, "I_ContTypeParamOWS"), ""), With(Rt(CRLF), <<<<"boundary", "">>>>),
       Go("I_ContTypeParam")>>,
   I_ContTypeParam |->
     <<If(IsNot("MULTIPART"), Go("I_ContTypeParamOther")),
       With(Fx(Str("boundary=", "I_ContTypeBoundaryValue"), ""),
            <<Not("HAS_BOUNDARY"), Set("HAS_BOUNDARY")>>),
       Ini, Go("I_ContTypeParamOther")>>,
   I_ContTypeParamOther |->
     <<Fx(Run(token, "I_ContTypeParamOther"), ""), Fx(Mv({"="}, "I_ContTypeParamValue"), "")>>]

__req_parse_content_type_value ==
  [I_ContTypeParamValue |->
     <<Fx(Mv(Quote, "I_ContTypeParamValueQuoted"), ""), Go("I_ContTypeParamValueUnquoted")>>,
   I_ContTypeParamValueUnquoted |->
     <<Fx(Run(token, "I_ContTypeParamValueUnquoted"), "VALUE"),
       Fx(Mn(All, "I_ContTypeParamValueOWS"), "")>>,
   I_ContTypeParamValueOWS |->
     <<Fx(Mv(WS, "I_ContTypeParamValueOWS"), ""), Fx(Mv({";"}, "I_ContTypeParamOWS"), ""),
       With(Rt(CRLF), <<<<"boundary", "">>>>)>>,
   I_ContTypeParamValueQuoted |->
     <<Fx(Run(token, "I_ContTypeParamValueQuoted"), "VALUE"),
       Do(<<<<"eat", "VALUE">>>>), Fx(Mv({"\\"}, "I_ContTypeParamValueEscapedChar"), ""),
       Fx(Mv(Quote, "I_ContTypeParamValueOWS"), ""),
       Fx(Mv(All \ CRLF, "I_ContTypeParamValueQuoted"), "")>>,
   I_ContTypeParamValueEscapedChar |->
     <<Fx(Mv(All \ CRLF, "I_ContTypeParamValueQuoted"), "VALUE")>>]

\* raw, bval, both: the raw boundary, the boundary and both grow.
__req_parse_content_type_boundary ==
  [I_ContTypeBoundaryValue |->
     <<Do(<<<<"bopen", "">>>>),
       With(Fx(Mv(Quote, "I_ContTypeBoundaryValueQuoted"), ""), <<<<"raw", 1>>>>),
       Go("I_ContTypeBoundaryValueUnquoted")>>,
   I_ContTypeBoundaryValueUnquoted |->
     <<Part(Fx(Run(token, "I_ContTypeBoundaryValueUnquoted"), "VALUE"), <<"both">>),
       Do(<<<<"both", 0>>, <<"eat", "VALUE">>, <<"bclose", 0>>>>),
       Go("I_ContTypeParamValueOWS")>>,
   I_ContTypeBoundaryValueQuoted |->
     <<Part(Fx(Run(token, "I_ContTypeBoundaryValueQuoted"), "VALUE"), <<"both">>),
       Do(<<<<"both", 0>>, <<"eat", "VALUE">>>>),
       With(Fx(Mv({"\\"}, "I_ContTypeBoundaryValueEscapedChar"), ""), <<<<"raw", 1>>>>),
       With(Fx(Mv(All \ (CRLF \cup Quote), "I_ContTypeBoundaryValueQuoted"), "VALUE"),
            <<<<"raw", 1>>, <<"bval", 1>>>>),
       With(Fx(Mv(Quote, "I_ContTypeParamValueOWS"), ""), <<<<"raw", 1>>, <<"bclose", 1>>>>)>>,
   I_ContTypeBoundaryValueEscapedChar |->
     <<With(Fx(Mv(All \ CRLF, "I_ContTypeBoundaryValueQuoted"), "VALUE"),
            <<<<"raw", 1>>, <<"bval", 1>>>>)>>]

__parse_transfer_encoding(client) ==
  [I_TransEncod |-> <<Do(<<Not("BODYLESS")>>), Go("I_TransEncodTok")>>,
   I_TransEncodTok |->
     <<Fx(Str("chunked", "I_TransEncodChunked"), ""), Ini, Go("I_TransEncodOther")>>,
   I_TransEncodChunked |->
     <<With(Jp(EoTok, "I_EoT"), <<Not("CHUNKED"), Set("CHUNKED")>>),
       Go("I_TransEncodOther")>>,
   I_TransEncodOther |->
     <<Fx(Run(token, "I_TransEncodOther"), ""), Fx(Jp(WSC, "I_EoT"), ""),
       If(Is("CHUNKED"), Fx(With(Rt(CRLF),
            IF client THEN <<Not("CHUNKED")>>
            ELSE <<Clr("CHUNKED"), Set("CHUNKED_APPLIED")>>), "")),
       Fx(Rt(CRLF), "")>>,
   I_EoT |-> <<Fx(Mv(Comma, "I_EoT"), ""), Fx(Mv(WS, "I_EoT"), "OWS"),
               Jp(token, "I_TransEncodTok"), Rt(CRLF)>>]

__req_parse_transfer_encoding == __parse_transfer_encoding(TRUE)

__resp_parse_transfer_encoding == __parse_transfer_encoding(FALSE)

__req_parse_accept ==
  [Req_I_WSAccept |-> <<Mv(WS, "Req_I_WSAccept"), Go("Req_I_Accept")>>,
   Req_I_Accept |->
     <<Str("text", "Req_I_AfterText"), Str("*", "Req_I_AfterStar"), Ini,
       Jp(token, "Req_I_Type")>>,
   Req_I_AfterText |-> <<Mv({"/"}, "Req_I_AfterTextSlash"), Mv(All, "Req_I_Type")>>,
   Req_I_AfterTextSlash |-> <<Mv({"*"}, "I_EoT"), Go("Req_I_AfterTextSlashToken")>>,
   Req_I_AfterTextSlashToken |-> <<Str("html", "Req_I_AcceptHtml"), Ini, Go("Req_I_Subtype")>>,
   Req_I_AfterStar |-> <<Mv({"/"}, "Req_I_StarSlashStar")>>,
   Req_I_StarSlashStar |-> <<Mv({"*"}, "I_EoT")>>,
   Req_I_AcceptHtml |->
     <<With(Jp(EoTok \cup {";"}, "I_EoT"), <<Set("ACCEPT_HTML")>>), Go("Req_I_Subtype")>>,
   Req_I_Type |-> <<Run(token, "Req_I_Type"), Mv({"/"}, "Req_I_Slash")>>,
   Req_I_Slash |-> <<Mv({"*"}, "I_EoT"), Jp(token, "Req_I_Subtype")>>,
   Req_I_Subtype |-> <<Run(token, "Req_I_Subtype"), Mn(All, "I_EoT")>>,
   Req_I_QValue |-> <<Mv(Digit \cup {"."}, "Req_I_QValue"), Go("I_EoT")>>,
   Req_I_WSAcceptOther |-> <<Mv(WS, "Req_I_WSAcceptOther"), Jp(token, "Req_I_AcceptOther")>>,
   Req_I_AcceptOther |->
     <<Str("q=", "Req_I_QValue"), Ini, Run(token, "Req_I_AcceptOther"),
       Mv({"="}, "Req_I_ParamValue")>>,
   Req_I_ParamValue |->
     <<Mv(Quote, "Req_I_QuotedString"), Run(token, "Req_I_ParamValue"), Mn(All, "I_EoT")>>,
   Req_I_QuotedString |->
     <<Run(token, "Req_I_QuotedString"), First, Mv(All \ Quote, "Req_I_QuotedString"),
       Mv(Quote, "I_EoT")>>,
   I_EoT |-> <<Mv(WS, "I_EoT"), Mv(Comma, "Req_I_WSAccept"), Mv({";"}, "Req_I_WSAcceptOther"),
               Rt(CRLF)>>]

__req_parse_authorization ==
  [Req_I_Auth |-> <<Run(ctext_vchar, "Req_I_Auth"), With(Rt(CRLF), <<Set("AUTHORIZATION")>>)>>]

LOCAL CcInt(x, eot) ==
  <<Bad(With(Num(IntDelim, UINT_MAX, eot), <<Put(x), Set(x)>>), "CLAMP")>>

__req_parse_cache_control ==
  [Req_I_CC |-> <<Jp(Lc("m"), "Req_I_CC_m"), Jp(Lc("n"), "Req_I_CC_n"),
                  Jp(Lc("o"), "Req_I_CC_o"), Go("Req_I_CC_Ext")>>,
   Req_I_CC_m |->
     <<Str("max-age=", "Req_I_CC_MaxAgeV"), Str("min-fresh=", "Req_I_CC_MinFreshV"),
       Str("max-stale", "Req_I_CC_MaxStale"), Ini, Go("Req_I_CC_Ext")>>,
   Req_I_CC_n |->
     <<With(Str("no-cache", "Req_I_CC_Flag"), <<AccF("no_cache")>>),
       With(Str("no-store", "Req_I_CC_Flag"), <<AccF("no_store")>>),
       With(Str("no-transform", "Req_I_CC_Flag"), <<AccF("no_transform")>>),
       Ini, Go("Req_I_CC_Ext")>>,
   Req_I_CC_o |->
     <<With(Str("only-if-cached", "Req_I_CC_Flag"), <<AccF("oifcached")>>), Ini,
       Go("Req_I_CC_Ext")>>,
   Req_I_CC_Flag |-> <<With(Jp(EoTok, "Req_I_EoT"), <<OrAcc>>), Go("Req_I_CC_Ext")>>,
   Req_I_CC_MaxAgeV |-> CcInt("max_age", "Req_I_EoT"),
   Req_I_CC_MinFreshV |-> CcInt("min_fresh", "Req_I_EoT"),
   Req_I_CC_MaxStale |->
     <<Mv({"="}, "Req_I_CC_MaxStaleV"),
       With(Jp(EoTok, "Req_I_EoT"), <<Top("max_stale"), Set("max_stale")>>), Go("Req_I_CC_Ext")>>,
   Req_I_CC_MaxStaleV |-> CcInt("max_stale", "Req_I_EoT"),
   Req_I_CC_Ext |-> <<Run(qetoken, "Req_I_CC_Ext"), Mv(WSC, "Req_I_EoT"), Rt(CRLF)>>,
   Req_I_EoT |-> <<Mv(WSC, "Req_I_EoT"), With(Jp(token, "Req_I_CC"), <<Acc0>>), Rt(CRLF)>>]

__req_parse_cookie ==
  [Req_I_CookieStart |->
     <<Fx(Run(token, "Req_I_CookieName"), "NAME"),
       If(Some, Fx(Mv({"="}, "Req_I_CookieVal"), "NAME"))>>,
   Req_I_CookieName |->
     <<Fx(Run(token, "Req_I_CookieName"), "NAME"), Fx(Mv({"="}, "Req_I_CookieVal"), "NAME")>>,
   Req_I_CookieVal |->
     <<Fx(Run(cookie, "Req_I_CookieVal"), "VALUE"),
       Fx(Jp({";"}, "Req_I_CookieSemicolon"), "VALUE"), Fx(Rt(CRLFWS), "VALUE")>>,
   Req_I_CookieSemicolon |-> <<Fx(Two(All, {" "}, "Req_I_CookieStart", "Req_I_CookieSP"), "")>>,
   Req_I_CookieSP |-> <<Fx(Mv({" "}, "Req_I_CookieStart"), "")>>]

__parse_etag ==
  [I_Etag |->
     <<If(Is("CLNT"), With(Fx(Mv(Quote, "I_Etag_Val"), ""), <<Set("ETAG_LIST")>>)),
       Fx(Mv(Quote, "I_Etag_Val"), ""), Fx(Mv({"W"}, "I_Etag_W"), ""),
       If(Is("CLNT"), With(Fx(Mv({"*"}, "I_EoL"), ""), <<Not("ETAG_LIST"), Set("ETAG_ANY")>>)),
       Fx(Mv(WS, "I_Etag"), "")>>,
   I_Etag_W |-> <<Fx(Mv({"/"}, "I_Etag_We"), "")>>,
   I_Etag_We |-> <<Fx(Mv(Quote, "I_Etag_Weak"), "")>>,
   I_Etag_Weak |-> <<Do(<<Set("WEAK")>>), Go("I_Etag_Val")>>,
   I_Etag_Val |->
     <<If(Is("WEAK"), Fx(Run(etag, "I_Etag_Val"), "WVALUE")),
       Fx(Run(etag, "I_Etag_Val"), "VALUE"),
       If(Is("WEAK"), With(Fx(Mv(Quote, "I_EoT"), "WVALUE"), <<Clr("WEAK")>>)),
       Fx(Mv(Quote, "I_EoT"), "VALUE")>>,
   I_EoT |-> <<Fx(Mv(WS, "I_EoT"), "OWS"), Rt(CRLF), If(Is("CLNT"), Fx(Mv(Comma, "I_Etag"), ""))>>,
   I_EoL |-> <<Fx(Mv(WS, "I_EoL"), "OWS"), Rt(CRLF)>>]

__req_parse_host ==
  [Req_I_H_Start |->
     <<Jp(Alnum \cup {".", "-"}, "Req_I_H"), Flag(Mv({"["}, "Req_I_H_v6"), "VALUE"), Rt(CRLFWS)>>,
   Req_I_H |->
     <<Flag(Mv(Alnum \cup {".", "-"}, "Req_I_H"), "VALUE"), Flush("Req_I_H_End")>>,
   Req_I_H_End |-> <<With(Fx(Mv({":"}, "Req_I_H_Port"), ""), <<Acc0>>), Rt(CRLFWS)>>,
   Req_I_H_v6 |->
     <<Flag(Mv(Xdigit \cup {":"}, "Req_I_H_v6"), "VALUE"), Need({"]"}),
       [Flush("Req_I_H_End") EXCEPT !.by = "over"]>>,
   Req_I_H_Port |->
     <<With(Rt(CRLFWS), <<Pos("port")>>),
       Part(Bad(With(Fx(Num(CRLFWS, USHRT_MAX, "Req_I_H_Port"), "VALUE"),
                     <<Put("port"), Pos("port"), Acc0>>), "NEQ"), <<"port">>)>>]

__req_parse_referer ==
  [Req_I_Referer |-> <<Run(uri, "Req_I_Referer"), Mv(WS, "Req_I_EoT"), Rt(CRLF)>>,
   Req_I_EoT |-> <<Mv(WS, "Req_I_EoT"), Rt(CRLF)>>]

(* The states of a date follow a template, chosen by the form of the date. *)
DateTemplate ==
  [RFC_822 |-> <<"I_Day", "I_Day", "I_SP", "I_MonthBeg", "I_Month", "I_Month", "I_SP",
                 "I_Year", "I_Year", "I_Year", "I_Year", "I_SP", "I_Hour", "I_Hour", "I_SC",
                 "I_Min", "I_Min", "I_SC", "I_Sec", "I_Sec", "I_SP", "I_GMT", "I_Res">>,
   RFC_850 |-> <<"I_Day", "I_Day", "I_Minus", "I_MonthBeg", "I_Month", "I_Month", "I_Minus",
                 "I_Year", "I_Year", "I_SP", "I_Hour", "I_Hour", "I_SC", "I_Min", "I_Min",
                 "I_SC", "I_Sec", "I_Sec", "I_SP", "I_GMT", "I_Res">>,
   ISOC |-> <<"I_MonthBeg", "I_Month", "I_Month", "I_SP", "I_SpaceOrDay", "I_Day", "I_SP",
              "I_Hour", "I_Hour", "I_SC", "I_Min", "I_Min", "I_SC", "I_Sec", "I_Sec", "I_SP",
              "I_Year", "I_Year", "I_Year", "I_Year", "I_Res">>]

DateWeekDay ==
  [I_WDate1 |-> <<Neq(Mv(Chars(Upper), "I_WDate2"))>>,
   I_WDate2 |-> <<Neq(Mv(Chars(Lower), "I_WDate3"))>>,
   I_WDate3 |-> <<Neq(Mv(Chars(Lower), "I_WDate4"))>>,
   I_WDate4 |->
     <<Do(<<Acc0, <<"month0", "">>>>),
       Neq(With(Mv(Comma, "I_WDaySP"), <<<<"type", "RFC_822">>>>)),
       Neq(With(Mv(Chars(Lower), "I_WDate5"), <<<<"type", "RFC_850">>>>)),
       Neq(With(Mv({" "}, "@"), <<<<"type", "ISOC">>>>))>>,
   I_WDate5 |-> <<Neq(Mv(Chars(Lower), "I_WDate5")), Neq(Mv(Comma, "I_WDaySP"))>>,
   I_WDaySP |-> <<Neq(Mv({" "}, "@"))>>]

DateTime ==
  [I_SP |-> <<Templ({" "}, "")>>,
   I_Minus |-> <<Templ({"-"}, "")>>,
   I_SC |-> <<Templ({":"}, "")>>,
   I_SpaceOrDay |-> <<Templ({" "}, ""), Templ(Digit, "day")>>,
   I_Day |-> <<Templ(Digit, "day")>>,
   I_MonthBeg |-> <<Templ(Chars(Upper), "month")>>,
   I_Month |-> <<Templ(Chars(Lower), "month")>>,
   I_Year |-> <<Templ(Digit, "year")>>,
   I_Hour |-> <<Templ(Digit, "hour")>>,
   I_Min |-> <<Templ(Digit, "min")>>,
   I_Sec |-> <<Templ(Digit, "sec")>>,
   I_GMT |-> <<Neq(Str("gmt", "@+")), Ini>>,
   I_Res |-> <<Do(<<<<"res", "">>>>), Go("I_EoL")>>,
   I_EoL |-> <<Do(<<Acc0>>), Run(nctl, "I_EoL"), Rt(CRLF)>>]

__parse_pragma ==
  [I_Pragma |-> <<Fx(Str("no-cache", "I_Pragma_NoCache"), ""), Ini, Go("I_Pragma_Ext")>>,
   I_Pragma_NoCache |->
     <<With(Jp(EoTok, "I_Pragma_Ext"), <<Set("pragma_no_cache")>>), Go("I_Pragma_Ext")>>,
   I_Pragma_Ext |->
     <<Fx(Run(qetoken, "I_Pragma_Ext"), ""), Fx(Jp(WSC, "I_EoT"), ""), Fx(Rt(CRLF), "")>>,
   I_EoT |-> <<Fx(Mv(WS, "I_EoT"), "OWS"), Fx(Mv(Comma, "I_EoT"), ""), Rt(CRLF),
               Go("I_Pragma_Ext")>>]

__req_parse_user_agent == [Req_I_UserAgent |-> <<Run(ctext_vchar, "Req_I_UserAgent"), Rt(CRLF)>>]

__req_parse_x_forwarded_for ==
  [Req_I_XFF |->
     <<Fx(Mv(WS, "Req_I_XFF"), ""), Fx(Run(xff, "Req_I_XFF_Node_Id"), "VALUE"),
       If(Some, Fx(Mn(All, "Req_I_XFF_Sep"), "VALUE"))>>,
   Req_I_XFF_Node_Id |->
     <<Fx(Run(xff, "Req_I_XFF_Node_Id"), "VALUE"), Fx(Mn(All, "Req_I_XFF_Sep"), "VALUE")>>,
   Req_I_XFF_Sep |->
     <<Rt(CRLF), Fx(Mv(WS, "Req_I_XFF_Sep"), ""), Fx(Mv(Comma, "Req_I_XFF"), "")>>]

__parse_keep_alive ==
  [I_KeepAlive |-> <<Fx(Str("timeout=", "I_KeepAliveTO"), ""), Ini, Go("I_KeepAliveExt")>>,
   I_KeepAliveTO |->
     <<Jump(With(Fx(Num(IntDelim, UINT_MAX, "I_EoT"), ""), <<Put("keep_alive"), Acc0>>))>>,
   I_KeepAliveExt |->
     <<Fx(Run(qetoken, "I_KeepAliveExt"), ""), Fx(Jp(WSC, "I_EoT"), ""), Fx(Rt(CRLF), "")>>,
   I_EoT |-> <<Fx(Mv(Comma, "I_EoT"), ""), Fx(Mv(WS, "I_EoT"), "OWS"),
               Fx(Mv({"="}, "I_KeepAliveExt"), ""), Jp(token, "I_KeepAlive"), Rt(CRLF)>>]

__parse_uri_mark ==
  [Req_I_UriMarkStart |-> <<Fx(Mv({"/"}, "Req_I_UriMarkName"), "")>>,
   Req_I_UriMarkName |->
     <<With(Fx(Str("__tfw=", "Req_I_UriMarkValue"), ""), <<<<"toread", 3>>>>),
       With(Rt(All), <<<<"unmark", "">>>>)>>,
   Req_I_UriMarkValue |-> <<Read("Req_I_UriMarkValue")>>]

Methods ==
  [I_Meth_C |-> <<"copy">>, I_Meth_D |-> <<"delete">>, I_Meth_G |-> <<"get">>,
   I_Meth_H |-> <<"head">>, I_Meth_L |-> <<"lock">>, I_Meth_M |-> <<"mkcol", "move">>,
   I_Meth_O |-> <<"options">>, I_Meth_P |-> <<"patch", "post", "propfind", "proppatch", "put">>,
   I_Meth_T |-> <<"trace">>, I_Meth_U |-> <<"unlock">>]

MethStart ==
  <<Jp(Lc("c"), "I_Meth_C"), Jp(Lc("d"), "I_Meth_D"), Jp(Lc("g"), "I_Meth_G"),
    Jp(Lc("h"), "I_Meth_H"), Jp(Lc("l"), "I_Meth_L"), Jp(Lc("m"), "I_Meth_M"),
    Jp(Lc("o"), "I_Meth_O"), Jp(Lc("p"), "I_Meth_P"), Jp(Lc("t"), "I_Meth_T"),
    Jp(Lc("u"), "I_Meth_U")>>

__parse_m_override ==
  [m \in DOMAIN Methods |->
     [i \in 1..Len(Methods[m]) |-> With(Str(Methods[m][i], "I_EoT"),
                                        <<Val("method", Methods[m][i])>>)]
     \o <<Ini, Go(IF m = "I_Meth_T" THEN "I_Meth_U" ELSE "I_Meth_Unknown")>>]
  @@ [I_Meth_Start |-> MethStart \o <<Mv(All, "I_Meth_Unknown")>>,
      I_Meth_Unknown |-> <<Run(token, "I_Meth_Unknown"), Do(<<Val("method", "unknown")>>),
                           Mn(All, "I_EoT")>>,
      I_EoT |-> <<Mv(token, "I_Meth_Unknown"), Mv(WS, "I_EoT"), Rt(CRLF)>>]

__resp_parse_age ==
  [Resp_I_Age |->
     <<Jump(With(Fx(Num(CRLFWS, UINT_MAX, "Resp_I_EoL"), ""), <<Put("age"), Acc0>>))>>,
   Resp_I_EoL |-> <<Fx(Mv(WS, "Resp_I_EoL"), "OWS"), With(Rt(CRLF), <<Set("hdr_age")>>)>>]

LOCAL RespCcFlag(s, x) == With(Fx(Str(s, "Resp_I_Flag"), ""), <<AccF(x)>>)
LOCAL RespCcInt(x) ==
  <<If(Is(x), With(Go("Resp_I_Ext"), <<Zero(x)>>)),
    Bad(With(Fx(Num(IntDelim, UINT_MAX, "Resp_I_EoT"), ""), <<Put(x), Set(x)>>), "CLAMP")>>

__resp_parse_cache_control ==
  [Resp_I_CC |-> <<Jp(Lc("m"), "Resp_I_CC_m"), Jp(Lc("n"), "Resp_I_CC_n"),
                   Jp(Lc("p"), "Resp_I_CC_p"), Jp(Lc("s"), "Resp_I_CC_s"), Go("Resp_I_Ext")>>,
   Resp_I_CC_m |-> <<Fx(Str("max-age=", "Resp_I_CC_MaxAgeV"), ""),
                     RespCcFlag("must-revalidate", "must_reval"), Ini, Go("Resp_I_Ext")>>,
   Resp_I_CC_n |-> <<RespCcFlag("no-cache", "no_cache"), RespCcFlag("no-store", "no_store"),
                     RespCcFlag("no-transform", "no_transform"), Ini, Go("Resp_I_Ext")>>,
   Resp_I_CC_p |-> <<RespCcFlag("public", "public"), RespCcFlag("private", "private"),
                     RespCcFlag("proxy-revalidate", "proxy_reval"), Ini, Go("Resp_I_Ext")>>,
   Resp_I_Flag |-> <<With(Jp(EoTok, "Resp_I_EoT"), <<OrAcc, Acc0>>), Go("Resp_I_Ext")>>,
   Resp_I_CC_s |-> <<Fx(Str("s-maxage=", "Resp_I_CC_SMaxAgeV"), ""), Ini, Go("Resp_I_Ext")>>,
   Resp_I_CC_MaxAgeV |-> RespCcInt("max_age"),
   Resp_I_CC_SMaxAgeV |-> RespCcInt("s_maxage"),
   Resp_I_Ext |-> <<Fx(Run(qetoken, "Resp_I_Ext"), ""), Fx(Jp(WSC, "Resp_I_EoT"), ""),
                    Fx(Rt(CRLF), "")>>,
   Resp_I_EoT |-> <<Fx(Mv(Comma, "Resp_I_EoT"), ""), Fx(Mv(WS, "Resp_I_EoT"), "OWS"), Do(<<Acc0>>),
                    Fx(Mv({"="}, "Resp_I_Ext"), ""), Jp(token, "Resp_I_CC"), Rt(CRLF)>>]

__resp_parse_server == [Resp_I_Server |-> <<Run(ctext_vchar, "Resp_I_Server"), Rt(CRLF)>>]

__resp_parse_set_cookie ==
  [Resp_I_CookieStart |->
     <<Fx(Run(token, "Resp_I_CookieName"), "NAME"),
       If(Some, Fx(Mv({"="}, "Resp_I_CookieVal"), "NAME"))>>,
   Resp_I_CookieName |->
     <<Fx(Run(token, "Resp_I_CookieName"), "NAME"), Fx(Mv({"="}, "Resp_I_CookieVal"), "NAME")>>,
   Resp_I_CookieVal |->
     <<Fx(Run(cookie, "Resp_I_CookieVal"), "VALUE"),
       Fx(Jp({";"}, "Resp_I_CookieSemicolon"), "VALUE"), Fx(Rt(CRLFWS), "VALUE")>>,
   Resp_I_CookieSemicolon |->
     <<Fx(Two(All, {" "}, "Resp_I_CookieExtension", "Resp_I_CookieSP"), "")>>,
   Resp_I_CookieExtension |-> <<Fx(Run(ctext_vchar, "Resp_I_CookieExtension"), ""), Fx(Rt(CRLF), "")>>,
   Resp_I_CookieSP |-> <<Fx(Mv({" "}, "Resp_I_CookieExtension"), "")>>]
=============================================================================
